-------------------------------- MODULE Seams --------------------------------
(***************************************************************************)
(* The graphs of a repository and what is read off them: references and    *)
(* what they resolve to, the three graphs, communities, bridges,           *)
(* betweenness, co-change, the score of a seam and the reach of a change;  *)
(* then the report on them and the prose about it.                         *)
(* Source: crates/dark-explore/src/{extract,graph,seam,output,narrate.rs}. *)
(*                                                                         *)
(* Files are numbered in path order, as graph::build numbers them.  A file *)
(* has a dir, defs [name, from, to, exported, abstract], refs [name, from, *)
(* to, local] and imports [names, target]; "local" is the index of the     *)
(* definition a lexical scope found, or 0, and a target is a file or 0.    *)
(* A graph is [size |-> nodes, edges |-> sequence of [from, to, ...]]: an  *)
(* edge's identifier is its place in the sequence.  A share of one is an   *)
(* integer between 0 and Unit.  A directory is its number in path order.   *)
(* A text is a sequence of characters, a token one of those between blanks.*)
(***************************************************************************)
EXTENDS Integers, SequencesExt, FiniteSetsExt, Functions

CONSTANTS
    Unit,            \* one, as a share
    MaxPasses,       \* MAX_PASSES
    SampleThreshold, \* SAMPLE_THRESHOLD
    TargetSamples,   \* TARGET_SAMPLES
    MaxReportedSeams,    \* MAX_REPORTED_SEAMS
    MaxReportedHotspots, \* MAX_REPORTED_HOTSPOTS
    ExtractMaxItems,     \* EXTRACT_MAX_ITEMS
    Small, Capital, Digit,   \* the letters and digits of a token
    CodeExtensions       \* CODE_EXTENSIONS, as sequences of characters

Total(f, S) == MapThenSumSet(LAMBDA x : f[x], S)

-----------------------------------------------------------------------------
(* References.                                                             *)

Exporters(files, name) ==
    {t \in UNION {{i} \X DOMAIN files[i].defs : i \in DOMAIN files} :
        /\ files[t[1]].defs[t[2]].name = name
        /\ files[t[1]].defs[t[2]].exported}

\* The definition an import names: the first exported one of that name in the
\* file the import resolved to, if it did.
Imported(files, import, name) ==
    IF import.target = 0 THEN {}
    ELSE LET found == {d \in DOMAIN files[import.target].defs :
                          files[import.target].defs[d].name = name
                              /\ files[import.target].defs[d].exported}
         IN  IF found = {} THEN {} ELSE {<<import.target, Min(found)>>}

\* What a reference of file i resolves to, as a set of at most one answer.  The
\* first import that names it governs it, resolved or not; without one, a single
\* exported definition in the whole repository does.
Resolve(files, i, ref) ==
    LET governs == {k \in DOMAIN files[i].imports : ref.name \in files[i].imports[k].names}
        As(targets, how) == {[target |-> t, confidence |-> how] : t \in targets}
    IN  IF ref.local > 0 THEN As({<<i, ref.local>>}, "exact")
        ELSE IF governs # {}
        THEN As(Imported(files, files[i].imports[Min(governs)], ref.name), "import scoped")
        ELSE IF Cardinality(Exporters(files, ref.name)) = 1
        THEN As(Exporters(files, ref.name), "name only")
        ELSE {}

UnresolvedRefs(files) ==
    Cardinality({r \in UNION {{i} \X DOMAIN files[i].refs : i \in DOMAIN files} :
                    Resolve(files, r[1], files[r[1]].refs[r[2]]) = {}})

-----------------------------------------------------------------------------
(* The graphs.                                                             *)

ConfidenceRank(how) == CASE how = "exact" -> 2 [] how = "import scoped" -> 1 [] OTHER -> 0

\* The innermost definition around a range; of two the same size, the first.
EnclosingDef(file, ref) ==
    LET around == {d \in DOMAIN file.defs :
                      file.defs[d].from <= ref.from /\ ref.to <= file.defs[d].to}
        Width(d) == file.defs[d].to - file.defs[d].from
    IN  {d \in around : \A o \in around \ {d} :
            Width(d) < Width(o) \/ (Width(d) = Width(o) /\ d < o)}

\* Adds an edge, or counts it on the one already there and keeps the better
\* confidence of the two.
Upsert(edges, edge) ==
    LET at == {k \in DOMAIN edges : edges[k].from = edge.from /\ edges[k].to = edge.to}
    IN  IF at = {} THEN Append(edges, edge)
        ELSE LET k == CHOOSE k \in at : TRUE
                 better == ConfidenceRank(edge.confidence) > ConfidenceRank(edges[k].confidence)
             IN  [edges EXCEPT ![k].count = @ + 1,
                               ![k].confidence = IF better THEN edge.confidence ELSE @]
Contract(edges) == FoldLeft(Upsert, << >>, edges)
Edge(from, to, how) == [from |-> from, to |-> to, count |-> 1, confidence |-> how]

FileEdges(files) ==
    Contract(FlattenSeq([i \in DOMAIN files |->
        LET resolved == SelectSeq(files[i].imports, LAMBDA imp : imp.target > 0)
        IN  [k \in DOMAIN resolved |-> Edge(i, resolved[k].target, "exact")]]))

\* From the definition around a reference to the one it resolved to; none from a
\* file's top level, and none from a definition to itself.
SymbolEdges(files) ==
    LET Step(i, ref) ==
            LET from == {<<i, d>> : d \in EnclosingDef(files[i], ref)}
            IN  SetToSeq({Edge(s, a.target, a.confidence) :
                             s \in from, a \in Resolve(files, i, ref)})
        all == FlattenSeq([i \in DOMAIN files |->
                   FlattenSeq([k \in DOMAIN files[i].refs |-> Step(i, files[i].refs[k])])])
    IN  Contract(SelectSeq(all, LAMBDA e : e.from # e.to))

\* The file graph by directory: an edge counts the pairs of files it stands for,
\* and a directory has no edge to itself.
ModuleEdges(files, edges) ==
    LET apart == SelectSeq(edges, LAMBDA e : files[e.from].dir # files[e.to].dir)
    IN  Contract([k \in DOMAIN apart |->
            Edge(files[apart[k].from].dir, files[apart[k].to].dir, "exact")])

\* Coupling counts the neighbours on each side; the shares are Unit's, and the
\* distance is |A + I - 1|.
Metrics(graph, node, defs, abstracts) ==
    LET ca == Cardinality({k \in DOMAIN graph.edges : graph.edges[k].to = node})
        ce == Cardinality({k \in DOMAIN graph.edges : graph.edges[k].from = node})
        i == IF ca + ce = 0 THEN 0 ELSE (Unit * ce) \div (ca + ce)
        a == IF defs = 0 THEN 0 ELSE (Unit * abstracts) \div defs
        d == a + i - Unit
    IN  [ca |-> ca, ce |-> ce, instability |-> i, abstractness |-> a,
         distance |-> IF d < 0 THEN -d ELSE d]

-----------------------------------------------------------------------------
(* Communities.                                                            *)

\* How many edges join two nodes, whichever way they run.
Weight(graph, a, b) ==
    Cardinality({k \in DOMAIN graph.edges :
        {graph.edges[k].from, graph.edges[k].to} = {a, b}})
Degree(graph, a) ==
    MapThenSumSet(LAMBDA b : Weight(graph, a, b) * (IF a = b THEN 2 ELSE 1), 1..graph.size)
TotalWeight(graph) == MapThenSumSet(LAMBDA a : Degree(graph, a), 1..graph.size)

\* What a node gains by sitting in a community, times the total weight.
GainOf(graph, of, node, community) ==
    LET others == {o \in 1..graph.size \ {node} : of[o] = community}
    IN  MapThenSumSet(LAMBDA o : Weight(graph, node, o), others) * TotalWeight(graph)
            - MapThenSumSet(LAMBDA o : Degree(graph, o), others) * Degree(graph, node)

\* The best of a node's own community and its neighbours'; of equals, the lowest.
BestCommunity(graph, of, node) ==
    LET near == {of[o] : o \in {o \in 1..graph.size \ {node} : Weight(graph, node, o) > 0}}
        gain == [c \in near \union {of[node]} |-> GainOf(graph, of, node, c)]
    IN  CHOOSE c \in DOMAIN gain : \A o \in DOMAIN gain \ {c} :
            gain[c] > gain[o] \/ (gain[c] = gain[o] /\ c < o)

Pass(graph, of) ==
    FoldLeft(LAMBDA now, node : [now EXCEPT ![node] = BestCommunity(graph, now, node)],
             of, [n \in 1..graph.size |-> n])

RECURSIVE Settle(_, _, _)
Settle(graph, of, passes) ==
    LET next == Pass(graph, of)
    IN  IF next = of \/ passes = MaxPasses THEN [of |-> next, passes |-> passes]
        ELSE Settle(graph, next, passes + 1)

\* Numbered from zero in the order communities first appear.
Renumber(of) ==
    LET first == {n \in DOMAIN of : \A o \in DOMAIN of : of[o] = of[n] => n <= o}
    IN  [n \in DOMAIN of |->
            Cardinality({m \in first : \E f \in first : of[f] = of[n] /\ m < f})]

Detect(graph) ==
    LET alone == [n \in 1..graph.size |-> n]
        settled == IF TotalWeight(graph) = 0 THEN [of |-> alone, passes |-> 0]
                   ELSE Settle(graph, alone, 1)
    IN  [of |-> Renumber(settled.of), passes |-> settled.passes]

\* Times the square of the total weight.  A node's edge to itself is counted once
\* inside its community and twice in its degree.
ModularityOf(graph, of) ==
    LET members(c) == {n \in DOMAIN of : of[n] = c}
        inside(c) == MapThenSumSet(LAMBDA p : Weight(graph, p[1], p[2]),
                                   members(c) \X members(c))
        incident(c) == MapThenSumSet(LAMBDA n : Degree(graph, n), members(c))
    IN  MapThenSumSet(LAMBDA c : inside(c) * TotalWeight(graph) - incident(c) * incident(c),
                      {of[n] : n \in DOMAIN of})

-----------------------------------------------------------------------------
(* Bridges and articulation points: Tarjan's search, with its stack.       *)

\* A node's neighbours with the edge to each, in the order of both; an edge from
\* a node to itself is left out.
Adjacent(graph, node) ==
    LET ends == {<<o, k>> \in (1..graph.size) \X DOMAIN graph.edges :
                    o # node /\ {graph.edges[k].from, graph.edges[k].to} = {o, node}}
    IN  SetToSortSeq(ends, LAMBDA x, y : x[1] < y[1] \/ (x[1] = y[1] /\ x[2] < y[2]))

Frame(node, via) == [node |-> node, via |-> via, next |-> 1, children |-> 0]
Enter(search, node, via) ==
    [search EXCEPT !.counter = @ + 1, !.stack = Append(@, Frame(node, via)),
                   !.discovery = (node :> search.counter + 1) @@ @,
                   !.low = (node :> search.counter + 1) @@ @]
Lower(low, node, value) == [low EXCEPT ![node] = Min({@, value})]

\* Looks at the next neighbour of the frame on top.
Look(graph, search) ==
    LET top == Len(search.stack)
        frame == search.stack[top]
        near == Adjacent(graph, frame.node)[frame.next]
        on == [search EXCEPT !.stack[top].next = @ + 1]
    IN  IF near[2] = frame.via THEN on
        ELSE IF near[1] \in DOMAIN search.discovery
        THEN [on EXCEPT !.low = Lower(@, frame.node, search.discovery[near[1]])]
        ELSE Enter([on EXCEPT !.stack[top].children = @ + 1], near[1], near[2])

\* Folds a finished frame into its parent.  A bridge runs from parent to child,
\* whichever way the edge does.
Finish(search) ==
    LET done == Last(search.stack)
        rest == Front(search.stack)
        low == search.low[done.node]
    IN  IF rest = << >>
        THEN [search EXCEPT !.stack = rest,
                            !.points = IF done.children > 1 THEN @ \union {done.node} ELSE @]
        ELSE LET parent == Last(rest).node
                 seen == search.discovery[parent]
             IN  [search EXCEPT
                     !.stack = rest,
                     !.low = Lower(@, parent, low),
                     !.bridges = IF low > seen
                                 THEN @ \union {[edge |-> done.via, from |-> parent,
                                                 to |-> done.node]}
                                 ELSE @,
                     !.points = IF Len(rest) > 1 /\ low >= seen THEN @ \union {parent} ELSE @]

RECURSIVE WalkFrom(_, _)
WalkFrom(graph, search) ==
    IF search.stack = << >> THEN search
    ELSE LET frame == Last(search.stack)
         IN  WalkFrom(graph, IF frame.next <= Len(Adjacent(graph, frame.node))
                             THEN Look(graph, search) ELSE Finish(search))

Structure(graph) ==
    LET idle == [discovery |-> << >>, low |-> << >>, counter |-> 0, stack |-> << >>,
                 bridges |-> {}, points |-> {}]
    IN  FoldLeft(LAMBDA search, root :
                     IF root \in DOMAIN search.discovery THEN search
                     ELSE WalkFrom(graph, Enter(search, root, 0)),
                 idle, [n \in 1..graph.size |-> n])

-----------------------------------------------------------------------------
(* Betweenness.                                                            *)

StrideFor(nodes) ==
    IF nodes <= SampleThreshold THEN 1
    ELSE Max({1, (nodes + TargetSamples - 1) \div TargetSamples})

\* Distances and numbers of shortest paths from a source, a ring at a time.
RECURSIVE Rings(_, _, _)
Rings(graph, ring, found) ==
    LET steps == {k \in DOMAIN graph.edges :
                     /\ graph.edges[k].from \in ring
                     /\ graph.edges[k].to \notin DOMAIN found}
        reached == {graph.edges[k].to : k \in steps}
        into(n) == {k \in steps : graph.edges[k].to = n}
        level == [n \in reached |->
                     [paths |-> MapThenSumSet(LAMBDA k : found[graph.edges[k].from].paths, into(n)),
                      distance |-> 1 + found[CHOOSE m \in ring : TRUE].distance]]
    IN  IF reached = {} THEN found ELSE Rings(graph, reached, level @@ found)

\* What a source lends each edge, times Unit: from the farthest node back, a node
\* shares what it was lent, and one, among the edges its shortest paths came by.
AccumulateFrom(graph, source) ==
    LET found == Rings(graph, {source}, source :> [paths |-> 1, distance |-> 0])
        onPath == {k \in DOMAIN graph.edges :
                      /\ graph.edges[k].from \in DOMAIN found
                      /\ found[graph.edges[k].to].distance
                             = found[graph.edges[k].from].distance + 1}
        farthestFirst == SetToSortSeq(DOMAIN found,
                             LAMBDA x, y : found[x].distance > found[y].distance)
        Share(lent, node) ==
            LET own == Unit + Total(lent, {k \in onPath : graph.edges[k].from = node})
            IN  [k \in DOMAIN lent |->
                    IF k \in onPath /\ graph.edges[k].to = node
                    THEN (found[graph.edges[k].from].paths * own) \div found[node].paths
                    ELSE lent[k]]
    IN  FoldLeft(Share, [k \in DOMAIN graph.edges |-> 0], farthestFirst)

Betweenness(graph) ==
    LET stride == StrideFor(graph.size)
        sources == {n \in 1..graph.size : (n - 1) % stride = 0}
    IN  [k \in DOMAIN graph.edges |->
            MapThenSumSet(LAMBDA s : AccumulateFrom(graph, s)[k], sources)]

-----------------------------------------------------------------------------
(* Co-change.  A line of git's log is a hash, or names a path, maybe moved. *)

\* The path after the last move a field states: everything after a bare arrow, or
\* the right half of the braces with what is around them.
RenameTarget(field) ==
    IF "=>" \notin ToSet(field) THEN field
    ELSE LET arrow == Min({k \in DOMAIN field : field[k] = "=>"})
             opens == {k \in 1..arrow : field[k] = "{"}
             closes == {k \in arrow..Len(field) : field[k] = "}"}
         IN  IF opens # {} /\ closes # {}
             THEN SubSeq(field, 1, Max(opens) - 1) \o SubSeq(field, arrow + 1, Min(closes) - 1)
                      \o SubSeq(field, Min(closes) + 1, Len(field))
             ELSE SubSeq(field, arrow + 1, Len(field))

\* One set of paths a hash; a path before the first hash is lost.
ParseNumstat(lines) ==
    FoldLeft(LAMBDA commits, line :
                 IF line.kind = "hash" THEN Append(commits, {})
                 ELSE IF line.kind = "path" /\ commits # << >>
                 THEN [commits EXCEPT ![Len(commits)] = @ \union {RenameTarget(line.field)}]
                 ELSE commits,
             << >>, lines)

Touched(commits, path) == Cardinality({k \in DOMAIN commits : path \in commits[k]})
\* Commits that touch both over commits that touch either; none without either.
Coupling(commits, a, b) ==
    LET both == Cardinality({k \in DOMAIN commits : {a, b} \subseteq commits[k]})
        either == Touched(commits, a) + Touched(commits, b) - both
    IN  IF either = 0 THEN 0 ELSE (Unit * both) \div either

-----------------------------------------------------------------------------
(* The score of a seam.                                                    *)

\* Equal values have no spread, and become 0.
MinMaxNormalise(values) ==
    LET all == {values[k] : k \in DOMAIN values}
        spread == Max(all) - Min(all)
    IN  [k \in DOMAIN values |->
            IF spread = 0 THEN 0 ELSE (Unit * (values[k] - Min(all))) \div spread]

\* The weights of the five terms, in hundredths.
Weights == [betweenness |-> 35, crosses |-> 25, abstractness |-> 20, cochange |-> 10, tested |-> 10]
SumToOne(weights) ==
    weights.betweenness + weights.crosses + weights.abstractness + weights.cochange
        + weights.tested = 100
Score(weights, t) ==
    (weights.betweenness * t.betweenness + weights.crosses * t.crosses
        + weights.abstractness * t.abstractness + weights.cochange * t.inverse
        + weights.tested * t.tested) \div 100

\* Every file edge, scored and ranked: tests is the set of test files, coupling the
\* co-change of an edge's two files.
Analyse(graph, tests, abstractness, coupling, weights) ==
    LET edges == graph.edges
        of == Detect(graph).of
        hard == {b.edge : b \in Structure(graph).bridges}
        tested == {edges[k].to : k \in {e \in DOMAIN edges : edges[e].from \in tests}}
        between == MinMaxNormalise(Betweenness(graph))
        together == MinMaxNormalise([k \in DOMAIN edges |-> coupling[k]])
        terms == [k \in DOMAIN edges |->
            [betweenness |-> between[k],
             crosses |-> IF of[edges[k].from] # of[edges[k].to] THEN Unit ELSE 0,
             abstractness |-> abstractness[edges[k].to],
             inverse |-> Unit - together[k],
             tested |-> (Unit * Len(SelectSeq(<<edges[k].from, edges[k].to>>,
                                              LAMBDA n : n \in tested))) \div 2]]
        seams == [k \in DOMAIN edges |->
            [edge |-> k, from |-> edges[k].from, to |-> edges[k].to, terms |-> terms[k],
             score |-> Score(weights, terms[k]), hard |-> k \in hard]]
    IN  IF ~SumToOne(weights) THEN [failed |-> TRUE]
        ELSE [failed |-> FALSE,
              seams |-> SortSeq(seams, LAMBDA x, y :
                            x.score > y.score \/ (x.score = y.score /\ x.edge < y.edge))]

-----------------------------------------------------------------------------
(* The reach of a change.                                                  *)

\* Everything that references a member of the set, through edges below the
\* threshold; and every edge into what was found that is not below it.
RECURSIVE ReverseReachable(_, _, _, _)
ReverseReachable(edges, seen, scores, threshold) ==
    LET into == {k \in DOMAIN edges : edges[k].to \in seen}
        more == {edges[k].from : k \in {e \in into : scores[e] < threshold}}
    IN  IF more \subseteq seen
        THEN [seen |-> seen, stopped |-> {k \in into : scores[k] >= threshold}]
        ELSE ReverseReachable(edges, seen \union more, scores, threshold)

\* Twice: with nothing stopping it, and stopped by the seams.
BlastRadius(edges, start, scores, threshold) ==
    LET bounded == ReverseReachable(edges, start, scores, threshold)
    IN  [reachable |-> ReverseReachable(edges, start, [k \in DOMAIN edges |-> -1], 0).seen,
         bounded |-> bounded.seen, stopped |-> bounded.stopped]

\* A symbol edge between two files has the score of the edge between the files; one
\* inside a file, or between files no import joins, has none.
SymbolScores(symbols, seams) ==
    [k \in DOMAIN symbols |->
        LET over == {s \in ToSet(seams) :
                        s.from = symbols[k].from[1] /\ s.to = symbols[k].to[1] /\ s.from # s.to}
        IN  IF over = {} THEN 0 ELSE (CHOOSE s \in over : TRUE).score]

\* What else a change to every definition of a name would reach, and in which files
\* other than their own; nothing when there is no such definition.
BlastForSymbol(files, symbols, seams, name, threshold) ==
    LET start == {t \in UNION {{i} \X DOMAIN files[i].defs : i \in DOMAIN files} :
                     files[t[1]].defs[t[2]].name = name}
        radius == BlastRadius(symbols, start, SymbolScores(symbols, seams), threshold)
    IN  IF start = {} THEN {}
        ELSE {[definitions |-> Cardinality(start),
               reachable |-> Cardinality(radius.reachable \ start),
               bounded |-> Cardinality(radius.bounded \ start),
               files |-> {t[1] : t \in radius.bounded \ start} \ {t[1] : t \in start},
               seams |-> Cardinality(radius.stopped)]}

-----------------------------------------------------------------------------
(* The report on a repository and the prose about it: what document.rs     *)
(* selects from the graphs and the scored seams, the digest of what else   *)
(* the report depends on, which definitions count as documented, and the   *)
(* narration a model writes, with the linter that reads it.                *)

Take(seq, n) == SubSeq(seq, 1, Min({n, Len(seq)}))
Abstracts(file) == Len(SelectSeq(file.defs, LAMBDA d : d.abstract))

-----------------------------------------------------------------------------
(* The document.                                                           *)

\* One node for every directory that holds a file.
ModuleNodes(files) ==
    [d \in {files[i].dir : i \in DOMAIN files} |->
        LET members == {i \in DOMAIN files : files[i].dir = d}
        IN  [files |-> Cardinality(members),
             defs |-> MapThenSumSet(LAMBDA i : Len(files[i].defs), members),
             abstracts |-> MapThenSumSet(LAMBDA i : Abstracts(files[i]), members)]]

BuildStats(files) ==
    [files |-> Len(files),
     defs |-> MapThenSumSet(LAMBDA i : Len(files[i].defs), DOMAIN files),
     edgesF |-> Len(FileEdges(files)), edgesS |-> Len(SymbolEdges(files)),
     modularity |-> LET graph == [size |-> Len(files), edges |-> FileEdges(files)]
                    IN  ModularityOf(graph, Detect(graph).of)]

\* The directories in path order, in communities of their own graph.
BuildModules(files) ==
    LET nodes == ModuleNodes(files)
        order == SetToSortSeq(DOMAIN nodes, <)
        At(d) == CHOOSE k \in DOMAIN order : order[k] = d
        across == ModuleEdges(files, FileEdges(files))
        graph == [size |-> Len(order),
                  edges |-> [k \in DOMAIN across |->
                                [across[k] EXCEPT !.from = At(@), !.to = At(@)]]]
        of == Detect(graph).of
        Row(k) == LET node == nodes[order[k]]
                      m == Metrics(graph, k, node.defs, node.abstracts)
                  IN  [path |-> order[k], files |-> node.files, ca |-> m.ca, ce |-> m.ce,
                       i |-> m.instability, a |-> m.abstractness, d |-> m.distance,
                       community |-> of[k]]
    IN  [k \in DOMAIN order |-> Row(k)]

\* The first of the ranked seams; what is shown of the co-change is what the score
\* left of it.
BuildSeams(seams) ==
    LET first == Take(seams, MaxReportedSeams)
    IN  [k \in DOMAIN first |->
            LET s == first[k]
            IN  [from |-> s.from, to |-> s.to, score |-> s.score, hard |-> s.hard,
                 betweenness |-> s.terms.betweenness,
                 crossesCommunity |-> 2 * s.terms.crosses >= Unit,
                 abstractnessTarget |-> s.terms.abstractness,
                 cochange |-> Unit - s.terms.inverse,
                 testProximity |-> s.terms.tested]]

\* All of them, by path; each runs the way the search first crossed it.
BuildBridges(graph) ==
    LET found == Structure(graph).bridges
    IN  SortSeq(SetToSeq({[from |-> b.from, to |-> b.to, hard |-> TRUE] : b \in found}),
                LAMBDA x, y : x.from < y.from \/ (x.from = y.from /\ x.to < y.to))

\* Four tenths are coupling, three the distance and three the churn, coupling and churn
\* by their place between the repository's least and most.
BuildHotspots(files, edges, commits) ==
    LET graph == [size |-> Len(files), edges |-> edges]
        metrics == [i \in DOMAIN files |->
                       Metrics(graph, i, Len(files[i].defs), Abstracts(files[i]))]
        churn == [i \in DOMAIN files |-> Touched(commits, i)]
        coupled == MinMaxNormalise([i \in DOMAIN files |-> metrics[i].ca])
        touched == MinMaxNormalise(churn)
        score == [i \in DOMAIN files |->
                     4 * coupled[i] + 3 * metrics[i].distance + 3 * touched[i]]
        ranked == SortSeq([i \in DOMAIN files |-> i],
                          LAMBDA x, y : score[x] > score[y] \/ (score[x] = score[y] /\ x < y))
        first == Take(ranked, MaxReportedHotspots)
    IN  [k \in DOMAIN first |->
            [path |-> first[k], ca |-> metrics[first[k]].ca, d |-> metrics[first[k]].distance,
             churn |-> churn[first[k]]]]

\* Everything the report says; languages are those of Survey.
Build(files, tests, coupling, commits, languages) ==
    LET edges == FileEdges(files)
        graph == [size |-> Len(files), edges |-> edges]
        abstractness == [i \in DOMAIN files |->
            Metrics(graph, i, Len(files[i].defs), Abstracts(files[i])).abstractness]
        seams == IF edges = << >> THEN << >>
                 ELSE Analyse(graph, tests, abstractness, coupling, Weights).seams
    IN  [stats |-> BuildStats(files), modules |-> BuildModules(files),
         seams |-> BuildSeams(seams), bridges |-> BuildBridges(graph),
         hotspots |-> BuildHotspots(files, edges, commits),
         unresolvedRefs |-> UnresolvedRefs(files), languages |-> languages]

\* The configuration, as the numbers that are hashed: every list of unknown length
\* after its length, the directories in order.
ConfigBytes(weights, window, options) ==
    LET dirs == SortSeq(options.vendorDirs, LAMBDA x, y : \/ IsStrictPrefix(x, y)
                           \/ \E k \in DOMAIN x \intersect DOMAIN y :
                                 x[k] < y[k] /\ \A j \in 1..k - 1 : x[j] = y[j])
    IN  weights \o <<window, options.maxFileSize, Len(dirs)>>
            \o FlattenSeq([k \in DOMAIN dirs |-> <<Len(dirs[k])>> \o dirs[k]])

-----------------------------------------------------------------------------
(* Documented definitions.  A node before a definition has a kind, its     *)
(* text, and the line ends between it and the node after it.               *)

DocRule(language) ==
    LET Of(comments, transparent, markers) ==
            [comments |-> comments, transparent |-> transparent, markers |-> markers]
        block == <<"/", "*", "*">>
        slashes == <<"/", "/", "/">>
    IN  CASE language = "rust" ->
                Of({"line_comment", "block_comment"}, {"attribute_item"},
                   {slashes, <<"/", "/", "!">>, block, <<"/", "*", "!">>})
          [] language \in {"go", "ruby", "c", "cpp"} -> Of({"comment"}, {}, {})
          [] language = "java" -> Of({"line_comment", "block_comment"}, {}, {block})
          [] language = "csharp" -> Of({"comment"}, {"attribute_list"}, {slashes})
          [] OTHER -> Of({"comment"}, {"decorator"}, {block})

\* The nearest node that is not transparent is a comment of the right kind, on the line
\* before what follows it or on the same.
DocPresent(language, before) ==
    LET rule == DocRule(language)
    IN  /\ language \notin {"python", "sql", "markdown"}
        /\ \E k \in DOMAIN before :
              /\ \A j \in k + 1..Len(before) : before[j].kind \in rule.transparent
              /\ before[k].kind \in rule.comments
              /\ before[k].gap <= 1
              /\ rule.markers = {} \/ \E m \in rule.markers : IsPrefix(m, before[k].text)

-----------------------------------------------------------------------------
(* The narration.                                                          *)

\* What the model is shown; the languages are not.
BudgetedExtract(document) ==
    [stats |-> document.stats, modules |-> Take(document.modules, ExtractMaxItems),
     seams |-> Take(document.seams, ExtractMaxItems),
     bridges |-> Take(document.bridges, ExtractMaxItems),
     hotspots |-> Take(document.hotspots, ExtractMaxItems),
     unresolvedRefs |-> document.unresolvedRefs]

\* The text of a generation, or nothing where it failed; a stream that only ends has
\* stopped.
RunGeneration(chunks) ==
    LET ends == {k \in DOMAIN chunks : chunks[k].kind \in {"done", "err"}}
        last == IF ends = {} THEN Len(chunks) ELSE Min(ends)
        text == FlattenSeq([k \in 1..last |->
                    IF chunks[k].kind = "text" THEN chunks[k].text ELSE << >>])
        failed == ends # {} /\ \/ chunks[last].kind = "err"
                               \/ chunks[last].reason = "error"
    IN  IF failed THEN {} ELSE {text}

Edges == {".", ",", ";", ":", "!", "?", "quote", "(", ")", "[", "]", "{", "}"}
TrimEdges(token) ==
    LET inner == {k \in DOMAIN token : token[k] \notin Edges}
    IN  IF inner = {} THEN << >> ELSE SubSeq(token, Min(inner), Max(inner))

HasCodeExtension(token) ==
    LET dots == {k \in DOMAIN token : token[k] = "."}
    IN  /\ dots # {} /\ Max(dots) > 1
        /\ SubSeq(token, Max(dots) + 1, Len(token)) \in CodeExtensions
HasPathShape(token) ==
    LET slashes == Cardinality({k \in DOMAIN token : token[k] = "/"})
    IN  slashes > 1 \/ (slashes = 1 /\ Contains(token, "."))
HasCamelHump(token) ==
    \E k \in 1..Len(token) - 1 : token[k] \in Small /\ token[k + 1] \in Capital
LooksLikeSymbol(token) ==
    \/ \E k \in 1..Len(token) - 1 : token[k] = ":" /\ token[k + 1] = ":"
    \/ HasPathShape(token)
    \/ Contains(token, "_") /\ ToSet(token) \intersect (Small \union Capital) # {}
    \/ HasCamelHump(token)
    \/ HasCodeExtension(token)
\* Digits, a point and digits, after a sign or not.
LooksLikeDataNumber(token) ==
    LET body == IF token # << >> /\ token[1] = "-" THEN Tail(token) ELSE token
    IN  \E k \in 2..Len(body) - 1 :
            body[k] = "." /\ \A j \in DOMAIN body \ {k} : body[j] \in Digit

\* A token that looks like a symbol or a decimal is flagged when it stands nowhere in
\* the report, as a part of anything; once.
Lint(words, report) ==
    LET tokens == [k \in DOMAIN words |-> TrimEdges(words[k])]
        Stands(t) == \E k \in 0..Len(report) : IsSuffix(t, SubSeq(report, 1, k))
        Kind(t) == IF LooksLikeSymbol(t) THEN "symbol"
                   ELSE IF LooksLikeDataNumber(t) THEN "number" ELSE "word"
        flagged == SelectSeq(tokens, LAMBDA t : ~Stands(t) /\ Kind(t) # "word")
        once == SelectSeq([k \in DOMAIN flagged |-> k],
                          LAMBDA k : \A o \in 1..k - 1 : flagged[o] # flagged[k])
    IN  [k \in DOMAIN once |->
            [token |-> flagged[once[k]], kind |-> Kind(flagged[once[k]])]]

Words(text) ==
    LET Blank(k) == k \notin DOMAIN text \/ text[k] = " "
        runs == {r \in (DOMAIN text) \X (DOMAIN text) :
                    /\ r[1] <= r[2] /\ Blank(r[1] - 1) /\ Blank(r[2] + 1)
                    /\ \A k \in r[1]..r[2] : ~Blank(k)}
        inOrder == SetToSortSeq(runs, LAMBDA x, y : x[1] < y[1])
    IN  [k \in DOMAIN inOrder |-> SubSeq(text, inOrder[k][1], inOrder[k][2])]

Narrate(chunks, report) ==
    {[text |-> text, flags |-> Lint(Words(text), report)] : text \in RunGeneration(chunks)}
=============================================================================
