----------------------------- MODULE MCCharting -----------------------------
(* Small instances of Charting: one process at a time, or two; and facts    *)
(* about what the stages compute, which TLC evaluates before a run.        *)
EXTENDS Charting, SequencesExt, FiniteSetsExt

CONSTANTS r1, r2

EveryCut == {"nothing", "fragment", "no newline", "everything"}

-----------------------------------------------------------------------------
(* Names of two words at most; two words of a text are enough to match.     *)

Steps == INSTANCE ChartStages WITH MaxAttempts <- 3, LongNameWords <- 2, ShortMatchWords <- 2

Goal == <<"move", "store">>
Candidate(name, kind) ==
    [name |-> <<name>>, kind |-> kind, axis |-> "shape", question |-> <<"how", "a", name, "?">>]
Reply(candidates) == [kind |-> "candidates", candidates |-> candidates]
Good == Reply(<<Candidate("x", "research"), Candidate("y", "task")>>)
Replies == {Good, Reply(<<Candidate("x", "task"), Candidate("x", "task")>>),
            Reply(<<Candidate("x", "research")>>),
            Reply(<<[Candidate("x", "task") EXCEPT !.question = <<"move", "store", "?">>]>>),
            [kind |-> "garbage"], [kind |-> "engine error"]}

\* Extraction asks three times at most, never again once it has an answer or the engine
\* failed, and says each time what the answer before it was refused for
\* (DefaultExtractor::extract).
ASSUME ExtractSettles ==
    \A replies \in TupleOf(Replies, 4) :
        LET ends == {k \in 1..3 : replies[k] = Good \/ replies[k].kind = "engine error"} \union {3}
            found == Steps!Extract(replies, Goal, {"a"})
        IN  /\ found.asked = Min(ends)
            /\ (found.result.outcome = "got") = (replies[Min(ends)] = Good)
            /\ Len(found.repairs) = Min(ends) - 1
            /\ ToSet(found.repairs) \subseteq {"not unique", "all research", "restates", "schema"}

\* A generation's text does not depend on how it was cut into chunks, and what
\* follows Done is not read (run_generation).
ChunksOf == {[kind |-> "text", text |-> <<"x">>], [kind |-> "text", text |-> <<"x", "y">>],
             [kind |-> "reasoning", text |-> <<"z">>], [kind |-> "usage"],
             [kind |-> "done", reason |-> "length"], [kind |-> "done", reason |-> "error"],
             [kind |-> "err"]}
Apart(chunk) ==
    IF chunk.kind \notin {"text", "reasoning"} THEN <<chunk>>
    ELSE [k \in DOMAIN chunk.text |-> [chunk EXCEPT !.text = <<chunk.text[k]>>]]
ASSUME CutsDoNotMatter ==
    \A chunks \in SeqOf(ChunksOf, 4) :
        /\ Steps!RunGeneration(chunks)
             = Steps!RunGeneration(FlattenSeq([k \in DOMAIN chunks |-> Apart(chunks[k])]))
        /\ \A after \in ChunksOf :
              (\E k \in DOMAIN chunks : chunks[k].kind \in {"done", "err"}) =>
                  Steps!RunGeneration(chunks) = Steps!RunGeneration(Append(chunks, after))

\* A field is the text of its last tag and of the lines up to the next one; a text
\* that is read gives a destination and one of the three types (parse_destination).
Tagged(tag, text) == [tag |-> tag, text |-> text, inside |-> FALSE]
Lines == {Tagged("DESTINATION", <<"x">>), Tagged("DESTINATION", << >>), Tagged("NOTES", <<"y">>),
          Tagged("TYPE", <<"spec">>), Tagged("none", <<"z">>)}
ASSUME LastTagWins ==
    \A answer \in SeqOf(Lines, 5) :
        LET tagged == {k \in DOMAIN answer : answer[k].tag # "none"}
            last(tag) == Max({k \in tagged : answer[k].tag = tag})
            until(k) == Min({j \in tagged : j > k} \union {Len(answer) + 1}) - 1
            whole(k) == FlattenSeq([j \in 1..(until(k) - k + 1) |-> answer[k + j - 1].text])
            found == Steps!ParseDestination(answer)
        IN  /\ found.outcome = "got" =>
                  /\ found.value.destination = whole(last("DESTINATION"))
                  /\ \E k \in DOMAIN answer : answer[k].tag = "TYPE"
            /\ (\E k \in tagged : answer[k].tag = "DESTINATION" /\ k = last("DESTINATION")
                                  /\ answer[k].text # << >>)
               /\ (\E k \in tagged : answer[k].tag = "TYPE") => found.outcome = "got"

\* Each destination type has the axes of the last layer that names it, and a layer
\* that empties one is refused even when a later one would fill it (AxisSets::layered).
Layers == UNION {[types -> {<<"a">>, <<"b">>, << >>}] : types \in SUBSET {"spec", "in_place"}}
ASSUME LastLayerWins ==
    LET builtin == [type \in Steps!DestinationTypes |-> <<type>>]
    IN  \A layers \in SeqOf(Layers, 3) :
            LET naming(type) == {k \in DOMAIN layers : type \in DOMAIN layers[k]}
                found == Steps!Layered(builtin, layers)
            IN  /\ (found.outcome = "failed")
                     = (\E k \in DOMAIN layers : \E type \in DOMAIN layers[k] : layers[k][type] = << >>)
                /\ found.outcome = "got" => \A type \in Steps!DestinationTypes :
                      found.value[type] = IF naming(type) = {} THEN builtin[type]
                                          ELSE layers[Max(naming(type))][type]

\* Which text is the longer does not matter, and a text that matches still does when
\* it is longer (text_matches).
Texts == SeqOf({"x", "y"}, 4)
ASSUME MatchesEitherWay ==
    \A one, other \in Texts :
        /\ Steps!TextMatches(one, other) = Steps!TextMatches(other, one)
        /\ Steps!TextMatches(one, other) /\ Len(one) > Len(other) =>
              \A word \in {"x", "y"} : Steps!TextMatches(Append(one, word), other)

\* A split keeps every word of a question but the separator, leaves none of the two
\* parts empty, and asks both (split_question_text).
Questions == {q \in SeqOf({"x", "and", "or", ";", "?"}, 5) : q # << >> /\ Last(q) = "?"}
ASSUME SplitsKeepTheWords ==
    \A question \in {q \in Questions : Steps!Unasked(q) # << >>} :
        LET parts == Steps!SplitQuestion(question)
            body == Steps!Unasked(question)
        IN  /\ Len(parts) = 2 /\ \A k \in 1..2 : parts[k] # << >>
            /\ \/ \E sep \in {"and", "or", ";"} : parts[1] \o <<sep>> \o parts[2] = body
               \/ \A k \in 1..2 : Front(parts[k]) = body

\* Nothing that was extracted is lost: each candidate is one ticket, two, or a line of
\* its axis's fog; tickets have different names when candidates have, and are numbered
\* without a gap (ChartPipeline::run, stage_size, merge_fog_by_axis).
Sharpened == [name : {<<"x">>, <<"y">>, <<"z">>}, kind : {"task", "grilling"}, axis : {"a", "b"},
              question : {<<"p", "?">>}, outcome : {"TICKET", "FOG"}, multi : BOOLEAN]
ASSUME NothingIsLost ==
    \A n \in 0..2 : \A all \in TupleOf(Sharpened, n) : IsInjective([k \in 1..n |-> all[k].name]) =>
        LET sharp == SelectSeq(all, LAMBDA c : c.outcome = "TICKET")
            fog == Steps!MergeFogByAxis(SelectSeq(all, LAMBDA c : c.outcome = "FOG"), <<"a", "b">>)
            tickets == Steps!StageSize(sharp, [k \in DOMAIN sharp |-> [multi |-> sharp[k].multi, files |-> 0,
                                                                   research |-> FALSE]], 10, 1, 1)
            parts == {k \in DOMAIN sharp : sharp[k].multi}
        IN  /\ Len(tickets) = Len(sharp) + Cardinality(parts)
            /\ IsInjective([k \in DOMAIN tickets |-> tickets[k].name])
            /\ \A k \in DOMAIN tickets : tickets[k].ordinal = k - 1
            /\ Len(sharp) + Len(FlattenSeq([k \in DOMAIN fog |-> fog[k].patch])) = n
            /\ IsInjective([k \in DOMAIN fog |-> fog[k].axis])

\* What a file is reckoned to cost lies between the cheapest sample's and the
\* dearest's (calibrate_tokens_per_file).
Samples == [files : 0..2, tokens : 0..3]
ASSUME CalibratedWithinSamples ==
    \A samples \in SeqOf(Samples, 3) :
        LET cost == Steps!CalibrateTokensPerFile(samples)
            touching == {k \in DOMAIN samples : samples[k].files > 0}
        IN  (cost # << >> /\ touching = DOMAIN samples) =>
                /\ \E k \in touching : samples[k].tokens \div samples[k].files <= cost[1]
                /\ \E k \in touching : cost[1] * samples[k].files <= samples[k].tokens

-----------------------------------------------------------------------------
(* Repositories of four files; a share of one is twelve twelfths.           *)

Graph == INSTANCE Seams WITH
    Unit <- 12, MaxPasses <- 20, SampleThreshold <- 5, TargetSamples <- 3,
    MaxReportedSeams <- 1, MaxReportedHotspots <- 2, ExtractMaxItems <- 1,
    Small <- {"a", "r", "s"}, Capital <- {"C"}, Digit <- {"0", "1", "2"},
    CodeExtensions <- {<<"r", "s">>}

Files == 1..4
Ordered == {p \in Files \X Files : p[1] < p[2]}
\* Every pair of files apart, joined by one import, or importing each other.
Joins == [Ordered -> 0..2]
Arrow(from, to) == [from |-> from, to |-> to]
Joined(ways) ==
    LET both == SetToSeq({p \in Ordered : ways[p] > 0})
    IN  [size |-> 4,
         edges |-> FlattenSeq([k \in DOMAIN both |->
             SubSeq(<<Arrow(both[k][2], both[k][1]), Arrow(both[k][1], both[k][2])>>,
                    1, ways[both[k]])])]
\* What a node reaches through a set of edges, whichever way they run.
Side(edges, kept, node) ==
    FoldLeft(LAMBDA side, round :
                 side \union UNION {{edges[k].from, edges[k].to} :
                     k \in {e \in kept : {edges[e].from, edges[e].to} \intersect side # {}}},
             {node}, <<1, 2, 3>>)

\* A bridge is an edge without which its ends fall apart, and an articulation point a
\* file without which two of its neighbours do (structure::find).
ASSUME BridgesDisconnect ==
    \A ways \in Joins :
        LET graph == Joined(ways)
            edges == graph.edges
            found == Graph!Structure(graph)
            Near(n) == UNION {{edges[k].from, edges[k].to} :
                           k \in {e \in DOMAIN edges : n \in {edges[e].from, edges[e].to}}} \ {n}
            Without(n) == {k \in DOMAIN edges : n \notin {edges[k].from, edges[k].to}}
        IN  /\ {b.edge : b \in found.bridges}
                 = {k \in DOMAIN edges :
                       edges[k].to \notin Side(edges, DOMAIN edges \ {k}, edges[k].from)}
            /\ found.points = {n \in Files : \E a, b \in Near(n) :
                                  b \notin Side(edges, Without(n), a)}

\* A bridge is written in the direction the search took, not in that of the import
\* (structure.rs, walk_from).
ASSUME BridgesFaceTheSearch ==
    \E ways \in Joins :
        LET graph == Joined(ways)
        IN  \E b \in Graph!Structure(graph).bridges : b.from # graph.edges[b.edge].from

\* Moving settles long before its last pass, at a partition no file would leave for a
\* neighbour's community, no worse than every file alone (community::detect).
ASSUME NoFileWouldMove ==
    \A ways \in Joins :
        LET graph == Joined(ways)
            found == Graph!Detect(graph)
            here(n) == Graph!GainOf(graph, found.of, n, found.of[n])
        IN  /\ found.passes < 20
            /\ \A n, m \in Files : (n # m /\ ways[<<Min({n, m}), Max({n, m})>>] > 0) =>
                   here(n) >= Graph!GainOf(graph, found.of, n, found.of[m])
            /\ Graph!ModularityOf(graph, found.of) >= Graph!ModularityOf(graph, [n \in Files |-> n])
            /\ \A n \in Files : found.of[n] <= n - 1

\* A file that imports itself is counted once inside its community and twice in its
\* degree: one community of everything has not the modularity 0 it should
\* (modularity_of, weighted_view).
ASSUME SelfImportsAreHalfCounted ==
    LET alone == [size |-> 1, edges |-> <<Arrow(1, 1)>>]
        pair == [size |-> 2, edges |-> <<Arrow(1, 2)>>]
    IN  /\ Graph!ModularityOf(pair, [n \in 1..2 |-> 0]) = 0
        /\ Graph!ModularityOf(alone, <<0>>) < 0

\* An edge's betweenness is its share of the shortest paths between any two files; and
\* a sample is never more than its target (betweenness::compute, stride_for).
Routes == {r \in UNION {[1..k -> Files] : k \in 2..4} : IsInjective(r)}
Steppings(route) == {<<route[k], route[k + 1]>> : k \in 1..Len(route) - 1}
FewEdges == UNION {kSubset(k, {p \in Files \X Files : p[1] # p[2]}) : k \in 1..4}
ASSUME ShortestPathsAreShared ==
    /\ \A pairs \in FewEdges :
          LET edges == SetToSeq(pairs)
              graph == [size |-> 4, edges |-> [k \in DOMAIN edges |-> Arrow(edges[k][1], edges[k][2])]]
              open == {r \in Routes : Steppings(r) \subseteq pairs}
              among(r) == {o \in open : o[1] = r[1] /\ Last(o) = Last(r)}
              best == {r \in open : \A o \in among(r) : Len(r) <= Len(o)}
              share(r) == 12 \div Cardinality(among(r) \intersect best)
              found == Graph!Betweenness(graph)
          IN  \A k \in DOMAIN edges :
                 found[k] = MapThenSumSet(share, {r \in best : edges[k] \in Steppings(r)})
    /\ \A nodes \in 1..40 :
          LET sampled == {n \in 1..nodes : (n - 1) % Graph!StrideFor(nodes) = 0}
          IN  Cardinality(sampled) <= IF nodes <= 5 THEN nodes ELSE 3

\* A path is counted once a commit, in the commits git names; two files are coupled
\* wholly when no commit touches one of them alone; and a file that moves starts with
\* no history (parse_numstat, CoChange::coupling).
LogLines == {[kind |-> "hash"], [kind |-> "other"], [kind |-> "path", field |-> <<"x">>],
             [kind |-> "path", field |-> <<"y">>], [kind |-> "path", field |-> <<"x", "=>", "y">>],
             [kind |-> "path", field |-> <<"{", "y", "=>", "z", "}", "x">>]}
Paths == {<<"x">>, <<"y">>, <<"z", "x">>}
ASSUME HistoryIsReadByCommit ==
    \A told \in SeqOf(LogLines, 5) :
        LET commits == Graph!ParseNumstat(told)
            With(a) == {k \in DOMAIN commits : a \in commits[k]}
        IN  /\ Len(commits) = Cardinality({k \in DOMAIN told : told[k].kind = "hash"})
            /\ \A a, b \in Paths :
                  LET both == Graph!Coupling(commits, a, b)
                  IN  /\ both = Graph!Coupling(commits, b, a) /\ both \in 0..12
                      /\ (both = 12) = (With(a) # {} /\ With(a) = With(b))
            /\ UNION ToSet(commits) \subseteq Paths
ASSUME MovedFileStartsAgain ==
    LET together == [k \in 1..3 |-> {<<"x">>, <<"y">>}]
        moved == Graph!ParseNumstat(<<[kind |-> "hash"],
                     [kind |-> "path", field |-> <<"{", "=>", "z", "}", "x">>]>>)
    IN  /\ Graph!Coupling(together, <<"x">>, <<"y">>) = 12
        /\ Graph!Coupling(moved \o together, <<"z", "x">>, <<"y">>) = 0

\* A score stays a share, the highest is first, every bridge is marked, and weights
\* that do not sum to one are refused (seam::analyse, rank).
Shapes == {ways \in Joins : /\ \E p \in Ordered : ways[p] > 0
                            /\ \A p \in Ordered : ways[p] = 2 => p[1] = 1
                            /\ \A p \in {<<1, 4>>, <<2, 3>>} : ways[p] = 0}
ASSUME HighestSeamIsFirst ==
    \A ways \in Shapes : \A tests \in SUBSET {1, 2}, coupled \in {<<0, 0>>, <<3, 9>>, <<12, 4>>} :
        LET graph == Joined(ways)
            coupling == [k \in DOMAIN graph.edges |-> coupled[1 + (k % 2)]]
            found == Graph!Analyse(graph, tests, <<0, 6, 12, 3>>, coupling, Graph!Weights)
            seams == found.seams
        IN  /\ \A k \in DOMAIN seams : seams[k].score \in 0..12
            /\ \A k \in 2..Len(seams) : \/ seams[k - 1].score > seams[k].score
                                        \/ /\ seams[k - 1].score = seams[k].score
                                           /\ seams[k - 1].edge < seams[k].edge
            /\ \A k \in DOMAIN seams : seams[k].hard =>
                  seams[k].edge \in {b.edge : b \in Graph!Structure(graph).bridges}
            /\ Cardinality({k \in DOMAIN seams : seams[k].hard})
                 = Cardinality(Graph!Structure(graph).bridges)
            /\ Graph!Analyse(graph, tests, <<0, 6, 12, 3>>, coupling,
                             [Graph!Weights EXCEPT !.tested = 11]).failed

\* What a report calls two files' co-change is not their coupling but its place among
\* the repository's: files that always change together, like all others, get none
\* (min_max_normalise; document.rs, build_seams).
ASSUME CochangeIsRelative ==
    LET graph == [size |-> 4, edges |-> <<Arrow(1, 2), Arrow(3, 4)>>]
        seams == Graph!Analyse(graph, {}, <<0, 0, 0, 0>>, <<12, 12>>, Graph!Weights).seams
    IN  \A k \in DOMAIN seams : seams[k].terms.inverse = 12

\* Without the seams that stopped it, the whole reach of a change is the bounded one;
\* but a seam may be counted as stopping the walk that leads nowhere new
\* (blast_radius, reverse_reachable).
Calls == SetToSeq({p \in (1..3) \X (1..3) : p[1] # p[2]})
ASSUME SeamsBoundTheReach ==
    \A kept \in SUBSET DOMAIN Calls : \A scores \in [DOMAIN Calls -> {0, 7, 12}] :
        LET chosen == SetToSeq(kept)
            edges == [k \in DOMAIN chosen |-> Arrow(Calls[chosen[k]][1], Calls[chosen[k]][2])]
            score == [k \in DOMAIN chosen |-> scores[chosen[k]]]
            found == Graph!BlastRadius(edges, {1}, score, 7)
            open == SelectSeq([k \in DOMAIN edges |-> k], LAMBDA k : k \notin found.stopped)
        IN  (\A k \in DOMAIN Calls \ kept : scores[k] = 0) =>
                /\ found.bounded \subseteq found.reachable
                /\ Graph!BlastRadius([k \in DOMAIN open |-> edges[open[k]]], {1},
                                     [k \in DOMAIN open |-> 0], 7).reachable = found.bounded
                /\ (found.stopped = {}) => (found.bounded = found.reachable)
ASSUME SeamMayStopNothing ==
    LET found == Graph!BlastRadius(<<Arrow(2, 1), Arrow(3, 1), Arrow(2, 3)>>, {1}, <<8, 0, 0>>, 7)
    IN  found.stopped # {} /\ found.bounded = found.reachable

\* A reference has at most one answer.  Its name alone answers only while no import of
\* the file names it and one definition in the repository exports it: an import that
\* led nowhere still governs, and a second exporter takes the answer away (Resolve).
Def(name, from, to, exported) ==
    [name |-> name, from |-> from, to |-> to, exported |-> exported, abstract |-> FALSE]
Ref(name, from, to, own) == [name |-> name, from |-> from, to |-> to, local |-> own]
SourceFile(dir, defs, refs, imports) == [dir |-> dir, defs |-> defs, refs |-> refs, imports |-> imports]
Body == Def("g", 1, 10, FALSE)
Target == {<< >>, <<Def("f", 1, 3, TRUE)>>, <<Def("f", 1, 3, FALSE)>>,
           <<Def("f", 1, 3, FALSE), Def("f", 5, 9, TRUE)>>}
Naming == SeqOf([names : {{"f"}, {"h"}, {"f", "h"}}, target : {0, 2, 3}], 2)
Uses(imports) == SourceFile("a", <<Body>>, <<Ref("f", 4, 4, 0)>>, imports)
ASSUME OneExporterAnswers ==
    \A imports \in Naming, second, third \in Target :
        LET files == <<Uses(imports), SourceFile("b", second, << >>, << >>),
                       SourceFile("b", third, << >>, << >>)>>
            ref == files[1].refs[1]
            answers == Graph!Resolve(files, 1, ref)
            governed == \E k \in DOMAIN imports : "f" \in imports[k].names
            more == Append(files, SourceFile("c", <<Def("f", 1, 2, TRUE)>>, << >>, << >>))
        IN  /\ Cardinality(answers) <= 1
            /\ (\E a \in answers : a.confidence = "name only") =
                   (~governed /\ Cardinality(Graph!Exporters(files, "f")) = 1)
            /\ \A a \in answers : files[a.target[1]].defs[a.target[2]].exported
            /\ (\E a \in answers : a.confidence = "name only") => Graph!Resolve(more, 1, ref) = {}
            /\ governed => Graph!Resolve(more, 1, ref) = answers
            /\ Graph!UnresolvedRefs(files) = 1 - Cardinality(answers)

\* Whatever order its references come in, an edge counts them all and has the
\* confidence of the best; and it leaves from the innermost definition around
\* (enclosing_def, upsert_edge, add_symbol_edges).
Places == {Ref("f", at, at, own) : at \in {2, 4, 12}, own \in {0, 3}}
ASSUME StrongestReferenceCounts ==
    LET defs == <<Body, Def("h", 3, 5, FALSE), Def("f", 20, 24, TRUE)>>
        Calling(refs) == <<SourceFile("a", defs, refs, << >>)>>
        EdgesOf(refs) == ToSet(Graph!SymbolEdges(Calling(refs)))
        Inner(ref) == IF ref.from = 4 THEN 2 ELSE 1
    IN  \A refs \in SeqOf(Places, 3) :
            LET inside == SelectSeq(refs, LAMBDA r : r.from # 12)
            IN  /\ EdgesOf(refs) = EdgesOf(Reverse(refs))
                /\ EdgesOf(refs) =
                      {[from |-> <<1, d>>, to |-> <<1, 3>>,
                        count |-> Len(SelectSeq(inside, LAMBDA r : Inner(r) = d)),
                        confidence |-> IF \E k \in DOMAIN inside :
                                             Inner(inside[k]) = d /\ inside[k].local > 0
                                       THEN "exact" ELSE "name only"]
                         : d \in {Inner(inside[k]) : k \in DOMAIN inside}}

\* Imports are counted once a pair of files and nowhere twice: by directory, the
\* counts are the pairs that cross, every edge is someone's and someone else's, and no
\* distance leaves the range of shares (add_file_edges, add_module_edges, of).
ASSUME CrossingsAreCounted ==
    \A places \in [1..3 -> {"a", "b", "c"}], one, two \in SeqOf(0..3, 2) :
        LET targets == <<one, two, <<1>>>>
            files == [i \in 1..3 |->
                         SourceFile(places[i], << >>, << >>,
                              [k \in DOMAIN targets[i] |-> [names |-> {}, target |-> targets[i][k]]])]
            edges == Graph!FileEdges(files)
            between == Graph!ModuleEdges(files, edges)
            crossing == {p \in (1..3) \X (1..3) :
                            p[2] \in ToSet(targets[p[1]]) /\ places[p[1]] # places[p[2]]}
            graph == [size |-> 3, edges |-> between]
            of == [d \in {"a", "b", "c"} |-> Graph!Metrics(graph, d, 2, 1)]
        IN  /\ MapThenSumSet(LAMBDA k : between[k].count, DOMAIN between) = Cardinality(crossing)
            /\ MapThenSumSet(LAMBDA d : of[d].ca, DOMAIN of) = Len(between)
            /\ MapThenSumSet(LAMBDA d : of[d].ce, DOMAIN of) = Len(between)
            /\ \A d \in DOMAIN of : of[d].distance \in 0..12 /\ of[d].instability \in 0..12

\* A reference between files no import joins has no score, so no seam bounds the
\* change that runs along it, whatever the threshold (symbol_scores).
ASSUME SeamNeedsAnImport ==
    LET Called(imports) == <<Uses(imports), SourceFile("b", <<Def("f", 1, 3, TRUE)>>, << >>, << >>)>>
        Reach(imports) ==
            LET files == Called(imports)
                graph == [size |-> 2, edges |-> Graph!FileEdges(files)]
                seams == IF graph.edges = << >> THEN << >>
                         ELSE Graph!Analyse(graph, {}, <<0, 12>>, [k \in DOMAIN graph.edges |-> 0],
                                            Graph!Weights).seams
            IN  Graph!BlastForSymbol(files, Graph!SymbolEdges(files), seams, "f", 1)
    IN  /\ Reach(<< >>) = {[definitions |-> 1, reachable |-> 1, bounded |-> 1, files |-> {1},
                            seams |-> 0]}
        /\ Reach(<<[names |-> {"f"}, target |-> 2]>>) =
               {[definitions |-> 1, reachable |-> 1, bounded |-> 0, files |-> {}, seams |-> 1]}
        /\ Graph!BlastForSymbol(Called(<< >>), << >>, << >>, "k", 1) = {}

-----------------------------------------------------------------------------
(* Reports on three files, and what is said of them.                        *)

\* A file that is depended on as much as another, as far from the main sequence and as
\* often changed is not ranked below it; the cut takes the lowest (build_hotspots).
Concrete == Def("f", 1, 3, FALSE)
Abstract == [Concrete EXCEPT !.abstract = TRUE]
Holding(def) == SourceFile("a", <<def>>, << >>, << >>)
Arrows == {p \in (1..3) \X (1..3) : p[1] # p[2]}
ASSUME NothingWorseIsRankedAbove ==
    \A pairs \in SUBSET Arrows, defs \in [1..3 -> {Concrete, Abstract}], changed \in SUBSET (1..3) :
        LET files == [i \in 1..3 |-> Holding(defs[i])]
            edges == SetToSeq({Graph!Edge(p[1], p[2], "exact") : p \in pairs})
            commits == <<changed, changed \intersect {1, 2}>>
            found == Graph!BuildHotspots(files, edges, commits)
            of == [i \in 1..3 |->
                      LET m == Graph!Metrics([size |-> 3, edges |-> edges], i, 1,
                                             IF defs[i].abstract THEN 1 ELSE 0)
                      IN  <<m.ca, m.distance, Graph!Touched(commits, i)>>]
            AtLeast(i, j) == \A k \in 1..3 : of[i][k] >= of[j][k]
            shown == {found[k].path : k \in DOMAIN found}
        IN  /\ Len(found) = 2 /\ Cardinality(shown) = 2
            /\ \A k \in 1..2 : of[found[k].path] = <<found[k].ca, found[k].d, found[k].churn>>
            /\ AtLeast(found[2].path, found[1].path) =>
                  of[found[1].path] = of[found[2].path] /\ found[1].path < found[2].path
            /\ \A j \in (1..3) \ shown : AtLeast(j, found[2].path) =>
                  of[j] = of[found[2].path] /\ found[2].path < j

\* Which of two files is the hotter depends on the rest: here one that others depend on
\* is above one that changes, until a third file is depended on more (min_max_normalise).
\* And a file that nothing joins to another is as far from the main sequence as any can
\* be, so that it is above every file that only uses others (metrics::for_node).
ASSUME RankingDependsOnTheRest ==
    LET files == [i \in 1..5 |-> Holding(Concrete)]
        few == <<Arrow(4, 1)>>
        many == <<Arrow(4, 1), Arrow(4, 3), Arrow(5, 3)>>
        TopTwo(edges, of) ==
            LET found == Graph!BuildHotspots(files, edges, <<of>>)
            IN  <<found[1].path, found[2].path>>
    IN  /\ TopTwo(few, {2}) = <<1, 2>>
        /\ TopTwo(many, {2}) = <<3, 2>>
        /\ TopTwo(<<Arrow(1, 2)>>, {}) = <<2, 3>>

\* Every file is in one directory of the table and every definition counted once; and a
\* directory is coupled to those that import from it, itself left out (build,
\* build_modules).
ASSUME EveryFileIsInOneModule ==
    \A places \in [1..3 -> 1..3], targets \in [1..3 -> 0..3] :
        LET files == [i \in 1..3 |-> SourceFile(places[i], [k \in 1..i |-> Concrete], << >>,
                                         <<[names |-> {}, target |-> targets[i]]>>)]
            modules == Graph!BuildModules(files)
            nodes == Graph!ModuleNodes(files)
            SumOf(f) == MapThenSumSet(LAMBDA k : f[k], DOMAIN f)
        IN  /\ {modules[k].path : k \in DOMAIN modules} = {places[i] : i \in 1..3}
            /\ \A k \in 2..Len(modules) : modules[k - 1].path < modules[k].path
            /\ SumOf([k \in DOMAIN modules |-> modules[k].files]) = 3
            /\ SumOf([d \in DOMAIN nodes |-> nodes[d].defs]) = Graph!BuildStats(files).defs
            /\ \A k \in DOMAIN modules :
                  modules[k].ca = Cardinality({places[i] : i \in {j \in 1..3 :
                      /\ targets[j] > 0 /\ places[j] # modules[k].path
                      /\ places[targets[j]] = modules[k].path}})
            /\ \A k \in DOMAIN modules : modules[k].community \in 0..Len(modules) - 1

\* A bridge that the cut of the seams loses is still listed, and every seam called hard
\* is a listed bridge up to its direction; but not always in its own (build_seams,
\* build_bridges).
Importing(targets) ==
    [i \in 1..4 |-> SourceFile(1, <<Concrete>>, << >>,
        [k \in DOMAIN targets[i] |-> [names |-> {}, target |-> targets[i][k]]])]
Whole(files) ==
    Graph!Build(files, {}, [k \in DOMAIN Graph!FileEdges(files) |-> 0], << >>, << >>)
ASSUME CutSeamsAreStillBridges ==
    /\ \A one, two, three \in SeqOf(2..4, 2) :
          LET files == Importing(<<one, two, three, << >>>>)
              document == Whole(files)
              graph == [size |-> 4, edges |-> Graph!FileEdges(files)]
              joins == {{graph.edges[b.edge].from, graph.edges[b.edge].to}
                           : b \in Graph!Structure(graph).bridges}
              listed == {{b.from, b.to} : b \in ToSet(document.bridges)}
          IN  /\ listed = joins /\ Len(document.bridges) = Cardinality(joins)
              /\ Len(document.seams) = Min({1, Len(graph.edges)})
              /\ \A s \in ToSet(document.seams) : s.hard = ({s.from, s.to} \in joins)
              /\ Graph!BudgetedExtract(document).seams = document.seams
    /\ Whole(Importing(<<<<2>>, << >>, <<2>>, << >>>>)).bridges
         = <<[from |-> 1, to |-> 2, hard |-> TRUE], [from |-> 2, to |-> 3, hard |-> TRUE]>>

\* Two configurations are hashed alike when they differ in the order of the vendored
\* directories and in nothing else; naming one twice is another configuration, though
\* it excludes the same files (config_hash::compute).
Dirs == {<<1>>, <<1, 1>>, <<2>>, << >>}
Options == [maxFileSize : 1..2, vendorDirs : SeqOf(Dirs, 3)]
Named(options) == [d \in Dirs |-> Cardinality({k \in DOMAIN options.vendorDirs :
                                                  options.vendorDirs[k] = d})]
ASSUME NoFieldRunsIntoTheNext ==
    /\ \A one, two \in Options :
          (Graph!ConfigBytes(<<1>>, 2, one) = Graph!ConfigBytes(<<1>>, 2, two)) =
              (one.maxFileSize = two.maxFileSize /\ Named(one) = Named(two))
    /\ Graph!ConfigBytes(<<1>>, 2, [maxFileSize |-> 1, vendorDirs |-> <<<<1>>, <<1>>>>])
         # Graph!ConfigBytes(<<1>>, 2, [maxFileSize |-> 1, vendorDirs |-> <<<<1>>>>])

\* Only the comment nearest to a definition can document it: an ordinary remark between
\* hides the documentation, unless the language takes any comment; and a blank line
\* before an attribute hides nothing (doc_present, adjacent).
Node(kind, text, gap) == [kind |-> kind, text |-> text, gap |-> gap]
DocLine == <<"/", "/", "/", "x">>
Remark == <<"/", "/", "x">>
RustNodes == {Node("line_comment", DocLine, 1), Node("line_comment", Remark, 1),
              Node("line_comment", DocLine, 2), Node("attribute_item", << >>, 2),
              Node("function_item", << >>, 1)}
ASSUME NearestCommentDecides ==
    /\ \A before \in SeqOf(RustNodes, 4) :
          LET solid == SelectSeq(before, LAMBDA n : n.kind # "attribute_item")
          IN  Graph!DocPresent("rust", before) =
                  (solid # << >> /\ Last(solid) = Node("line_comment", DocLine, 1))
    /\ \A language \in {"go", "ruby", "c", "cpp"} :
          Graph!DocPresent(language, <<Node("comment", Remark, 1)>>)
    /\ \A language \in {"python", "sql", "markdown"} :
          ~Graph!DocPresent(language, <<Node("comment", <<"/", "*", "*">>, 1)>>)

\* What is not documentation counts as it: a file's own (//!) for the definition after
\* it, a line of slashes, and, where any comment will do, the remark behind the
\* definition before (doc_present).
ASSUME DocTakesWhatIsNot ==
    /\ Graph!DocPresent("rust", <<Node("line_comment", <<"/", "/", "!", "x">>, 1)>>)
    /\ Graph!DocPresent("rust", <<Node("line_comment", <<"/", "/", "/", "/">>, 1)>>)
    /\ Graph!DocPresent("c", <<Node("declaration", << >>, 0), Node("comment", Remark, 1)>>)
    /\ ~Graph!DocPresent("java", <<Node("line_comment", DocLine, 1)>>)

\* A generation's text does not depend on its cuts; a stream that breaks off, or that a
\* limit or a cancellation ended, is a narration like any other (run_generation).
Spoken == {[kind |-> "text", text |-> <<"a">>], [kind |-> "text", text |-> <<" ", "a">>],
           [kind |-> "other"], [kind |-> "err"], [kind |-> "done", reason |-> "stop"],
           [kind |-> "done", reason |-> "cancelled"], [kind |-> "done", reason |-> "error"]}
ASSUME BrokenStreamIsAccepted ==
    \A chunks \in SeqOf(Spoken, 4) :
        LET ends == {k \in DOMAIN chunks : chunks[k].kind \in {"err", "done"}}
            told == Graph!RunGeneration(chunks)
        IN  /\ (told = {}) = (ends # {} /\ chunks[Min(ends)] \in
                                  {[kind |-> "err"], [kind |-> "done", reason |-> "error"]})
            /\ \A chunk \in Spoken : (ends # {}) => Graph!RunGeneration(Append(chunks, chunk)) = told
            /\ \A text \in told : \A shown \in Graph!Narrate(chunks, << >>) :
                  shown.text = text /\ shown.flags = << >>
            /\ \A k \in DOMAIN chunks : (k \notin ends /\ chunks[k].kind # "text") =>
                  Graph!RunGeneration(RemoveAt(chunks, k)) = told

\* What is part of anything in the report passes, so a figure nobody counted does where
\* a longer one has it inside; what is not is flagged once (lint).
Figure == {<<"1">>, <<"1", ".", "1">>, <<"1", ".", "2">>}
ASSUME PartOfAFigurePasses ==
    /\ \A tokens \in SeqOf(Figure, 3), report \in SeqOf({"1", "."}, 5) :
          LET flags == Graph!Lint(tokens, report)
              invented == {t \in ToSet(tokens) : Len(t) = 3
                              /\ ~\E k \in 1..Len(report) - 2 : SubSeq(report, k, k + 2) = t}
          IN  {f.token : f \in ToSet(flags)} = invented /\ Len(flags) = Cardinality(invented)
    /\ Graph!Lint(<<<<"1", ".", "2">>>>, <<"3", "1", ".", "2", "4">>) = << >>

\* The linter reads spelling: a figure with a percent sign passes whatever the report
\* says, a name the report holds is flagged between backticks, and so is the field a
\* figure is cited by, as the prompt asks, when its name has an underscore
\* (narrate_prompt, looks_like_symbol, trim_edges).
ASSUME CitationsAreFlagged ==
    LET name == <<"a", "/", "a", ".", "r", "s">>
        tick == <<"backtick">>
        field == <<"a", "r", "_", "s">>
        Cited(list) == <<"(">> \o list \o <<"[", "0", "]", ".">> \o field \o <<")", ".">>
        report == <<"quote">> \o name \o <<"quote", ",", "quote">> \o field \o <<"quote">>
        FlagsOf(word) == Graph!Lint(<<word>>, report)
    IN  /\ FlagsOf(name \o <<",">>) = << >>
        /\ FlagsOf(<<"2", ".", "0", ".">>) = <<[token |-> <<"2", ".", "0">>, kind |-> "number"]>>
        /\ \A word \in {<<"2", ".", "0", "%">>, <<"2", "0", "1">>, <<"-", ".", "2">>} :
              FlagsOf(word) = << >>
        /\ FlagsOf(<<"s", ".", "r", "s">>) =
              <<[token |-> <<"s", ".", "r", "s">>, kind |-> "symbol"]>>
        /\ FlagsOf(tick \o name \o tick) # << >>
        /\ FlagsOf(<<"(">> \o field \o <<")">>) = << >>
        /\ FlagsOf(Cited(<<"s", "s">>)) # << >>
=============================================================================
