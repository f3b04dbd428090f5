---------------------------- MODULE MCResidentSet ----------------------------
(* Model checking of ResidentSet: three models that cannot all be resident; *)
(* facts about what a turn is set up with and how a machine is prepared,   *)
(* which TLC evaluates before a run.                                       *)
EXTENDS ResidentSet, TLC, SequencesExt, FiniteSetsExt

CONSTANTS big, mid, small, worker, scout

MCWeights == big :> <<40>> @@ mid :> <<30, 15>> @@ small :> <<20, 10>>

MCPerToken == big :> 1 @@ mid :> 1 @@ small :> 2

Asking(key, class, context, alias) ==
    [key |-> key, classes |-> {class}, context |-> context, alias |-> alias]

\* big fits alone only; mid and small fit together when both are cut down.
MCRequests ==
    {Asking(big, worker, 20, NoAlias), Asking(mid, worker, 20, scout),
     Asking(mid, scout, 5, NoAlias), Asking(small, scout, 10, NoAlias),
     Asking(small, worker, 5, worker)}

MCMeasured == {12}

-----------------------------------------------------------------------------
(* The keys plan.max_size, plan.max.size, plan.max, and a secret one.       *)

Setup == INSTANCE Settings

Joined == <<<<"plan">>, <<"max", "size">>>>
Split == <<<<"plan">>, <<"max">>, <<"size">>>>
Table == <<<<"plan">>, <<"max">>>>
Token == <<<<"hub">>, <<"token">>>>

Layer(keys, value) == [key \in keys |-> value]
\* What a document can hold: no leaf is below another.
Shapes == {{}, {Joined}, {Split}, {Joined, Split}, {Table}, {Token}}
Envs == {<< >>, [name \in {<<"plan", "max", "size">>} |-> "env"], [name \in {<<"other">>} |-> "env"]}
Sources ==
    {[defaults |-> Layer(d, "default"), home |-> Layer(h, "home"), project |-> Layer(p, "project"),
      env |-> env, flags |-> Layer(f, "flag")] :
        d \in Shapes, h \in Shapes, p \in Shapes, env \in Envs, f \in {{}, {Split}}}

Rank == [default |-> 1, home |-> 2, project |-> 3, env |-> 4, flag |-> 5]

\* The value of a key is that of the last layer that sets it, and says so; a secret
\* comes from no file (resolve, load_file_layer).
ASSUME LastLayerDecides ==
    \A sources \in Sources :
        LET config == Setup!Resolve(sources)
            files == {"home", "project"}
        IN  /\ (config.error = "secret") = (\E file \in files : Token \in DOMAIN sources[file])
            /\ \A key \in DOMAIN config.values :
                  LET found == config.values[key]
                  IN  /\ found.value = found.source
                      /\ \A layer \in {"defaults", "home", "project", "flags"} :
                            key \in DOMAIN sources[layer] =>
                                Rank[sources[layer][key]] <= Rank[found.source]

\* A variable sets one key only: of two known keys that differ by a dot and an
\* underscore, the second cannot be set from the environment (apply_env).
ASSUME VariableReachesOneKey ==
    \A sources \in {s \in Sources : s.env # << >> /\ s.flags = << >>} :
        LET config == Setup!Resolve(sources)
        IN  config.error = "none" =>
                /\ Cardinality({key \in DOMAIN config.values : config.values[key].source = "env"}) = 1
                /\ Joined \in DOMAIN config.values /\ <<"other">> \notin DOMAIN sources.env =>
                      (config.values[Joined].source = "env" <=>
                          \A layer \in {"defaults", "home", "project"} : Split \notin DOMAIN sources[layer])

\* A section lists each key with its value, unless a layer makes a leaf of the table
\* above it: then even a flag is lost, a shape value.rs:69 says cannot come up.
ASSUME LeafHidesTheTable ==
    /\ \A sources \in Sources :
          LET values == Setup!Resolve(sources).values
              section == Setup!UnflattenSection(values, <<<<"plan">>>>)
          IN  \A key \in DOMAIN values \ {Token} :
                  (~(key = Split /\ Table \in DOMAIN values) /\ Head(key) = <<"plan">>)
                      => section[Tail(key)] = values[key].value
    /\ \E sources \in Sources :
          LET values == Setup!Resolve(sources).values
          IN  /\ Split \in DOMAIN values /\ values[Split].source = "flag"
              /\ Tail(Split) \notin DOMAIN Setup!UnflattenSection(values, <<<<"plan">>>>)

\* What config set writes is what is read next, unless a later layer has the key; no
\* other key of the file changes but those below it, and one a variable reaches when
\* they are gone (write_value, write_dotted; the command line of this program sets none).
ASSUME SetIsReadBack ==
    \A sources \in {s \in Sources : s.flags = << >>} : \A key \in {Joined, Split, Table} :
        LET written == Setup!WriteValue(sources, key, "new")
            before == Setup!Resolve(sources)
            after == Setup!Resolve([sources EXCEPT !.home = written.home])
        IN  /\ written.error = "unknown" => key \notin DOMAIN before.values
            /\ written.error = "none" =>
                /\ after.error = "none"
                /\ IF Rank[before.values[key].source] <= 2
                   THEN after.values[key] = [value |-> "new", source |-> "home"]
                   ELSE after.values[key] = before.values[key]
                /\ \A k \in DOMAIN sources.home \ {key} :
                      IsPrefix(key, k) \/ after.values[k] \in {before.values[k], [value |-> "env", source |-> "env"]}

-----------------------------------------------------------------------------
(* Models and their profiles.                                              *)

Models ==
    {<<"Qwen3", "-", size>> : size \in {"0.6B", "1.7B", "4B", "8B", "14B", "32B"}}
    \union {<<"Qwen3", "-", "Coder", "-", "30B", "-", "A3B">>, <<"Qwen3.5", "-", "35B">>, <<"other">>}

\* No model fits two of the built-in profiles, so their order says nothing; a person's
\* profile comes before all of them, and an empty alternative takes every model.
ASSUME PersonsProfileIsFirst ==
    /\ \A id \in Models :
          Cardinality({k \in DOMAIN Setup!Builtin : Setup!PatternMatches(Setup!Builtin[k].match, id)})
              = IF id = <<"other">> THEN 0 ELSE 1
    /\ \A id \in Models : \A pattern \in {<<<<"8B">>>>, <<<<"other">>, << >>>>, <<<<"*">>>>} :
          LET table == Setup!FromToml(<<[match |-> pattern, charts |-> TRUE]>>, "roles", Setup!Builtin)
          IN  /\ (pattern # <<<<"8B">>>> \/ "8B" \in ToSet(id)) => Setup!AuthorizeCharting(table, id) = "granted"
              /\ (pattern = <<<<"8B">>>> /\ "8B" \notin ToSet(id)) =>
                    Setup!AuthorizeCharting(table, id) = Setup!AuthorizeCharting(Setup!Builtin, id)

\* What the program itself asks for is never refused as greedy thinking (sampling.rs).
ASSUME OwnSamplingIsAccepted ==
    /\ \A role \in DOMAIN Setup!MicroRoles :
          Setup!GuardAgainstGreedyThinking(Setup!MicroRoles[role], Setup!MicroRoles[role].think # "off")
    /\ \A quant \in {"q2", "iq3", "q4"} : \A thinking \in BOOLEAN :
          Setup!GuardAgainstGreedyThinking(Setup!ForModel(quant, thinking), thinking)

-----------------------------------------------------------------------------
(* The context of a turn.                                                  *)

Beginnings == [system : {"p", "q"}, agents : {"p", "q"}, environment : {"p", "q"},
             digest : {"none", "p", "q"}, ticket : {"none", "p", "q"}]

\* A prefix that is not the one before is noticed, and what comes before the first part
\* named is as it was; the notice may also name a change that is none (changed_since).
ASSUME ChangedPrefixIsNoticed ==
    /\ \A one, other \in Beginnings :
          LET before == Setup!AssemblePrefix(one)
              after == Setup!AssemblePrefix(other)
              changed == Setup!ChangedSince(other, one)
          IN  /\ before # after => changed # << >>
              /\ changed # << >> =>
                    LET first == CHOOSE k \in 1..5 : Setup!PrefixParts[k] = Head(changed)
                        kept == Min({first - 1, Len(before), Len(after)}
                                    \union IF one.digest = "none" /\ first = 5 THEN {3} ELSE {})
                    IN  SubSeq(before, 1, kept) = SubSeq(after, 1, kept)
    /\ \E one, other \in Beginnings :
          Setup!AssemblePrefix(one) = Setup!AssemblePrefix(other) /\ Setup!ChangedSince(one, other) # << >>

\* The chunks kept fit and none that is dropped would; a large one is passed over for a
\* less relevant one, where tail.rs:140 says the back alone is dropped.
ASSUME LargeChunkIsPassedOver ==
    /\ \A chunks \in SeqOf(1..3, 4) : \A budget \in 0..5 :
          LET cut == Setup!EvictChunks(chunks, budget)
          IN  /\ cut.tokens = FoldLeft(LAMBDA n, c : n + c, 0, cut.kept) /\ cut.tokens <= budget
              /\ \A k \in DOMAIN cut.evicted : cut.tokens + cut.evicted[k] > budget
              /\ Len(cut.kept) + Len(cut.evicted) = Len(chunks)
    /\ \E chunks \in SeqOf(1..3, 3) : \E budget \in 0..5 :
          ~IsPrefix(Setup!EvictChunks(chunks, budget).kept, chunks)

Kinds == {"user", "call", "result"}
Histories == SeqOf([pinned : BOOLEAN, kind : Kinds], 5)
Summary == [pinned |-> FALSE, kind |-> "summary"]
Folded(history) == Setup!ApplySummary(history, Setup!SelectFoldRange(history), Summary)
Pinned(history) == SelectSeq(history, LAMBDA message : message.pinned)

\* Folding keeps what is pinned and the newest two thirds of the rest in their order; of
\* three to five messages it folds one, so that the history stays as long and is folded
\* again (select_fold_range, apply_summary).
ASSUME FoldOfOneSavesNothing ==
    \A history \in {h \in Histories : Setup!SelectFoldRange(h) # {}} :
        LET loose(h) == SelectSeq(h, LAMBDA message : ~message.pinned)
            folded == Folded(history)
        IN  /\ Pinned(folded) = Pinned(history)
            /\ loose(folded) = <<Summary>> \o Tail(loose(history))
            /\ Len(folded) = Len(history) /\ Setup!SelectFoldRange(folded) # {}

\* A summary of more than one stands before whatever stood between them: the first
\* message that is not pinned gives way to it.
ASSUME SummaryStandsFirst ==
    \A history \in {h \in SeqOf([pinned : BOOLEAN, kind : {"user"}], 8) : Setup!SelectFoldRange(h) # {}} :
        LET first == Min({k \in DOMAIN history : ~history[k].pinned})
        IN  /\ SubSeq(Folded(history), 1, first) = Append(SubSeq(history, 1, first - 1), Summary)
            /\ Len(Folded(history)) = Len(history) + 1 - Cardinality(Setup!SelectFoldRange(history))

\* A result may be left without the call it answers.
ASSUME FoldParts ==
    \E history \in Histories :
        /\ \A k \in DOMAIN history : history[k].kind = "result" => k > 1 /\ history[k - 1].kind = "call"
        /\ \E k \in DOMAIN Folded(history) : Folded(history)[k].kind = "result" /\ Folded(history)[k - 1] = Summary

\* A context is folded while a quarter of it is free, whatever it was granted.
ASSUME QuarterIsKeptFree ==
    \A granted \in 1..64 : \A used \in 0..granted :
        Setup!ShouldCompact(used, granted) <=> 4 * used > 3 * granted - 4

-----------------------------------------------------------------------------
(* Preparing a machine: two quantisations, each at two revisions.           *)

Ready == INSTANCE Preparation WITH Quants <- <<"q4k", "q8_0">>, ProgressInterval <- 5

Pulls == [format : {"uqff", "gguf"}, quant : {"q4k", "q8_0"}, rev : {1, 2}]
Pulled(dir, request) == LET dirs == Ready!Pull(dir, request) IN dirs[Len(dirs)]
Stops(dir, request) == LET dirs == Ready!Pull(dir, request) IN {dirs[k] : k \in 1..(Len(dirs) - 1)}
Fresh(request) == Pulled(<< >>, request)
Uqff == {p \in Pulls : p.format = "uqff"}

\* A first pull that stops anywhere installs nothing; one that ends can be verified, and
\* every file a load of UQFF needs is there (pull, installed, install).
ASSUME HalfPullIsSkipped ==
    \A request \in Pulls :
        /\ \A dir \in Stops(<< >>, request) : ~Ready!Installed(dir)
        /\ Ready!Installed(Fresh(request)) /\ Ready!Verify(Fresh(request))
        /\ request \in Uqff => Ready!Install(Fresh(request)) # {}

\* A pull over an installed model writes its files in place under the old manifest: it may
\* stop with a model that is still listed, and chosen, and whose weights are torn
\* (harness.rs:93 "keeps a broken download from being chosen to serve a turn").
ASSUME RepullCanTear ==
    \A request \in Uqff :
        LET old == Fresh(request)
            torn == {dir \in Stops(old, [request EXCEPT !.rev = 3 - request.rev]) :
                        Ready!Installed(dir) /\ Ready!Install(dir) = {}}
        IN  /\ Cardinality(torn) = 4 /\ \A dir \in torn : ~Ready!Verify(dir)
            \* Of the revision it had: what is verified is the primary file alone.
            /\ \E dir \in Stops(old, request) :
                  Ready!Installed(dir) /\ Ready!Verify(dir) /\ Ready!Install(dir) = {}

\* With two quantisations of a model in its directory the one first by name is loaded and
\* verified, whichever was pulled last; pulling again, which is what is advised, does not
\* mend it (spec_for, primary_hash; models.rs:126 "so this picks the same file").
ASSUME FirstByNameIsLoaded ==
    \A one, other \in Uqff :
        LET both == Pulled(Fresh(one), other)
        IN  /\ Ready!Install(both) = {Ready!Primary("uqff", IF "q4k" \in {one.quant, other.quant} THEN "q4k" ELSE "q8_0")}
            /\ Ready!Verify(both) <=> (one.quant = other.quant \/ other.quant = "q4k")
            /\ Ready!Verify(Pulled(both, other)) = Ready!Verify(both)

\* And the size of the model is that of both: what is estimated of a load, and which tools
\* it is given, counts weights that are not loaded (weight_bytes_in).
ASSUME EveryShardIsWeighed ==
    \A one, other \in {p \in Pulls : p.quant = "q4k" \/ p.format = "uqff"} :
        LET files == {Ready!Primary(one.format, one.quant), Ready!Primary(other.format, other.quant)}
            dir == Pulled(Fresh(one), other)
            size == [file \in DOMAIN dir |-> IF file = Ready!Residual THEN 1 ELSE 10]
        IN  Ready!WeightBytesIn(dir, size) =
                10 * Cardinality(files) + IF "uqff" \in {one.format, other.format} THEN 1 ELSE 0

\* A GGUF pull leaves a model that is listed and verified and cannot be loaded, and the
\* remedy, the same pull, changes nothing; only files of another format's pull do
\* (pull_files; shape.rs:14 "every one of the three supported formats ships beside its weights").
ASSUME GgufAloneCannotLoad ==
    \A request \in {p \in Pulls : p.format = "gguf"} :
        /\ Ready!Install(Fresh(request)) = {} /\ Pulled(Fresh(request), request) = Fresh(request)
        /\ \A first \in Uqff : Ready!Install(Pulled(Fresh(first), request)) = {Ready!Primary("gguf", request.quant)}

\* No flag asks for the weights in full precision (parse_quant_flag, pull).
ASSUME NoFlagPullsInSitu ==
    \A prefix \in {"uqff", "gguf", "hf", "none"} :
        Ready!ParseQuantFlag([prefix |-> prefix, rest |-> "q4k"]).format # "hf"

\* Two repositories can share a directory (model_dir).
ASSUME RepositoriesCanCollide ==
    Ready!ModelDir(<<"a", "/", "b", "_", "_", "c">>) = Ready!ModelDir(<<"a", "_", "_", "b", "/", "c">>)

\* A model is the one asked for or the only one, and never one of several (choose).
ASSUME ChoiceIsNamedOrAlone ==
    \A there \in SUBSET {"a", "b", "c"} : \A preferred \in {"none", "a", "d"} :
        LET chosen == Ready!Choose(there, preferred)
        IN  /\ chosen \subseteq there /\ Cardinality(chosen) <= 1
            /\ chosen = {} <=> (there = {} \/ (preferred # "none" /\ preferred \notin there)
                                 \/ (preferred = "none" /\ Cardinality(there) > 1))

\* The weights of a model are estimated at what its files weigh, whatever quantisation it
\* is said to have; the number of its parameters is not (params_from_weight_bytes).
ASSUME EstimateIsTheFiles ==
    \A bytes \in 1..300 : \A bits \in {2, 3, 4, 5, 6, 8, 16, 32} :
        LET params == Ready!ParamsFromWeightBytes(bytes, bits)
        IN  /\ Ready!WeightsBytes(params, bits) <= bytes
            /\ bytes - Ready!WeightsBytes(params, bits) <= bits \div 8
            /\ bits = 4 => params = 4 * Ready!ParamsFromWeightBytes(bytes, 16) + (bytes % 2) * 2

-----------------------------------------------------------------------------
(* Downloads, the doctor and the tuner.                                    *)

Arrivals == SeqOf([bytes : {1, 3}, gap : {2, 3, 7}], 4)
Total(arrivals) == FoldLeft(LAMBDA n, a : n + a.bytes, 0, arrivals)

\* Reports never go back, begin with nothing and end with all; they are an interval and
\* up to one arrival's gap apart, so slower than twice a second (download.rs:116, and
\* "at least every PROGRESS_INTERVAL while bytes arrive", 77).
ASSUME ReportsWaitForBytes ==
    /\ \A arrivals \in Arrivals : \A total \in {0, Total(arrivals)} :
          LET reports == Ready!DrainToFile(arrivals, total)
              longest == Max({a.gap : a \in ToSet(arrivals)} \union {0})
          IN  /\ reports[1].progress = 0 /\ Last(reports).progress = 100
              /\ \A k \in 1..(Len(reports) - 1) :
                    /\ reports[k].progress <= reports[k + 1].progress
                    /\ reports[k + 1].at - reports[k].at < 5 + longest
                    /\ k + 1 < Len(reports) => reports[k + 1].at - reports[k].at >= 5
    /\ \E arrivals \in {a \in Arrivals : \A k \in DOMAIN a : a[k].gap < 5} :
          LET reports == Ready!DrainToFile(arrivals, 0)
          IN  \E k \in 1..(Len(reports) - 1) : reports[k + 1].at - reports[k].at > 5

\* Once the first file of a pull is all there, the others are shown when they end only.
ASSUME LaterFilesAreSilent ==
    \A one, other \in {a \in Arrivals : Len(a) \in 1..2} :
        LET reports(arrivals) == Ready!DrainToFile(arrivals, Total(arrivals))
            lines(all) == Ready!Printed(all)
        IN  \A k \in (Len(lines(reports(one))) + 1)..Len(lines(reports(one) \o reports(other))) :
                lines(reports(one) \o reports(other))[k] = 100

Hosts ==
    [variant : {"cpu", "cuda", "metal"}, accelerator : {"none", "cuda"}, available : {1, 16},
     models : SUBSET {"good", "bad"}, packs : SUBSET {"fresh", "stale", "unreadable"},
     chain : {"clean", "long", "unread"}, grammars : {TRUE}, git : BOOLEAN,
     term : {"unset", "dumb", "xterm"}, tty : BOOLEAN]

Prepared ==
    [variant |-> "cpu", accelerator |-> "none", available |-> 16, models |-> {"good"}, packs |-> {"fresh"},
     chain |-> "clean", grammars |-> TRUE, git |-> TRUE, term |-> "xterm", tty |-> TRUE]

\* No machine is ever ready: the live generation that cannot run is in the way of the one
\* that has everything, and it alone (PRD.md:2785 "prints OFFLINE READY on a prepared
\* machine").  Nor does a setup end without an error.
ASSUME NeverOfflineReady ==
    /\ \A host \in Hosts : Ready!OfflineBlocked(Ready!Report(host)) /\ ~Ready!AllDone(Ready!RunSteps(host))
    /\ LET report == Ready!Report(Prepared)
       IN  {k \in DOMAIN report : report[k].status # "ok" /\ report[k].network} = {4} /\ ~Ready!HasFailures(report)

\* What is only warned of is never in the way, though a stale pack and the wrong artefact
\* are mended from the network too (doctor.rs:715-717); and a plain doctor has no
\* complaint of a machine with no model at all.
ASSUME WarningsNeverBlock ==
    /\ \A host \in Hosts :
          LET report == Ready!Report(host)
          IN  \A k \in DOMAIN report : report[k].status = "warn" => ~report[k].network
    /\ \A worse \in {[Prepared EXCEPT !.packs = {"stale"}], [Prepared EXCEPT !.variant = "cuda"]} :
          LET report == Ready!Report(worse)
          IN  {k \in DOMAIN report : report[k].status # "ok" /\ report[k].network} = {4}
    /\ ~Ready!HasFailures(Ready!Report([Prepared EXCEPT !.models = {}, !.packs = {}]))

\* A machine with more memory is recommended no less; its roles share a model by its total
\* and its class goes by what is free, so one machine may be of several (recommend).
ASSUME MoreIsRecommendedMore ==
    LET size == [m \in {"4B", "8B", "14B", "32B"} |-> SelectInSeq(<<"4B", "8B", "14B", "32B">>, LAMBDA s : s = m)]
        rec(device, budget) == Ready!Recommend(device, 32, budget).profile
    IN  /\ \A small1, large1 \in 1..40 : small1 <= large1 =>
              /\ size[rec("cuda", small1).model] <= size[rec("cuda", large1).model]
              /\ rec("cuda", small1).context <= rec("cuda", large1).context
              /\ rec("cpu", small1) = rec("cpu", large1)
        /\ Cardinality({rec("cuda", b) : b \in 1..29}) = 4

\* The context recommended is not always one that fits: where the 8B and the 32B begin, it
\* is cut (classify, estimate.rs 183-210).
ASSUME RecommendedMayNotFit ==
    LET needed == [k \in {"8B", "14B", "32B"} |->
            Ready!WithHeadroom(CASE k = "8B" -> 3910 + Ready!KvCacheMiB(36, 32)
                                 [] k = "14B" -> 7057 + Ready!KvCacheMiB(40, 32)
                                 [] k = "32B" -> 15640 + Ready!KvCacheMiB(64, 32))]
        fits(b) == needed[Ready!Recommend("cuda", 64, b).profile.model] <= 1024 * b
    IN  {b \in 8..64 : ~fits(b)} = {8, 9, 24, 25}

\* Two tenths are kept free where each formula speaks of one: a model is loaded only if it
\* takes less than nine elevenths of what is free (memory.rs, with_headroom).
ASSUME HeadroomIsKeptTwice ==
    \A available \in 100..300 : \A bytes \in 1..300 :
        LET fits == Ready!WithHeadroom(bytes) <= Ready!BudgetBytes(available)
        IN  /\ fits => 11 * bytes <= 9 * available + 20
            /\ 11 * bytes <= 9 * available - 1 => fits

\* A request that requires a tool goes out as one that may use one, and a model whose
\* calls are scraped is told of no tool whatever is asked (build).
ASSUME RequiredIsOptional ==
    \A tools \in SUBSET {"a", "b"} : \A native, deterministic \in BOOLEAN : \A think \in {"on", "off", "auto"} :
        LET req(choice) == [tools |-> tools, choice |-> choice, deterministic |-> deterministic,
                            top_k |-> 40, think |-> think]
        IN  /\ Ready!Build(req("required"), native) = Ready!Build(req("auto"), native)
            /\ \A choice \in {"none", "a"} : Ready!Build(req(choice), FALSE) = Ready!Build(req("auto"), FALSE)
            /\ Ready!Build(req("a"), native).choice = "invalid" <=> (native /\ tools = {"b"})

\* A reranking orders every document once, by score and then as given; one whose answer
\* does not show the token counts as nothing (embed/mod.rs:97; rerank.rs:50 "never as zero").
ASSUME UnobservedIsNothing ==
    LET Answers == {[token |-> "yes", prob |-> p, others |-> << >>] : p \in {0, 7}}
                   \union {[token |-> "no", prob |-> 9, others |-> o] : o \in {<< >>, "yes" :> 3}}
    IN  \A answers \in SeqOf(Answers, 3) :
            LET order == Ready!Rerank(answers)
                scores == Ready!Scores(answers)
            IN  /\ Len(order) = Len(answers) /\ ToSet(order) = DOMAIN answers
                /\ \A i, j \in DOMAIN order : i < j =>
                      scores[order[i]] > scores[order[j]] \/ (scores[order[i]] = scores[order[j]] /\ order[i] < order[j])
                /\ \A k \in DOMAIN answers :
                      scores[k] = 0 <=> \/ answers[k].token = "yes" /\ answers[k].prob = 0
                                        \/ answers[k].token = "no" /\ answers[k].others = << >>
=============================================================================
