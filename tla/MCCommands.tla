------------------------------ MODULE MCCommands ------------------------------
(* The instance of Commands for TLC, and what its run evaluates on the way:     *)
(* facts about the survey of a repository.                                      *)
EXTENDS Commands, SequencesExt, FiniteSetsExt, TLC

(* How a repository becomes a report, over small repositories.              *)

Seen == INSTANCE Survey WITH
    NulScanWindow <- 2, MaxFileSize <- 3, VendorDirs <- {<<"vendor">>},
    Languages <- [rs |-> "rust", py |-> "python", md |-> "markdown"],
    Dashed <- [one_two |-> "one-two", util |-> "util"]

Rs(stem) == <<stem, "rs">>
Under(dir, name) == <<<<dir>>, name>>
FirstFile == <<Rs("a")>>
OtherFile == <<Rs("b")>>
ByName == <<FirstFile, OtherFile, <<<<"vendor">>, Rs("a")>>>>
Contents == {{}} \union {{b} : b \in {<<1>>, <<2>>, <<0>>, <<1, 1>>, <<1, 1, 0>>, <<1, 1, 1, 1>>}}
Walked(size) == {[path |-> FirstFile, kind |-> "file", size |-> size[FirstFile], ignored |-> FALSE],
                 [path |-> OtherFile, kind |-> "file", size |-> size[OtherFile], ignored |-> FALSE],
                 [path |-> <<<<"vendor">>, Rs("a")>>, kind |-> "file", size |-> 1, ignored |-> FALSE]}
Disk(a, b) == (FirstFile :> a) @@ (OtherFile :> b) @@ (<<<<"vendor">>, Rs("a")>> :> {<<1>>})

\* A file edited between the walk and the read fails the survey when it is another
\* size now, and else goes unnoticed; one that is gone or binary is passed over; and
\* what succeeds is named for what was read (discover, read_and_hash).
ASSUME OnlySizeIsWatched ==
    \A sizes \in [{FirstFile, OtherFile} -> 1..4], a, b \in Contents :
        LET now == Disk(a, b)
            seen == Seen!Discover(Walked(sizes), now, ByName)
            kept == {p \in {FirstFile, OtherFile} :
                        sizes[p] <= 3 /\ \E read \in now[p] : 0 \notin ToSet(SubSeq(read, 1, Min({2, Len(read)})))}
        IN  /\ seen.dirty = (\E p \in kept : \E read \in now[p] : Len(read) # sizes[p])
            /\ ~seen.dirty => /\ {seen.files[k].path : k \in DOMAIN seen.files} = kept
                              /\ \A k \in DOMAIN seen.files : now[seen.files[k].path] = {seen.files[k].blob}
                              /\ Len(seen.files) = 2 => seen.files[1].path = FirstFile

\* The source that is parsed is read again after the tree is named: a report is of its
\* tree only if nothing moved between, and a file that went then fails it
\* (parse_snapshot, parse_one).
ReadAs(path, blob) == [kind |-> "file", path |-> path, blob |-> blob]
ASSUME SourceIsReadAgain ==
    \A later \in {{}, {<<1>>}, {<<2>>}} :
        LET files == <<ReadAs(FirstFile, <<1>>), ReadAs(<<<<"x">>>>, <<2>>)>>
            got == Seen!ParseSnapshot(Seen!EmptyCache, files, (FirstFile :> later) @@ (<<<<"x">>>> :> {}))
        IN  /\ got.failed = (later = {})
            /\ ~got.failed => /\ Len(got.files) = 1
                              /\ (got.files[1].source = got.files[1].blob) = (later = {<<1>>})
                              /\ got.cache.tree = {Seen!TreeSha(files)}

\* What a cache remembers of a content it gives to every file with that content: a warm
\* parse is the cold one only while no content sits at two paths or moved from one to
\* another (Cache, parse_snapshot).
Some(n) == SeqOf({ReadAs(p, b) : p \in {FirstFile, OtherFile, <<<<"x">>>>}, b \in {<<1>>, <<2>>}}, n)
ASSUME WarmCacheKeepsOldPaths ==
    \A old, new \in {f \in Some(2) : \A i, j \in DOMAIN f : i < j => f[i].path # f[j].path} :
        LET As(files) == [p \in {files[k].path : k \in DOMAIN files} |->
                             {f.blob : f \in {f \in ToSet(files) : f.path = p}}]
            first == Seen!ParseSnapshot(Seen!EmptyCache, old, As(old))
            cold == Seen!ParseSnapshot(Seen!EmptyCache, new, As(new))
            warm == Seen!ParseSnapshot(first.cache, new, As(new))
            known == first.cache.known
        IN  /\ ~cold.failed /\ ~warm.failed
            /\ (warm.files = cold.files) =
                   (\A k \in DOMAIN new : new[k].blob \in DOMAIN known =>
                       known[new[k].blob].path = new[k].path)
            /\ \A i, j \in DOMAIN old :
                  (i <= j /\ old[i].blob = old[j].blob /\ Seen!LanguageOf(old[j].path) # {}) =>
                      known[old[i].blob].path \in {old[k].path : k \in j..Len(old)}

\* One definition is kept a node, at the place of the first, and it is a method when
\* any of them is; no name a definition declares is counted as a reference to it; and
\* a name means the nearest scope's definition (dedup_defs_by_node, partition_tags,
\* build_refs).
Tags == {[node |-> n, name |-> n, kind |-> k] : n \in 1..2, k \in {"function", "method", "reference"}}
ASSUME EveryNodeIsCountedOnce ==
    \A tags \in SeqOf(Tags, 5) :
        LET parts == Seen!PartitionTags(tags)
            kept == Seen!DedupDefsByNode(parts.defs)
            here(n) == {k \in DOMAIN tags : tags[k].node = n /\ tags[k].kind # "reference"}
        IN  /\ \A n \in 1..2 :
                  Cardinality({k \in DOMAIN kept : kept[k].node = n}) = IF here(n) = {} THEN 0 ELSE 1
            /\ \A k \in DOMAIN kept :
                  (kept[k].kind = "method") = (\E i \in here(kept[k].node) : tags[i].kind = "method")
            /\ \A i, j \in DOMAIN kept : i < j => Min(here(kept[i].node)) < Min(here(kept[j].node))
            /\ {r.name : r \in ToSet(parts.refs)} \intersect {d.name : d \in ToSet(kept)} = {}
ASSUME NearestScopeIsMeant ==
    \A defs \in SeqOf({[name |-> n, scope |-> s] : n \in {"f", "g"}, s \in 1..3}, 3) :
        LET found == Seen!InScope(<<3, 2, 1>>, defs, "f")
            named == {d \in DOMAIN defs : defs[d].name = "f"}
        IN  /\ (found = {}) = (named = {})
            /\ \A d \in found : \A o \in named : <<defs[o].scope, d>> = <<defs[d].scope, d>>
                                                     \/ defs[o].scope < defs[d].scope
            /\ \A d \in found : \A o \in named : defs[o].scope = defs[d].scope => d <= o

\* An import leads to a file of the repository or nowhere, never above the root; the
\* name as written is taken first, then an extension, then an index
\* (join_normalized, resolve_relative).
Steps2 == {<<".">>, <<"..">>, <<"a">>, <<"b">>}
Tree == {<<<<"a">>, <<"b">>>>, <<<<"a">>, Rs("b")>>, <<Rs("b")>>, <<<<"a">>, <<"a">>, <<"index", "rs">>>>}
ASSUME ImportsStayInside ==
    \A raw \in SeqOf(Steps2, 4) : \A all \in SUBSET Tree :
        LET found == Seen!ResolveRelative(<<<<"a">>, Rs("c")>>, raw, <<"rs">>, <<<<"index", "rs">>>>, all)
            depth(k) == 1 + Cardinality({i \in 1..k : raw[i] \in {<<"a">>, <<"b">>}})
                          - Cardinality({i \in 1..k : raw[i] = <<"..">>})
        IN  /\ found \subseteq all /\ Cardinality(found) <= 1
            /\ (\E k \in DOMAIN raw : depth(k) < 0) => found = {}
            /\ (raw = <<<<"b">>>> /\ Cardinality(all) = 4) => found = {<<<<"a">>, <<"b">>>>}
            /\ (raw = <<<<".">>, <<"b">>>> /\ <<<<"a">>, <<"b">>>> \notin all) =>
                   found = {<<<<"a">>, Rs("b")>>} \intersect all

\* A package's "from ." leads to a module beside the package before the package itself;
\* a name that ends two files' paths leads to neither; and a crate in a directory
\* with an underscore, or under another name than its directory's, is never found,
\* while a foreign crate is looked for in a directory of its name
\* (resolve_relative_module, resolve_unique_suffix, workspace_crate_dir).
Toml(dir) == Append(dir, <<"Cargo", "toml">>)
Source(dir, name) == dir \o <<<<"src">>, name>>
ASSUME SomeImportsMiss ==
    LET inPkg == <<<<"pkg">>, <<"a", "py">>>>
        init == <<<<"pkg">>, <<"__init__", "py">>>>
        beside == <<<<"pkg", "py">>>>
        mine == <<<<"mine">>>>
        from == Source(mine, Rs("main"))
        Found(dir, segments) ==
            Seen!ResolveRustPath(from, segments, {Toml(mine), from, Toml(dir), Source(dir, Rs("lib")),
                                                  Source(dir, Rs("x"))})
    IN  /\ Seen!ResolvePythonModule(inPkg, 1, << >>, {inPkg, init}) = {init}
        /\ Seen!ResolvePythonModule(inPkg, 1, << >>, {inPkg, init, beside}) = {beside}
        /\ Seen!ResolvePythonModule(inPkg, 3, << >>, {inPkg, init}) = {}
        /\ Seen!ResolvePythonModule(inPkg, 0, <<<<"m">>>>, {<<<<"m", "py">>>>}) = {<<<<"m", "py">>>>}
        /\ Seen!ResolvePythonModule(inPkg, 0, <<<<"m">>>>, {<<<<"m", "py">>>>, <<<<"q">>, <<"m", "py">>>>}) = {}
        /\ Found(<<<<"one-two">>>>, <<"one_two", "x", "y">>) = {Source(<<<<"one-two">>>>, Rs("x"))}
        /\ Found(<<<<"one-two">>>>, <<"one_two", "z">>) = {Source(<<<<"one-two">>>>, Rs("lib"))}
        /\ Found(<<<<"one_two">>>>, <<"one_two", "x">>) = {}
        /\ Found(<<<<"util">>>>, <<"util", "x">>) = {Source(<<<<"util">>>>, Rs("x"))}
        /\ Found(mine, <<"crate", "main", "run">>) = {from}
        /\ Found(mine, <<"crate">>) = {}
        /\ Seen!NearestAncestorWith(from, <<"Cargo", "toml">>, {Toml(<< >>), Toml(mine)}) = {mine}

\* Whatever was analysed, torn or edited before: a refresh answers with this tree and
\* mends its report; without one, a report torn by a crash fails its own tree's every
\* command, and as the newest every other tree's that has no report of its own; and a
\* report is given out though it is of another tree (produce_report, cached_report,
\* newest_report).
Sessions == SeqOf({"analyse", "crash", "edit", "revert"}, 5)
AfterStep(now, what) ==
    CASE what = "analyse" -> LET got == Seen!ProduceReport(now.reports, now.tree, FALSE, now.at)
                             IN  [now EXCEPT !.at = @ + 1, !.reports = got.reports]
      [] what = "crash" -> [now EXCEPT !.at = @ + 1,
                                       !.reports = Seen!WriteReport(@, now.tree, now.at, TRUE)]
      [] what = "edit" -> [now EXCEPT !.tree = @ + 1]
      [] what = "revert" -> [now EXCEPT !.tree = 0]
ReportsAfter(session) == FoldLeft(AfterStep, [at |-> 1, tree |-> 0, reports |-> << >>], session)
ASSUME RefreshMendsAReport ==
    \A session \in Sessions :
        LET now == ReportsAfter(session)
            plain == Seen!ProduceReport(now.reports, now.tree, FALSE, now.at).answer
            fresh == Seen!ProduceReport(now.reports, now.tree, TRUE, now.at)
            torn == now.tree \in DOMAIN now.reports /\ ~now.reports[now.tree].whole
        IN  /\ fresh.answer.kind = "report" /\ fresh.answer.tree = now.tree
            /\ Seen!CachedReport(fresh.reports, now.tree) = {fresh.answer}
            /\ (plain.kind = "unreadable") = torn
            /\ plain.kind = "report" => plain.tree = now.tree
ASSUME TornReportBlocksOthers ==
    LET now == ReportsAfter(<<"analyse", "edit", "crash", "edit">>)
    IN  /\ now.reports[0].whole
        /\ Seen!CachedReport(now.reports, now.tree) = {[kind |-> "unreadable"]}
        /\ Seen!CachedReport(now.reports, 0) = {[kind |-> "report", tree |-> 0]}
ASSUME OldReportIsGivenOut ==
    \A session \in Sessions :
        LET now == ReportsAfter(session)
            given == Seen!CachedReport(now.reports, now.tree)
        IN  ({[kind |-> "none"]} = given) = (DOMAIN now.reports = {})

\* Underscores around a name do not change what it is; one capital is taken for
\* SCREAMING_SNAKE_CASE; and what has a dash is kebab-case, capitals or not (casing_of).
Letters == {"u", "l", "9", "_", "-"}
ASSUME OneCapitalScreams ==
    /\ \A name \in SeqOf(Letters, 4) : Seen!CasingOf(name) = Seen!CasingOf(<<"_">> \o name \o <<"_">>)
    /\ Seen!CasingOf(<<"u">>) = "screaming" /\ Seen!CasingOf(<<"u", "9">>) = "screaming"
    /\ Seen!CasingOf(<<"u", "l", "-", "u">>) = "kebab" /\ Seen!CasingOf(<<"u", "_", "l">>) = "snake"

\* A convention is one casing, its followers no fewer than another's; names of one word
\* are nobody's, and one in three of them leaves it unstated (convention, render).
Casings == {"snake", "camel", "flat", "other"}
ASSUME OneWordIsNobodys ==
    \A casings \in SeqOf(Casings, 6) :
        LET found == Seen!ConventionOf(casings)
            n(c) == Cardinality({k \in DOMAIN casings : casings[k] = c})
        IN  /\ (found = {}) = (Len(casings) < 3 \/ n("snake") + n("camel") = 0)
            /\ \A c \in found : c.agreeing = Max({n("snake"), n("camel")})
                                    /\ (c.casing = "camel") = (n("camel") > n("snake"))
            /\ 4 * (n("flat") + n("other") + Min({n("snake"), n("camel")}))
                  > Max({n("snake"), n("camel")}) => Seen!Stated(casings) = {}
            /\ Seen!ConventionOf(casings) = Seen!ConventionOf(Reverse(casings))

\* Tests in a directory under the tests' own count as beside the code, and more than two
\* in three must agree on either for the layout not to be mixed (test_layout).
ASSUME NestedTestsAreAlongside ==
    LET deep == {<<<<"tests">>, <<"unit">>, Rs(s)>> : s \in {"a", "b"}}
        flat == {<<<<"tests">>, Rs(s)>> : s \in {"a", "b", "c"}}
        beside == {<<<<"src">>, <<s, "_test", "go">>>> : s \in {"a", "b"}}
    IN  /\ Seen!TestLayout(deep) = "alongside" /\ Seen!TestLayout(flat) = "separate"
        /\ \A ds \in SUBSET deep, fs \in SUBSET flat, bs \in SUBSET beside :
              LET all == ds \union bs
                  layout == Seen!TestLayout(all \union fs \union {<<<<"src">>, Rs("z")>>})
              IN  /\ (layout = "none") = (all \union fs = {})
                  /\ (layout = "separate") = (Cardinality(fs) > 2 * Cardinality(all))
                  /\ (layout = "alongside") = (Cardinality(all) > 2 * Cardinality(fs))

\* Lines two levels deep vote for their own width, tabs that tie with spaces lose, and a
\* file's indentation is never in doubt once one line is indented by eight or fewer
\* (measure_source, decide_indent).
ASSUME DeepLinesVoteToo ==
    /\ Seen!MeasureIndent(<<4, 8, 8, 4, 8>>) = <<8>>
    /\ Seen!MeasureIndent(<<4, 4, 8, 8>>) = <<4>>
    /\ Seen!MeasureIndent(<<-1, -1, 2, 4>>) = <<2>>
    /\ \A leading \in SeqOf({-1, 0, 2, 4, 12}, 5) :
          LET unit == Seen!MeasureIndent(leading)
          IN  /\ (unit = "none") = (ToSet(leading) \subseteq {0, 12})
              /\ Seen!MeasureIndent(Reverse(leading)) = unit
ASSUME PercentileIsAValue ==
    \A values \in SeqOf(0..3, 5) : \A share \in {50, 95} :
        LET found == Seen!Percentile(values, share)
        IN  values # << >> =>
               /\ found \in ToSet(values)
               /\ 2 * Cardinality({k \in DOMAIN values : values[k] <= found}) >= Len(values)
               /\ (share = 95 /\ Len(values) < 10) => found = Max(ToSet(values))

\* A module nobody depends on, added, may unmake the one everything depends on; and of
\* two such the last by path is named (god_module, suggest).
Mod(ca) == [ca |-> ca, a |-> 0, i |-> 0]
ASSUME AnotherModuleUnmakesIt ==
    /\ \E modules \in SeqOf({Mod(0), Mod(1), Mod(2)}, 4) :
          LET report == [files |-> 30, modularity |-> 50, modules |-> modules]
          IN  /\ Seen!Suggest(report) = "layered or hexagonal"
              /\ Seen!Suggest([report EXCEPT !.modules = Append(@, Mod(0))]) = "service split"
    /\ Seen!GodModule(<<Mod(2), Mod(2), Mod(0)>>) = {2}
    /\ Seen!GodModule(<<Mod(2), Mod(0), Mod(0), Mod(0), Mod(0)>>) = {}
    /\ Seen!LeadingTerm(<<3, 3, 0, 3, 0>>) = 4

\* A table of one's own hides the whole built in one, down to a language it says
\* nothing of (DocTable::load, for_target).
Entry(lang, patterns) == [language |-> lang, patterns |-> patterns]
ASSUME OwnTableHidesTheBuiltin ==
    LET builtin == <<Entry("rust", {"service split"}), Entry("go", {"event-driven"})>>
    IN  /\ Seen!ForTarget({}, builtin, "go", "event-driven") = <<builtin[2]>>
        /\ Seen!ForTarget({<<Entry("rust", {})>>}, builtin, "go", "event-driven") = << >>
        /\ Seen!ForTarget({<<Entry("rust", {})>>}, builtin, "rust", "layered") = <<Entry("rust", {})>>
        /\ Seen!ResolveTarget({"cobol"}, {"rust"}) = {} /\ Seen!ResolveTarget({}, {"rust"}) = {"rust"}

\* The notes are a file of the tree they are about: each run of dark extend outdates the
\* report it read, until the third changes nothing.  A profile that is of the report
\* handed out is called current, though the tree has moved on; and one that was not
\* written, because the command stopped, leaves the old one (run_command, is_current).
Explored(repo, reports) == Seen!ProduceReport(reports, repo.tree, FALSE, 1 + Cardinality(DOMAIN reports)).reports
Fresh == [tree |-> [files |-> 3, notes |-> {}], profile |-> {}]
RoundOf(stops, now) ==
    LET reports == Explored(now.repo, now.reports)
    IN  [repo |-> CHOOSE r \in Seen!Extend(now.repo, reports, stops) : TRUE, reports |-> reports]
ASSUME NotesSettleInThree ==
    LET one == RoundOf(FALSE, [repo |-> Fresh, reports |-> << >>])
        two == RoundOf(FALSE, one)
        three == RoundOf(FALSE, two)
        stopped == RoundOf(TRUE, one)
        Current(now) == \E a \in Seen!CachedReport(now.reports, now.repo.tree) :
                            Seen!ProfileIsCurrent(now.repo.profile, a)
    IN  /\ one.repo.tree # Fresh.tree /\ two.repo.tree # one.repo.tree
        /\ three.repo.tree = two.repo.tree /\ three.repo.profile = {three.repo.tree}
        /\ Current(one) /\ one.repo.profile # {one.repo.tree}
        /\ stopped.repo.tree = two.repo.tree /\ stopped.repo.profile = one.repo.profile
        /\ ~Current(stopped)
        /\ Seen!Extend(Fresh, << >>, FALSE) = {Fresh}
        /\ Seen!BuildLanguages({FirstFile, OtherFile, <<<<"AGENTS", "md">>>>}) = [rust |-> 2, markdown |-> 1]

-----------------------------------------------------------------------------
(* What the tools compute, over small texts, paths, files and patches.      *)

Box == INSTANCE Toolbox WITH
    OutputCap <- 5, HeadNumerator <- 2, HeadDenominator <- 5, MaxLines <- 2,
    HardMaxMatches <- 2, CollectCeiling <- 4, MaxMatches <- 2, CandidateCount <- 2,
    SmallCap <- 2, MidCap <- 3

Quoted(word) == <<"'">> \o word \o <<"'">>
Escaped(word) == FlattenSeq([k \in DOMAIN word |-> <<"\\", word[k]>>])
Spaced(words, As(_)) == FlattenSeq([k \in DOMAIN words |-> As(words[k]) \o <<" ">>])

\* Words that are quoted, or escaped character by character, come back as they were,
\* whatever they hold (split).
ASSUME WordsComeBack ==
    \A words \in SeqOf(SeqOf({"a", " ", "\\", "\"", "'"}, 2), 2) :
        /\ (\A k \in DOMAIN words : words[k] # << >>) => Box!Split(Spaced(words, Escaped)) = {words}
        /\ (\A k \in DOMAIN words : "'" \notin ToSet(words[k])) =>
               Box!Split(Spaced(words, Quoted)) = {words}
        /\ Box!Split(<<"\"", "\\", "a", "\\", "\"", "'", "\"">>) = {<<<<"\\", "a", "\"", "'">>>>}

\* A command that is not blank always names a program, so the refusal for one without is
\* never given; but the name may be empty (ExecArgs::parse, invoke).
Lines4 == SeqOf({"a", " ", "\\", "\"", "'"}, 4)
Asked(command, shell, cwd) == [command |-> command, timeout |-> 1, shell |-> shell, cwd |-> cwd]
ASSUME SomeProgramIsNamed ==
    /\ \A line \in Lines4 : Box!Trimmed(line) # << >> => << >> \notin Box!Split(Box!Trimmed(line))
    /\ Box!Invoke(Asked(<<"'", "'", " ", "a">>, FALSE, << >>), <<"/", "r">>, FALSE)
           = {[argv |-> <<<< >>, <<"a">>>>, cwd |-> <<"/", "r">>]}
    /\ \A line \in Lines4 : Box!Invoke(Asked(line, TRUE, << >>), <<"/", "r">>, FALSE) = {}

\* A command runs at the root or below, in a directory without dots; and a path that
\* climbs past the top is refused, though it would lead back inside (resolve_cwd).
ASSUME CommandsStayBelow ==
    \A cwd \in SeqOf({"..", ".", "a", "r", "/"}, 4) :
        \A dir \in Box!ResolveCwd(<<"/", "r">>, cwd) :
            IsPrefix(<<"/", "r">>, dir) /\ {"..", "."} \intersect ToSet(dir) = {}
ASSUME ClimbIsRefused ==
    /\ Box!ResolveCwd(<<"/", "r">>, <<"..", "r", "a">>) = {<<"/", "r", "a">>}
    /\ Box!ResolveCwd(<<"/", "r">>, <<"..", "..", "r", "a">>) = {}

\* What is kept of an output is its beginning and its end, in full when it fits
\* (cap_output).
ASSUME CutKeepsBothEnds ==
    \A n \in 0..8 :
        LET text == [k \in 1..n |-> k]
            cut == Box!CapOutput(text)
        IN  /\ IsPrefix(cut.head, text) /\ IsSuffix(cut.tail, text)
            /\ Len(cut.head) + cut.elided + Len(cut.tail) = n
            /\ Len(cut.head) + Len(cut.tail) = Min({n, 5})

\* A path the file tools accept leads inside when all of it exists, and theirs is the
\* narrower rule: a path grep takes to a file they take there too or refuse
\* (path::resolve, GrepTool::invoke).
Trees == {<<"r">>, <<"r", "a">>, <<"r", "a", "b">>, <<"o">>, <<"o", "b">>, << >>}
LinkedTo(target) == <<"r", "l">> :> target
ASSUME AcceptedLeadsInside ==
    \A target \in Trees, requested \in SeqOf({"a", "b", "l", ".", "..", "/"}, 3) :
        LET links == LinkedTo(target)
            meant == Box!ResolvePath(<<"r">>, requested, Trees, links)
        IN  /\ \A p \in meant : \A q \in Box!Canonicalize(p, Trees, links) : Head(q) = "r"
            /\ \A p \in meant : Box!Canonicalize(p, Trees, links)
                                   = Box!SearchTarget(<<"r">>, requested, Trees, links)
ASSUME GrepTakesMorePaths ==
    LET links == LinkedTo(<<"r", "a">>)
    IN  /\ Box!SearchTarget(<<"r">>, <<"/", "r", "a">>, Trees, links) = {<<"r", "a">>}
        /\ Box!SearchTarget(<<"r">>, <<"a", "..", "l", "b">>, Trees, links) = {<<"r", "a", "b">>}
        /\ \A asked \in {<<"/", "r", "a">>, <<"a", "..", "l", "b">>} :
               Box!ResolvePath(<<"r">>, asked, Trees, links) = {}

\* Asked on where each page says to, a file is read whole and once (read_file).
ASSUME PagesCoverTheFile ==
    \A n \in 0..6, limit \in 0..3 :
        LET file == [k \in 1..n |-> k]
            Page(at) == Box!ReadPage(file, at, limit)
            From[at \in 0..n] == Page(at).page \o
                IF Page(at).next = {} THEN << >> ELSE From[CHOOSE next \in Page(at).next : TRUE]
        IN  From[0] = file

-----------------------------------------------------------------------------
(* Patches, written the way git writes them.                               *)

Signed(kind, texts) == [k \in DOMAIN texts |-> [kind |-> kind, text |-> texts[k]]]
BareMark == [kind |-> "bare", text |-> ""]
MarkIf(here) == IF here THEN <<BareMark>> ELSE << >>
Titles == <<[kind |-> "---", text |-> "f"], [kind |-> "+++", text |-> "f"]>>
At(start, olds, news) == [kind |-> "@@", text |-> "", start |-> start, olds |-> olds, news |-> news]
Without(file) == file.content # << >> /\ ~file.newline

\* The hunk for the old lines from i to j, which become texts; the file ends there if
\* last is said.
HunkFor(was, now, i, j, texts) ==
    LET last == j = Len(was.content)
    IN  <<At(IF j < i THEN i - 1 ELSE i, j - i + 1, Len(texts))>>
        \o Signed("-", SubSeq(was.content, i, j)) \o MarkIf(last /\ i <= j /\ Without(was))
        \o Signed("+", texts) \o MarkIf(last /\ texts # << >> /\ Without(now))
Patch(hunks) == Titles \o hunks
FirstFileOf(patch) == UNION {IF files = << >> THEN {} ELSE {Head(files)} : files \in Box!Parse(patch)}
Applied(patch, was) == UNION {Box!ApplyHunks(file, was) : file \in FirstFileOf(patch)}
Texts3 == {Box!Text(c, n) : c \in SeqOf({"", "x", "y"}, 3), n \in BOOLEAN}

\* A patch that replaces a whole file makes the new one of the old, unless one empty line
\* is all there is to be: that is lost (parse, apply_hunks).
ASSUME WholePatchesApply ==
    \A was, now \in Texts3 :
        Applied(Patch(HunkFor(was, now, 1, Len(was.content), now.content)), was)
            = {IF now.content = <<"">> THEN Box!Text(<< >>, TRUE) ELSE now}

\* The same where the empty line was there and all others go (apply_hunks).
ASSUME OneEmptyLineIsLost ==
    /\ Applied(Patch(<<At(2, 1, 0)>> \o Signed("-", <<"x">>)), Box!Text(<<"", "x">>, TRUE))
           = {Box!Text(<< >>, TRUE)}
    /\ Applied(Patch(<<At(0, 0, 1)>> \o Signed("+", <<"">>)), Box!Text(<< >>, TRUE))
           = {Box!Text(<< >>, TRUE)}

\* A change of one line applies to a file that ends in a newline; to one that does not,
\* only as the last line: a hunk that ends before has no way to say so (apply_hunks).
Replaced(was, k, text) == [was EXCEPT !.content[k] = text]
ASSUME BareFilesTakeTheLastHunkOnly ==
    \A was \in {Box!Text(c, n) : c \in {<<"x">>, <<"x", "y">>, <<"y", "x", "y">>}, n \in BOOLEAN} :
        \A k \in DOMAIN was.content :
            LET now == Replaced(was, k, "z")
            IN  Applied(Patch(HunkFor(was, now, k, k, <<"z">>)), was)
                    = IF was.newline \/ k = Len(was.content) THEN {now} ELSE {}

\* Lines put in between land where the hunk says, and hunks that overlap or come in the
\* wrong order are refused, whatever they would change (apply_hunks).
ASSUME HunksComeInOrder ==
    LET was == Box!Text(<<"x", "y", "x">>, TRUE)
        Change(k) == <<At(k, 1, 1)>> \o Signed("-", <<was.content[k]>>) \o Signed("+", <<"z">>)
    IN  /\ \A k \in 0..3 :
               Applied(Patch(HunkFor(was, was, k + 1, k, <<"z">>)), was)
                   = {Box!Text(InsertAt(was.content, k + 1, "z"), TRUE)}
        /\ \A i, j \in 1..3 :
               Applied(Patch(Change(i) \o Change(j)), was)
                   = IF i < j THEN {Replaced(Replaced(was, i, "z"), j, "z")} ELSE {}

\* A hunk that says fewer lines than it has loses the others without a word, and with
\* them every later hunk of its file; one that says more is refused (parse).
ASSUME MiscountLosesLaterHunks ==
    LET was == Box!Text(<<"x", "x", "x", "x">>, TRUE)
        Second == <<At(4, 1, 1)>> \o Signed("-", <<"x">>) \o Signed("+", <<"z">>)
        First(n) == <<At(1, n, n)>> \o Signed("-", <<"x", "x">>) \o Signed("+", <<"y", "y">>)
    IN  /\ Applied(Patch(First(2) \o Second), was) = {Box!Text(<<"y", "y", "x", "z">>, TRUE)}
        /\ Applied(Patch(<<At(1, 1, 0)>> \o Signed("-", <<"x">>) \o Signed("+", <<"y">>) \o Second), was)
               = {Box!Text(<<"x", "x", "x">>, TRUE)}
        /\ Box!Parse(Patch(First(3) \o Second)) = {}
        /\ Box!Parse(Patch(First(3))) = {}

\* Lines before the first header and between files are passed over, a removed line that
\* looks like a header is a removed line; but a line of the message that looks like one
\* is taken for one (parse).
Prose(text) == [kind |-> "text", text |-> text]
ASSUME ProseIsPassedOver ==
    LET one == HunkFor(Box!Text(<<"x">>, TRUE), Box!Text(<<"y">>, TRUE), 1, 1, <<"y">>)
        header == <<At(1, 1, 0), [kind |-> "---", text |-> "x", raw |-> "-- x"]>>
    IN  /\ Box!Parse(<<Prose("a")>> \o Patch(one) \o <<Prose("b")>> \o Patch(one))
               = {<<h, h>> : h \in FirstFileOf(Patch(one))}
        /\ Applied(Patch(header), Box!Text(<<"-- x">>, TRUE)) = {Box!Text(<< >>, TRUE)}
        /\ Box!Parse(<<[kind |-> "---", text |-> "rule"], Prose("a")>> \o Patch(one)) = {}

\* A blank line stands for an empty line of context at the end of a hunk and nowhere
\* else (parse).
ASSUME BlankIsContextAtTheEnd ==
    \A after \in 0..2 :
        LET blank == [kind |-> "blank", text |-> ""]
            was == Box!Text(<<"x", "">> \o [k \in 1..after |-> "x"], TRUE)
            body == Signed(" ", <<"x">>) \o <<blank>> \o Signed(" ", [k \in 1..after |-> "x"])
        IN  Applied(Patch(<<At(1, 2 + after, 2 + after)>> \o body), was) = IF after = 0 THEN {was} ELSE {}

-----------------------------------------------------------------------------
(* Edits, lists and the tools offered.                                      *)

\* What is replaced once was there once, counting from the left: two places that
\* overlap count as one, and the first is taken (edit_file).
ASSUME OverlapsCountOnce ==
    /\ \A text \in SeqOf({"a", "b"}, 5), old \in SeqOf({"a", "b"}, 2) :
           LET places == {k \in DOMAIN text : IsPrefix(old, SubSeq(text, k, Len(text)))}
           IN  (old # << >> /\ Cardinality(places) = 1) =>
                   Box!EditOnce(text, old, <<"c">>)
                       = {ReplaceFirstSubSeq(<<"c">>, old, text)}
    /\ Box!EditOnce(<<"b", "a", "a", "a">>, <<"a", "a">>, <<"c">>) = {<<"b", "c", "a">>}

\* The nearest place is named first and no two overlap; and as many are
\* named as were asked for (nearest_candidates).
ASSUME NearestComesFirst ==
    \A score \in [1..4 -> 0..2], window \in 1..2 :
        LET picked == Box!NearestCandidates(score, window)
        IN  /\ \A k \in 1..4 : score[k] <= score[picked[1]]
            /\ \A i, j \in DOMAIN picked : i < j =>
                   /\ score[picked[j]] <= score[picked[i]]
                   /\ picked[i] - picked[j] \notin 1 - window..window - 1
            /\ Len(picked) = 2

\* One directory that cannot be read fails glob, though every match is found elsewhere;
\* what list_dir shows, glob and grep may not find (glob, list_dir).
Listed(name, ignored, readable) ==
    [path |-> <<name>>, kind |-> "file", ignored |-> ignored, hidden |-> FALSE, readable |-> readable]
ByPath == <<<<"a">>, <<"b">>>>
ASSUME OneBadEntryFailsGlob ==
    \A ignored, readable \in BOOLEAN :
        LET entries == {Listed("a", FALSE, TRUE), Listed("b", ignored, readable)}
            found == Box!Glob(entries, ToSet(ByPath), ByPath)
        IN  /\ (found = {}) = (~ignored /\ ~readable)
            /\ Box!ListDir(entries, << >>, FALSE) = entries
            /\ found # {} => Len((CHOOSE f \in found : TRUE).paths) = IF ignored THEN 1 ELSE 2

\* Nothing is said to be left out when nothing is, except at the very number where
\* counting stops; and what is shown is the first of it, by file and line (grep).
ASSUME GrepCountsToItsCeiling ==
    \A a, b \in 0..4, asked \in {{}} \union {{m} : m \in 0..3} :
        LET matches == [f \in {"a", "b"} |-> [k \in 1..IF f = "a" THEN a ELSE b |-> k]]
            all == [k \in 1..a |-> <<"a", k>>] \o [k \in 1..b |-> <<"b", k>>]
            got == Box!Grep(<<"a", "b">>, matches, asked)
        IN  /\ IsPrefix(got.shown, all)
            /\ got.truncated = (got.shown # all)
            /\ got.more = (a + b >= 4)
            /\ all # << >> => got.shown # << >>
            /\ ~got.more => got.total = a + b
            /\ Len(got.shown) <= IF asked \in {{0}, {1}} THEN 1 ELSE 2

\* A smaller model is given the first of what a larger one is, never another tool; and a
\* tier asked for takes the calls of its row with it (resolve, apply_profile).
ASSUME SmallerSeesAPrefix ==
    \A tools \in SUBSET {[tier |-> t, rank |-> r] : t \in 1..3, r \in 1..2} :
        /\ \A less, more \in {1, 8, 32} :
               less <= more => IsPrefix(Box!Gated(tools, Box!Row(less, {})).tools,
                                        Box!Gated(tools, Box!Row(more, {})).tools)
        /\ \A size \in {1, 8, 32}, t \in 0..4 :
               Box!Gated(tools, Box!Row(size, {t})) = Box!Gated(tools, Max({1, Min({t, 3})}))
        /\ Box!Row(7, {}) = 1 /\ Box!Row(8, {}) = 2 /\ Box!Row(31, {}) = 2 /\ Box!Row(32, {}) = 3
=============================================================================
