-------------------------------- MODULE Survey --------------------------------
(***************************************************************************)
(* How a repository becomes a report, and what is read off the report:     *)
(* the walk, the parse cache, what a file's tags and imports become, the   *)
(* report on disk, the style of the code, and the notes of dark extend and *)
(* dark refactor.                                                          *)
(* Source: crates/dark-explore/src/{discover,syntax,extract,output,style}, *)
(* crates/dark-cli/src/{explore,extend,refactor,docsource}.rs.             *)
(*                                                                         *)
(* A path is a sequence of components and a component the sequence of its  *)
(* dotted parts: src/b.ts is <<<<"src">>, <<"b", "ts">>>>.  Bytes are a    *)
(* sequence of numbers.  A share is in hundredths.                         *)
(***************************************************************************)
EXTENDS Integers, SequencesExt, FiniteSetsExt, Functions

CONSTANTS
    NulScanWindow,  \* NUL_SCAN_WINDOW
    MaxFileSize,    \* DEFAULT_MAX_FILE_SIZE
    VendorDirs,     \* DEFAULT_VENDOR_DIRS, as components
    Languages,      \* extension |-> language
    Dashed          \* a crate's name |-> the name with dashes for underscores

-----------------------------------------------------------------------------
(* Discovery.  An entry of the walk has a path, a kind and a size, and may  *)
(* be ignored by a file that travels with the commit.                       *)

CollectCandidates(entries) ==
    {e \in entries : /\ e.kind = "file" /\ ~e.ignored /\ e.size <= MaxFileSize
                     /\ ToSet(e.path) \intersect (VendorDirs \union {<<"", "git">>}) = {}}

\* What a read finds: nothing when the file is gone or binary, trouble when it has
\* another size than the walk saw, and else the file.
ReadAndHash(entry, bytes) ==
    IF bytes = {} THEN {}
    ELSE LET read == CHOOSE b \in bytes : TRUE
         IN  IF \E k \in DOMAIN read : k <= NulScanWindow /\ read[k] = 0 THEN {}
             ELSE IF Len(read) # entry.size THEN {[kind |-> "dirty"]}
             ELSE {[kind |-> "file", path |-> entry.path, blob |-> read]}

\* The files in the order of their paths, or the trouble of any; disk[path] is a set of
\* at most one sequence of bytes, and order all paths.
Discover(entries, disk, order) ==
    LET found == [e \in CollectCandidates(entries) |-> ReadAndHash(e, disk[e.path])]
        dirty == \E e \in DOMAIN found : \E f \in found[e] : f.kind = "dirty"
    IN  [dirty |-> dirty,
         files |-> IF dirty THEN << >>
                   ELSE FlattenSeq([k \in DOMAIN order |->
                            SetToSeq({f \in UNION Range(found) : f.path = order[k]})])]

\* A tree is known by its files' paths and contents.
TreeSha(files) == [k \in DOMAIN files |-> <<files[k].path, files[k].blob>>]

LanguageOf(path) ==
    LET name == Last(path)
    IN  IF Len(name) > 1 /\ Last(name) \in DOMAIN Languages THEN {Languages[Last(name)]} ELSE {}

\* A file is read again to be parsed: a source need not be what was hashed.
ParseOne(file, disk) ==
    IF LanguageOf(file.path) = {} THEN {}
    ELSE {[path |-> file.path, blob |-> file.blob, source |-> s] : s \in disk[file.path]}

\* A cache is a tree and what is known of each content.  The files of the tree it was
\* made from are taken whole; of others, those whose content it knows; and where
\* several files have one content, the last is remembered.  Nothing parsed though the
\* language is known means the file could not be read.
EmptyCache == [tree |-> {}, known |-> << >>]
ParseSnapshot(cache, files, disk) ==
    LET whole == cache.tree = {TreeSha(files)}
        parsed == [k \in DOMAIN files |->
            IF files[k].blob \in DOMAIN cache.known THEN {cache.known[files[k].blob]}
            ELSE IF whole THEN {} ELSE ParseOne(files[k], disk)]
        failed == ~whole /\ \E k \in DOMAIN files :
                                parsed[k] = {} /\ LanguageOf(files[k].path) # {}
        kept == SelectSeq([k \in DOMAIN files |-> k], LAMBDA k : parsed[k] # {})
        Of(k) == CHOOSE p \in parsed[kept[k]] : TRUE
        got == [k \in DOMAIN kept |-> Of(k)]
        LastWith(blob) == Max({k \in DOMAIN kept : files[kept[k]].blob = blob})
    IN  IF failed THEN [failed |-> TRUE]
        ELSE [failed |-> FALSE, files |-> got,
              cache |-> IF whole THEN cache
                        ELSE [tree |-> {TreeSha(files)},
                              known |-> [blob \in {files[kept[k]].blob : k \in DOMAIN kept} |->
                                            got[LastWith(blob)]]]]

-----------------------------------------------------------------------------
(* A file's symbols.  A tag has a node, the node of its name and a kind.    *)

DefPriority(kind) == IF kind = "method" THEN 1 ELSE 0

\* One definition a node: a later one replaces an earlier only as a method.
DedupDefsByNode(candidates) ==
    FoldLeft(LAMBDA kept, c :
                 LET at == {k \in DOMAIN kept : kept[k].node = c.node}
                 IN  IF at = {} THEN Append(kept, c)
                     ELSE [k \in DOMAIN kept |->
                              IF k \in at /\ DefPriority(c.kind) > DefPriority(kept[k].kind)
                              THEN c ELSE kept[k]],
             << >>, candidates)

\* The name a definition declares is not a reference to it.
PartitionTags(tags) ==
    LET IsDef(t) == t.kind \notin {"reference", "import"}
        declared == {tags[k].name : k \in {i \in DOMAIN tags : IsDef(tags[i])}}
    IN  [defs |-> SelectSeq(tags, IsDef),
         refs |-> SelectSeq(tags, LAMBDA t : t.kind = "reference" /\ t.name \notin declared),
         imports |-> SelectSeq(tags, LAMBDA t : t.kind = "import")]

\* The definition a name finds: the first of that name in the nearest scope with one.
InScope(chain, defs, name) ==
    LET In(scope) == {d \in DOMAIN defs : defs[d].scope = scope /\ defs[d].name = name}
        holding == {k \in DOMAIN chain : In(chain[k]) # {}}
    IN  IF holding = {} THEN {} ELSE {Min(In(chain[Min(holding)]))}

-----------------------------------------------------------------------------
(* Where an import leads.                                                   *)

Dir(path) == SubSeq(path, 1, Len(path) - 1)
WithExtension(path, ext) ==
    IF path = << >> THEN <<<<"", ext>>>>
    ELSE Append(Front(path), Append(Last(path), ext))

\* Lexically; nothing above the root.
JoinNormalized(dir, raw) ==
    FoldLeft(LAMBDA at, part :
                 IF at = {} \/ part = <<".">> THEN at
                 ELSE LET p == CHOOSE p \in at : TRUE
                      IN  IF part # <<"..">> THEN {Append(p, part)}
                          ELSE IF p = << >> THEN {} ELSE {Front(p)},
             {dir}, raw)

FirstOf(candidates, all) ==
    LET there == SelectSeq(candidates, LAMBDA c : c \in all)
    IN  IF there = << >> THEN {} ELSE {Head(there)}

ResolveRelative(file, raw, extensions, indexNames, all) ==
    UNION {FirstOf(<<joined>> \o [k \in DOMAIN extensions |-> WithExtension(joined, extensions[k])]
                       \o [k \in DOMAIN indexNames |-> Append(joined, indexNames[k])], all)
           : joined \in JoinNormalized(Dir(file), raw)}

\* A path ends in the components, up to an extension or under an index; one file must.
ResolveUniqueSuffix(components, extensions, indexNames, all) ==
    LET Named(p) == \E e \in extensions : IsSuffix(WithExtension(components, e), p)
        Indexed(p) == \E name \in indexNames : IsSuffix(Append(components, name), p)
        found == {p \in all : Named(p) \/ Indexed(p)}
    IN  IF components # << >> /\ Cardinality(found) = 1 THEN found ELSE {}

NearestAncestorWith(file, marker, all) ==
    LET over == {n \in 0..Len(file) - 1 : Append(SubSeq(file, 1, n), marker) \in all}
    IN  IF over = {} THEN {} ELSE {SubSeq(file, 1, Max(over))}

\* A sibling of the file's own crate, or a directory at the root, by its name.
WorkspaceCrateDir(file, segment, all) ==
    LET toml == <<"Cargo", "toml">>
        name == <<Dashed[segment]>>
        near(own) == (IF own = << >> THEN << >> ELSE <<Append(Front(own), name)>>) \o <<<<name>>>>
        holding(own) == SelectSeq(near(own), LAMBDA dir : Append(dir, toml) \in all)
    IN  UNION {IF holding(own) = << >> THEN {} ELSE {Head(holding(own))}
               : own \in NearestAncestorWith(file, toml, all)}

\* The module a path names, or the one its last segment is an item of.
ResolveRustPath(file, segments, all) ==
    LET dirs == IF Head(segments) = "crate"
                THEN NearestAncestorWith(file, <<"Cargo", "toml">>, all)
                ELSE WorkspaceCrateDir(file, Head(segments), all)
        rest == [k \in 1..Len(segments) - 1 |-> <<segments[k + 1]>>]
        Module(dir, path) ==
            <<WithExtension(Append(dir, <<"src">>) \o path, "rs"),
              Append(dir, <<"src">>) \o path \o <<<<"mod", "rs">>>>>>
        Tried(dir) == Module(dir, rest)
            \o IF Len(rest) > 1 THEN Module(dir, Front(rest))
               ELSE <<dir \o <<<<"src">>, <<"lib", "rs">>>>>>
    IN  IF rest = << >> THEN {} ELSE UNION {FirstOf(Tried(dir), all) : dir \in dirs}

\* Python: the file a level of dots and a remainder name; else a unique suffix.
ResolvePythonModule(file, dots, remainder, all) ==
    IF dots = 0 THEN ResolveUniqueSuffix(remainder, {"py"}, {<<"__init__", "py">>}, all)
    ELSE IF dots > Len(file) THEN {}
    ELSE LET at == SubSeq(file, 1, Len(file) - dots) \o remainder
         IN  FirstOf(<<WithExtension(at, "py"), Append(at, <<"__init__", "py">>)>>, all)

-----------------------------------------------------------------------------
(* The report on disk: .dark/explore, a file a tree, written in place.      *)
(* reports is a function of trees to [whole, at, tree].                     *)

ReadReport(reports, sha) ==
    IF reports[sha].whole THEN [kind |-> "report", tree |-> reports[sha].tree]
    ELSE [kind |-> "unreadable"]

\* The newest of equals is whichever the directory gives first.
NewestReport(reports) ==
    IF DOMAIN reports = {} THEN {[kind |-> "none"]}
    ELSE LET newest == Max({reports[s].at : s \in DOMAIN reports})
         IN  {ReadReport(reports, s) : s \in {s \in DOMAIN reports : reports[s].at = newest}}

\* For the commands that must not analyse: this tree's report, else the newest.
CachedReport(reports, sha) ==
    IF sha \in DOMAIN reports THEN {ReadReport(reports, sha)} ELSE NewestReport(reports)

\* A crash may leave the file torn; the lock beside it is read by nothing.
WriteReport(reports, sha, at, torn) ==
    (sha :> [whole |-> ~torn, at |-> at, tree |-> sha]) @@ reports

ProduceReport(reports, sha, refresh, at) ==
    IF ~refresh /\ sha \in DOMAIN reports
    THEN [reports |-> reports, answer |-> ReadReport(reports, sha)]
    ELSE [reports |-> WriteReport(reports, sha, at, FALSE),
          answer |-> [kind |-> "report", tree |-> sha]]

\* By files, most first, then by name.
BuildLanguages(paths) ==
    LET Count(lang) == Cardinality({p \in paths : lang \in LanguageOf(p)})
    IN  [lang \in UNION {LanguageOf(p) : p \in paths} |-> Count(lang)]

\* Of the terms that contribute most to a seam's score, the last.
LeadingTerm(contributions) ==
    LET most == {k \in DOMAIN contributions :
                    \A o \in DOMAIN contributions : contributions[o] <= contributions[k]}
    IN  Max(most)

-----------------------------------------------------------------------------
(* Style.  A name is a sequence of "u", "l" (letters), "9", "_", "-", "$".  *)

CasingOf(name) ==
    LET inside == {k \in DOMAIN name : name[k] # "_"}
        core == IF inside = {} THEN << >> ELSE SubSeq(name, Min(inside), Max(inside))
        has(c) == c \in ToSet(core)
    IN  IF core = << >> \/ ~(Head(core) \in {"u", "l"}) \/ has("$") THEN "other"
        ELSE IF has("-") THEN "kebab"
        ELSE IF has("_") THEN (IF has("l") THEN "snake" ELSE "screaming")
        ELSE IF ~has("l") THEN "screaming"
        ELSE IF Head(core) = "u" THEN "pascal"
        ELSE IF has("u") THEN "camel" ELSE "flat"

\* The commonest casing of a kind of definition, of at least MIN_FOR_CONVENTION; of
\* equals, the first in the order of the type.
CasingOrder == <<"snake", "camel", "pascal", "screaming", "kebab">>
ConventionOf(casings) ==
    LET count(c) == Cardinality({k \in DOMAIN casings : casings[k] = c})
        used == {i \in DOMAIN CasingOrder : count(CasingOrder[i]) > 0}
        best == {i \in used : \A o \in used : count(CasingOrder[o]) <= count(CasingOrder[i])}
    IN  IF Len(casings) < 3 \/ used = {} THEN {}
        ELSE {[casing |-> CasingOrder[Min(best)], agreeing |-> count(CasingOrder[Min(best)]),
               total |-> Len(casings)]}

\* dark extend states a convention four in five follow.
Stated(casings) == {c \in ConventionOf(casings) : 100 * c.agreeing >= 80 * c.total}

\* The _test that ends a stem is a part of its own.
TestDirs == {<<"tests">>, <<"test">>, <<"__tests__">>, <<"spec">>}
IsTestPath(path) ==
    \E k \in DOMAIN path :
        \/ path[k] \in TestDirs
        \/ \E i \in 2..Len(path[k]) - 1 : path[k][i] \in {"test", "spec", "_test", "_spec"}
TestLayout(paths) ==
    LET tests == {p \in paths : IsTestPath(p)}
        separate == Cardinality({p \in tests : Len(p) > 1 /\ p[Len(p) - 1] \in TestDirs})
        alongside == Cardinality(tests) - separate
    IN  IF tests = {} THEN "none"
        ELSE IF separate > 2 * alongside THEN "separate"
        ELSE IF alongside > 2 * separate THEN "alongside" ELSE "mixed"

\* The commonest run of one to eight leading spaces, of equals the narrowest; tabs
\* when more lines begin with one.  widths[w] counts the lines indented by w.
DecideIndent(tabs, widths) ==
    LET all == MapThenSumSet(LAMBDA w : widths[w], DOMAIN widths)
        used == {w \in DOMAIN widths : widths[w] > 0}
    IN  IF tabs = 0 /\ all = 0 THEN "none"
        ELSE IF tabs > all THEN "tab"
        ELSE <<Min({w \in used : \A o \in used : widths[o] <= widths[w]})>>
MeasureIndent(leading) ==
    LET spaces == SelectSeq(leading, LAMBDA n : n \in 1..8)
    IN  DecideIndent(Len(SelectSeq(leading, LAMBDA n : n = -1)),
                     [w \in ToSet(spaces) |-> Len(SelectSeq(spaces, LAMBDA n : n = w))])

\* The value at (n - 1) * share, rounded, in order.
Percentile(values, share) ==
    IF values = << >> THEN 0
    ELSE LET ordered == SortSeq(values, LAMBDA x, y : x < y)
         IN  ordered[1 + (((Len(values) - 1) * share + 50) \div 100)]

-----------------------------------------------------------------------------
(* Notes.                                                                  *)

\* A module that more than four in ten of at least three depend on; of equals the last.
GodModule(modules) ==
    LET over == {k \in DOMAIN modules : 10 * modules[k].ca > 4 * Len(modules)}
        most == {k \in over : \A o \in over : modules[o].ca <= modules[k].ca}
    IN  IF Len(modules) < 3 \/ over = {} THEN {} ELSE {Max(most)}

\* The first rule that fires.  Shares are in hundredths.
Suggest(report) ==
    IF report.files < 25 THEN "keep the monolith"
    ELSE IF GodModule(report.modules) # {} THEN "layered or hexagonal"
    ELSE IF report.modularity > 40 THEN "service split"
    ELSE IF Cardinality({k \in DOMAIN report.modules :
                report.modules[k].a > 50 /\ report.modules[k].i > 70}) >= 2
    THEN "plugin architecture"
    ELSE "event-driven"

\* The target a person names, or the repository's own language; or no target.
ResolveTarget(requested, current) ==
    IF requested = {} THEN current ELSE requested \intersect Range(Languages)

\* A table of one's own replaces the built in one; an entry without patterns suits all.
ForTarget(own, builtin, language, pattern) ==
    SelectSeq(IF own = {} THEN builtin ELSE CHOOSE t \in own : TRUE,
              LAMBDA e : e.language = language /\ (e.patterns = {} \/ pattern \in e.patterns))

\* dark extend writes the notes into AGENTS.md, a file of the tree, and then the
\* profile, which names the tree the notes were read from.  It may stop between.
Extend(repo, reports, stops) ==
    LET answers == CachedReport(reports, repo.tree)
        Notes(tree) == [files |-> tree.files, from |-> "notes"]
        After(a) ==
            LET noted == [repo EXCEPT !.tree.files = IF repo.tree.notes = {} THEN @ + 1 ELSE @,
                                      !.tree.notes = {Notes(a.tree)}]
            IN  IF stops THEN noted ELSE [noted EXCEPT !.profile = {a.tree}]
    IN  {IF a.kind = "report" THEN After(a) ELSE repo : a \in answers}
ProfileIsCurrent(profile, report) == \E tree \in profile : report.kind = "report" /\ tree = report.tree
=============================================================================
