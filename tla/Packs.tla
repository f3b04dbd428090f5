--------------------------------- MODULE Packs ---------------------------------
(***************************************************************************)
(* Documentation packs, the files: the directory of a pack and the hash    *)
(* that seals it, the commands that write it, how old it may be, how it is  *)
(* found by name, and what may be fetched to make one.                      *)
(* Source: crates/dark-lexicon/src/{cli.rs,pack,tools,ingest}.              *)
(*                                                                         *)
(* A directory is a function from the names of its files to what they hold, *)
(* the hash of one is the rest of it: the hash is taken to be collision     *)
(* free.  A name is a sequence of letters.                                  *)
(***************************************************************************)
EXTENDS Integers, SequencesExt, FiniteSetsExt

CONSTANTS
    MinInterval,    \* between two requests to a host
    MaxCandidates   \* how many packs a name is answered with

-----------------------------------------------------------------------------
(* The directory and its seal.                                             *)

Put(dir, name, content) ==
    [n \in DOMAIN dir \union {name} |-> IF n = name THEN content ELSE dir[n]]

\* Everything but the seal itself.
ComputeDir(dir) == [n \in DOMAIN dir \ {"hash"} |-> dir[n]]

WriteHash(dir) == Put(dir, "hash", ComputeDir(dir))

Verify(dir) ==
    IF "hash" \notin DOMAIN dir THEN "PackNotFound"
    ELSE IF dir["hash"] = ComputeDir(dir) THEN "ok" ELSE "ToolFailed"

Bm25Of(chunks) == [of |-> chunks]
DenseOf(chunks, model) == [of |-> chunks, model |-> model]

\* The writes of a command, in their order; the last is computed from what is there.
AddWrites(pack) ==
    <<[name |-> "chunks", content |-> pack.chunks],
      [name |-> "bm25", content |-> Bm25Of(pack.chunks)],
      [name |-> "dense", content |-> DenseOf(pack.chunks, pack.model)],
      [name |-> "graph", content |-> << >>],
      [name |-> "licence", content |-> pack.licence],
      [name |-> "manifest", content |-> [id |-> pack.id, count |-> Len(pack.chunks), model |-> pack.model]]>>

ReindexWrites(dir, model) ==
    <<[name |-> "bm25", content |-> Bm25Of(dir["chunks"])],
      [name |-> "dense", content |-> DenseOf(dir["chunks"], model)],
      [name |-> "manifest", content |-> [dir["manifest"] EXCEPT !.model = model]]>>

\* The first n of the writes are done, and the seal after the last.
After(dir, writes, n) ==
    LET done == FoldLeft(LAMBDA d, w : Put(d, w.name, w.content), dir, SubSeq(writes, 1, Min({n, Len(writes)})))
    IN  IF n > Len(writes) THEN WriteHash(done) ELSE done

\* What reindex needs, the manifest only once the indexes are written.
MayReindex(dir) == "chunks" \in DOMAIN dir /\ "manifest" \in DOMAIN dir

\* Sealed first, whatever it holds, then archived.
Export(dir) == WriteHash(dir)

\* The steps of an import: the staging directory emptied, filled and checked, the pack of that
\* name removed, and the staging directory put in its place.
ImportSteps(packs, archive) ==
    LET cleared == [p \in DOMAIN packs \ {".importing"} |-> packs[p]]
        held == IF ".importing" \in DOMAIN cleared THEN cleared[".importing"] ELSE << >>
        unpacked == [n \in DOMAIN held \union DOMAIN archive |-> IF n \in DOMAIN archive THEN archive[n] ELSE held[n]]
        staged == Put(cleared, ".importing", unpacked)
        id == archive["manifest"].id
        removed == [p \in DOMAIN staged \ {id} |-> staged[p]]
        moved == [p \in (DOMAIN removed \ {".importing"}) \union {id} |-> IF p = id THEN unpacked ELSE removed[p]]
    IN  IF Verify(unpacked) # "ok" \/ "manifest" \notin DOMAIN archive THEN <<packs, cleared, staged>>
        ELSE <<packs, cleared, staged, removed, moved>>

\* A directory without a manifest that parses is passed over.
List(packs) == {packs[p]["manifest"].id : p \in {q \in DOMAIN packs : "manifest" \in DOMAIN packs[q]}}

\* Each pack in turn, by the name in its manifest; the first that fails ends the command.
ReindexAll(packs, order, model) ==
    FoldLeft(LAMBDA s, id :
                 IF s.failed THEN s
                 ELSE IF id \notin DOMAIN s.packs \/ ~MayReindex(s.packs[id]) THEN [s EXCEPT !.failed = TRUE]
                 ELSE [s EXCEPT !.packs[id] = After(@, ReindexWrites(@, model), 4)],
             [packs |-> packs, failed |-> FALSE], order)

\* Vectors are searched when the pack was made by the model that embeds the question.
UsesVectors(dir, current) ==
    "dense" \in DOMAIN dir /\ dir["dense"].of # << >> /\ dir["manifest"].model = current

-----------------------------------------------------------------------------
(* Age.                                                                    *)

\* Division towards zero.
TruncDiv(a, b) == IF a >= 0 THEN a \div b ELSE -((-a) \div b)

DaysFromCivil(year, month, day) ==
    LET y == IF month <= 2 THEN year - 1 ELSE year
        era == TruncDiv(IF y >= 0 THEN y ELSE y - 399, 400)
        yoe == y - era * 400
        doy == (153 * ((month + 9) % 12) + 2) \div 5 + day - 1
        doe == yoe * 365 + yoe \div 4 - yoe \div 100 + doy
    IN  era * 146097 + doe - 719468

CivilFromDays(days) ==
    LET z == days + 719468
        era == TruncDiv(IF z >= 0 THEN z ELSE z - 146096, 146097)
        doe == z - era * 146097
        yoe == (doe - doe \div 1460 + doe \div 36524 - doe \div 146096) \div 365
        doy == doe - (365 * yoe + yoe \div 4 - yoe \div 100)
        mp == (5 * doy + 2) \div 153
        month == IF mp < 10 THEN mp + 3 ELSE mp - 9
        year == yoe + era * 400
    IN  [year |-> IF month <= 2 THEN year + 1 ELSE year, month |-> month,
         day |-> doy - (153 * mp + 2) \div 5 + 1]

\* A clock set back makes a pack new.
Evaluate(ingested, today, policy) ==
    LET age == Max({0, today - ingested}) IN [age |-> age, stale |-> age > policy]

-----------------------------------------------------------------------------
(* Names.                                                                  *)

\* One row of the table for each letter of the first name.
Levenshtein(one, other) ==
    LET Row(previous, k) ==
            LET row[j \in 0..Len(other)] ==
                    IF j = 0 THEN k
                    ELSE Min({previous[j] + 1, row[j - 1] + 1,
                              previous[j - 1] + (IF one[k] = other[j] THEN 0 ELSE 1)})
            IN  row
    IN  FoldLeftDomain(Row, [j \in 0..Len(other) |-> j], one)[Len(other)]

HoldsName(long, short) ==
    \E k \in 0..(Len(long) - Len(short)) : SubSeq(long, k + 1, k + Len(short)) = short

\* In thousandths; 0 for a pack that is not answered.
Confidence(query, pack) ==
    LET short == Min({Len(query), Len(pack.name)})
        long == Max({Len(query), Len(pack.name)})
    IN  IF query = << >> THEN 0
        ELSE IF pack.name = query THEN 1000
        ELSE IF query \in pack.aliases THEN 950
        ELSE IF HoldsName(pack.name, query) \/ HoldsName(query, pack.name) THEN 600 + (300 * short) \div long
        ELSE (700 * (long - Levenshtein(pack.name, query))) \div long

DocsResolve(query, packs) ==
    LET found == {p \in packs : Confidence(query, p) >= 350}
        Better(p, q) == Confidence(query, p) > Confidence(query, q)
                        \/ (Confidence(query, p) = Confidence(query, q) /\ p.order < q.order)
        all == SetToSortSeq(found, Better)
    IN  SubSeq(all, 1, Min({MaxCandidates, Len(all)}))

-----------------------------------------------------------------------------
(* Fetching.  A path and a rule are sequences; a line of robots.txt is      *)
(* <<key, value>>.                                                          *)

\* Agents named in a row share the rules after them; rules before any agent are dropped.
SplitIntoGroups(lines) ==
    LET Flush(s) == [s EXCEPT !.agents = << >>, !.rules = << >>,
                              !.groups = IF s.agents = << >> THEN @
                                         ELSE Append(@, [agents |-> s.agents, rules |-> s.rules])]
        Rule(s, prefix, allow) ==
            [s EXCEPT !.run = FALSE, !.rules = Append(@, [prefix |-> prefix, allow |-> allow])]
        Step(s, line) ==
            CASE line[1] = "agent" ->
                     [(IF s.run THEN s ELSE Flush(s)) EXCEPT !.agents = Append(@, line[2]), !.run = TRUE]
              [] line[1] = "disallow" ->
                     IF line[2] = << >> THEN [s EXCEPT !.run = FALSE] ELSE Rule(s, line[2], FALSE)
              [] line[1] = "allow" -> Rule(s, line[2], TRUE)
              [] line[1] = "other" -> s
    IN  Flush(FoldLeft(Step, [groups |-> << >>, agents |-> << >>, rules |-> << >>, run |-> FALSE], lines)).groups

\* The first group that names the program, else the first for everyone.
Parse(lines) ==
    LET groups == SplitIntoGroups(lines)
        For(agent) == SelectSeq(groups, LAMBDA g : agent \in ToSet(g.agents))
        chosen == For("darkharness") \o For("*")
    IN  IF chosen = << >> THEN << >> ELSE Head(chosen).rules

IsAllowed(rules, path) ==
    LET Better(best, rule) ==
            IF ~IsPrefix(rule.prefix, path) THEN best
            ELSE IF best = << >> THEN <<rule>>
            ELSE IF Len(best[1].prefix) > Len(rule.prefix) THEN best
            ELSE IF Len(best[1].prefix) = Len(rule.prefix) /\ ~rule.allow THEN best
            ELSE <<rule>>
        best == FoldLeft(Better, << >>, rules)
    IN  best = << >> \/ best[1].allow

\* The clock stands after a wait where the host may be asked again.
Wait(s, host) ==
    LET now == IF host \in DOMAIN s.last THEN Max({s.now, s.last[host] + MinInterval}) ELSE s.now
    IN  [s EXCEPT !.now = now, !.last = Put(@, host, now)]

Request(s, host, what, path) ==
    [s EXCEPT !.asked = Append(@, [host |-> host, what |-> what, path |-> path, at |-> s.now])]

\* Each host is asked for its rules once, when its first page comes; a page that may not or
\* cannot be read is passed over.  site: the rules of a host, << >> when none can be read.
IngestSitemap(site, pages, start) ==
    LET Page(s, page) ==
            LET met == IF page.host \in s.hosts THEN s
                       ELSE [Request(s, page.host, "robots", << >>) EXCEPT !.hosts = @ \union {page.host}]
                waited == Wait(met, page.host)
                got == Request(waited, page.host, "page", page.path)
            IN  IF ~IsAllowed(Parse(site[page.host]), page.path) THEN met
                ELSE IF page.fails THEN got
                ELSE [got EXCEPT !.documents = Append(@, page)]
        first == Wait([now |-> 0, last |-> << >>, asked |-> << >>, hosts |-> {}, documents |-> << >>], start)
    IN  FoldLeft(Page, Request(first, start, "sitemap", << >>), pages)

-----------------------------------------------------------------------------
(* Pages.  A page is a sequence of texts and tags: [tag, closing, level] or *)
(* [text].                                                                  *)

\* A heading that is not closed by one takes the text up to the next; script and the like
\* are dropped with what they hold.
Extract(page) ==
    LET Text(s, x) ==
            IF s.skip # "none" THEN s
            ELSE IF s.inTitle THEN [s EXCEPT !.title = Append(@, x)]
            ELSE IF s.level > 0 THEN [s EXCEPT !.heading = Append(@, x)]
            ELSE [s EXCEPT !.body = Append(@, x)]
        Tag(s, t) ==
            IF s.skip # "none" THEN (IF t.closing /\ t.tag = s.skip THEN [s EXCEPT !.skip = "none"] ELSE s)
            ELSE CASE t.tag \in {"script", "style"} -> IF t.closing THEN s ELSE [s EXCEPT !.skip = t.tag]
                   [] t.tag = "title" -> [s EXCEPT !.inTitle = ~t.closing]
                   [] t.tag = "h" /\ ~t.closing -> [s EXCEPT !.level = t.level, !.heading = << >>]
                   [] t.tag = "h" /\ t.closing ->
                        IF s.level = 0 THEN s
                        ELSE [s EXCEPT !.level = 0, !.heading = << >>, !.body = @ \o s.heading,
                                       !.headings = IF s.heading = << >> THEN @ ELSE Append(@, <<s.level, s.heading>>)]
                   [] OTHER -> s
    IN  FoldLeft(LAMBDA s, x : IF x.tag = "text" THEN Text(s, x.level) ELSE Tag(s, x),
                 [skip |-> "none", inTitle |-> FALSE, level |-> 0, title |-> << >>, heading |-> << >>,
                  headings |-> << >>, body |-> << >>], page)
================================================================================
