------------------------------- MODULE MCEngine -------------------------------
(* Model checking of Engine: two models that do not fit together; and what *)
(* the commands on documentation packs leave, and fetch.                   *)
EXTENDS Engine, TLC, SequencesExt, FiniteSetsExt

CONSTANTS mid, small, worker

MCWeights == mid :> <<30>> @@ small :> <<20>>

MCPerToken == mid :> 1 @@ small :> 2

Asking(key, context) ==
    [key |-> key, classes |-> {worker}, context |-> context, alias |-> NoAlias]

\* Each has to evict the other, and is refused while it is leased.
MCRequests == {Asking(mid, 20), Asking(small, 10)}

MCResponses == {<<"chunk">>}

-----------------------------------------------------------------------------
(* Documentation packs, two of them and what a refresh makes of one.       *)

Lex == INSTANCE Packs WITH MinInterval <- 2, MaxCandidates <- 2

Made(id, chunks, model) == [id |-> id, chunks |-> chunks, model |-> model, licence |-> "text"]
Sealed(pack) == Lex!After(<< >>, Lex!AddWrites(pack), 7)
Old == Sealed(Made("p@1", <<1, 2>>, "m1"))
Fresh == Made("p@1", <<1, 3, 4>>, "m2")
Torn == {Lex!After(Old, Lex!AddWrites(Fresh), n) : n \in 1..6} \union
        {Lex!After(Old, Lex!ReindexWrites(Old, "m2"), n) : n \in 1..3}

\* Its indexes are of its own chunks, and its vectors of the model it names.
Consistent(dir) ==
    /\ dir["bm25"].of = dir["chunks"] /\ dir["dense"].of = dir["chunks"]
    /\ dir["dense"].model = dir["manifest"].model

\* Whatever an add, a refresh or a reindex had written when it stopped, a pack that is
\* verified is the one it was or the one it was to be (add_with_counter, hash::verify).
ASSUME HalfWrittenIsRefused ==
    /\ \A n \in 0..7 : \A start \in {Old, << >>} :
          LET dir == Lex!After(start, Lex!AddWrites(Fresh), n)
          IN  Lex!Verify(dir) = "ok" => (dir = start \/ n = 7) /\ Consistent(dir)
    /\ \A n \in 0..4 :
          LET dir == Lex!After(Old, Lex!ReindexWrites(Old, "m2"), n)
          IN  Lex!Verify(dir) = "ok" => (dir = Old \/ n = 4) /\ Consistent(dir)

\* A reindex mends what a stopped command left, the number of chunks in the manifest aside
\* (reindex).
ASSUME ReindexMends ==
    \A dir \in Torn :
        LET mended == Lex!After(dir, Lex!ReindexWrites(dir, "m2"), 4)
        IN  Lex!MayReindex(dir) /\ Lex!Verify(mended) = "ok" /\ Consistent(mended)

\* An export seals a pack that was left half written, and what it seals is imported: the
\* pack that would have been refused is served, with vectors of other chunks than its own
\* (darkpack.rs:66, hash.rs:146 "after every other file in the pack is final").
ASSUME ExportSealsATornPack ==
    \E dir \in Torn :
        LET steps == Lex!ImportSteps(<< >>, Lex!Export(dir))
            there == steps[Len(steps)]["p@1"]
        IN  /\ Lex!Verify(dir) # "ok" /\ Lex!Verify(there) = "ok" /\ ~Consistent(there)
            /\ \E model \in {"m1", "m2"} : Lex!UsesVectors(there, model)

\* An import stopped anywhere leaves the pack of that name as it was, or gone, or as it was
\* to be, and the next one completes (import).
ASSUME ImportIsWhole ==
    LET archive == Lex!Export(Sealed(Fresh))
        left == ".importing" :> Lex!Put(Old, "note", 1)
        steps == Lex!ImportSteps("p@1" :> Old @@ left, archive)
    IN  /\ Len(steps) = 5
        /\ \A n \in DOMAIN steps :
            LET again == Lex!ImportSteps(steps[n], archive)
            IN  /\ "p@1" \in DOMAIN steps[n] => steps[n]["p@1"] \in {Old, archive}
                /\ Last(again) = "p@1" :> archive

\* A stopped import's staging directory is listed as the pack it holds; and when that pack is
\* gone, the command that reindexes every pack ends there, the ones after it untouched
\* (list, run_reindex; cli.rs:562: "one damaged pack should not hide every other one").
ASSUME StagingIsListed ==
    LET other == Sealed(Made("q@1", <<5>>, "m1"))
        packs == Lex!ImportSteps("p@1" :> Old @@ "q@1" :> other, Lex!Export(Sealed(Fresh)))[4]
        after == Lex!ReindexAll(packs, <<"p@1", "q@1">>, "m2")
    IN  /\ "p@1" \in Lex!List(packs) /\ "p@1" \notin DOMAIN packs
        /\ after.failed /\ after.packs["q@1"] = other
        /\ Lex!ReindexAll(packs, <<"q@1">>, "m2").packs["q@1"] # other

\* Days and dates are each other's inverse, a day follows its date, and a pack is stale the
\* day after its policy, whichever way the clock was set (days_from_civil, evaluate).
ASSUME CalendarsAgree ==
    /\ \A z \in (-719600..-718800) \union (-800..800) \union (46900..47600) \union (10900..11100) :
          LET d == Lex!CivilFromDays(z)
              e == Lex!CivilFromDays(z + 1)
              leap == d.year % 4 = 0 /\ (d.year % 100 # 0 \/ d.year % 400 = 0)
              long == IF d.month = 2 THEN (IF leap THEN 29 ELSE 28)
                      ELSE IF d.month \in {4, 6, 9, 11} THEN 30 ELSE 31
          IN  /\ Lex!DaysFromCivil(d.year, d.month, d.day) = z
              /\ IF d.day < long THEN e = [d EXCEPT !.day = @ + 1]
                 ELSE /\ e.day = 1 /\ e.month = (d.month % 12) + 1
                      /\ e.year = d.year + (IF d.month = 12 THEN 1 ELSE 0)
    /\ Lex!CivilFromDays(0) = [year |-> 1970, month |-> 1, day |-> 1]
    /\ \A today \in 0..9 : Lex!Evaluate(4, today, 3).stale = (today = 8 \/ today = 9)

-----------------------------------------------------------------------------
(* Finding a pack, and fetching one.                                       *)

Short == SeqOf({"a", "b"}, 3)
Shorter == {n \in Short : Len(n) < 3}

\* The edit distance is a distance, of one for one edit, and no more than the longer name
\* (levenshtein).
ASSUME EditsAreCounted ==
    /\ \A x, y \in Short :
          /\ Lex!Levenshtein(x, y) = Lex!Levenshtein(y, x)
          /\ (Lex!Levenshtein(x, y) = 0) <=> x = y
          /\ Lex!Levenshtein(x, y) <= Max({Len(x), Len(y)})
          /\ \A z \in Shorter : Lex!Levenshtein(x, y) <= Lex!Levenshtein(x, z) + Lex!Levenshtein(z, y)
    /\ \A x \in Short : \A k \in DOMAIN x : Lex!Levenshtein(x, RemoveAt(x, k)) = 1
    /\ \A x, y \in Short : Lex!Levenshtein(x, y) >= Len(x) - Len(y)

Named(name, aliases, n) == [name |-> name, aliases |-> aliases, order |-> n]
Shelves == {{Named(x, {}, 1), Named(y, {z}, 2), Named(<<"a", "b", "a">>, {}, 3)} : x, y, z \in Shorter \ {<< >>}}

\* A pack of just that name is the first answer, one of that alias comes before those that
\* are merely like it, and nothing unlike is answered (docs_resolve).
ASSUME ExactIsFirst ==
    \A packs \in Shelves : \A query \in Short :
        LET out == Lex!DocsResolve(query, packs)
            exact == {p \in packs : p.name = query}
            alias == {p \in packs : query \in p.aliases /\ p.name # query}
        IN  /\ exact # {} /\ query # << >> => out[1] \in exact
            /\ exact = {} /\ alias # {} /\ query # << >> => out[1] \in alias
            /\ \A k \in DOMAIN out : ToSet(out[k].name) \intersect ToSet(query) # {} \/ query \in out[k].aliases

RuleLines == {<<"disallow", <<1>>>>, <<"allow", <<1>>>>, <<"disallow", << >>>>}

\* A path is judged by the longest rule it begins with, by the permission when two are as
\* long; where a group names the program the rules for everyone do not count (is_allowed).
ASSUME LongestRuleDecides ==
    /\ \A rules \in SeqOf([prefix : {<<1>>, <<1, 2>>, <<2>>}, allow : BOOLEAN], 3) : \A path \in {<<1>>, <<1, 2>>, <<1, 2, 3>>, <<3>>} :
          LET fits == {r \in ToSet(rules) : IsPrefix(r.prefix, path)}
              most == Max({0} \union {Len(r.prefix) : r \in fits})
          IN  Lex!IsAllowed(rules, path) =
                  (fits = {} \/ \E r \in fits : Len(r.prefix) = most /\ r.allow)
    /\ \A one, two \in SeqOf(RuleLines, 3) \ {<< >>} :
          LET mine == <<<<"agent", "darkharness">>>> \o two
              everyones == <<<<"agent", "*">>>> \o one
          IN  /\ Lex!Parse(everyones \o mine) = Lex!Parse(mine)
              /\ Lex!Parse(mine \o everyones) = Lex!Parse(mine)
              /\ Len(Lex!Parse(mine)) = Len(SelectSeq(two, LAMBDA l : l[2] # << >>))

\* A second group for the same agent is not read, where the rules of the two would be joined
\* (parse).
ASSUME SecondGroupIsIgnored ==
    Lex!Parse(<<<<"agent", "*">>, <<"allow", <<2>>>>, <<"agent", "*">>, <<"disallow", <<1>>>>>>)
        = <<[prefix |-> <<2>>, allow |-> TRUE]>>

Site == "h1" :> <<<<"agent", "*">>, <<"disallow", <<1>>>>>> @@ "h2" :> << >>
Pages == [host : {"h1", "h2"}, path : {<<1>>, <<2>>}, fails : BOOLEAN]
Fetched(pages) == Lex!IngestSitemap(Site, pages, "h1")

\* The pages become documents in the order of the sitemap, none that its host forbids is asked
\* for, the rules of a host are asked for once and before them, and two pages of a host are
\* never asked for within the interval (sitemap::ingest, RateLimiter).
ASSUME PagesAreSpaced ==
    \A pages \in SeqOf(Pages, 3) :
        LET end == Fetched(pages)
            asked == end.asked
            Of(host, what) == {k \in DOMAIN asked : asked[k].host = host /\ asked[k].what \in what}
        IN  /\ end.documents = SelectSeq(pages, LAMBDA p : ~p.fails /\ ~(p.host = "h1" /\ p.path = <<1>>))
            /\ \A k \in Of("h1", {"page"}) : asked[k].path # <<1>>
            /\ Cardinality(Of("h1", {"page"}) \union Of("h2", {"page"}))
                  = Len(SelectSeq(pages, LAMBDA p : ~(p.host = "h1" /\ p.path = <<1>>)))
            /\ \A host \in {"h1", "h2"} : Cardinality(Of(host, {"robots"})) <= 1
            /\ \A host \in {"h1", "h2"} : \A j, k \in Of(host, {"sitemap", "page"}) :
                  j < k => asked[k].at - asked[j].at >= 2

\* The rules themselves are asked for without waiting, so a host can be asked twice at once:
\* "Requests to each page's host ... are paced through limiter" (sitemap.rs:55).
ASSUME RobotsIsNotPaced ==
    LET asked == Fetched(<<[host |-> "h1", path |-> <<2>>, fails |-> FALSE]>>).asked
    IN  asked[1].host = asked[2].host /\ asked[1].at = asked[2].at

Piece(tag, closing, level) == [tag |-> tag, closing |-> closing, level |-> level]
Pieces == {Piece("text", FALSE, 7), Piece("h", FALSE, 1), Piece("h", TRUE, 2), Piece("script", FALSE, 0),
           Piece("script", TRUE, 0), Piece("style", TRUE, 0), Piece("title", FALSE, 0), Piece("title", TRUE, 0)}

\* Text is in the title, in the body, in a heading still open, or it was in an element that is
\* dropped or a heading never closed; a heading of the outline is in the body (extract).
ASSUME TextIsKeptOnce ==
    \A page \in SeqOf(Pieces, 4) :
        LET out == Lex!Extract(page)
            Count(p) == Len(SelectSeq(page, LAMBDA x : x = p))
            held == Len(out.title) + Len(out.body) + Len(out.heading)
        IN  /\ held <= Count(Piece("text", FALSE, 7))
            /\ Count(Piece("script", FALSE, 0)) = 0 /\ Count(Piece("h", FALSE, 1)) <= 1
               => held = Count(Piece("text", FALSE, 7))
            /\ Lex!Extract(<<Piece("script", FALSE, 0)>> \o SelectSeq(page, LAMBDA x : x # Piece("script", TRUE, 0))).body = << >>
            /\ \A h \in ToSet(out.headings) : h[2] # << >> /\ Len(h[2]) <= Len(out.body)

\* A heading that is not closed before the next loses its text; at the end of a page it loses
\* all that follows it (extract: heading_text is cleared, or never put into the body).
ASSUME OpenHeadingSwallows ==
    LET text == Piece("text", FALSE, 7)
        open == Piece("h", FALSE, 1)
    IN  /\ Lex!Extract(<<open, text, open, text, Piece("h", TRUE, 1)>>).body = <<7>>
        /\ Lex!Extract(<<open, text, text>>).body = << >>

-----------------------------------------------------------------------------
(* The scripted engine the other crates are tested against                  *)
(* (crates/dark-engine-fake).                                               *)

Fake == INSTANCE Scripted

\* The tokens of a text are the text, each but the first begins with a word and holds
\* one, and blanks alone are one token (split_tokens).
ASSUME TokensRejoin ==
    \A text \in SeqOf({"x", " "}, 7) :
        LET tokens == Fake!SplitTokens(text)
            words == {k \in DOMAIN text : text[k] = "x" /\ (k = 1 \/ text[k - 1] = " ")}
        IN  /\ FlattenSeq(tokens) = text
            /\ \A k \in 2..Len(tokens) : tokens[k][1] = "x"
            /\ Fake!TokenCount(text) = IF text = << >> THEN 0 ELSE Max({1, Cardinality(words)})

ScriptedTurns ==
    {Fake!Turn(text, << >>, calls, finish, error, steps) :
        text \in {<<>>, <<"x", " ", "x">>}, calls \in {<<>>, <<"c1", "c2">>},
        finish \in {Fake!None, "length"}, error \in {<<>>, <<0>>, <<2>>, <<9>>}, steps \in {0, 2}}

\* A stream polled to its end has one last word, an error or a finish, wherever it is
\* cancelled, and keeps the order of the script; but a cancellation that comes after
\* the finish adds a second one, and an error placed past the end comes after a finish
\* that has been given (plan, the unfold of stream).
ASSUME StreamEndsOnce ==
    \A turn \in ScriptedTurns :
        LET items == Fake!Plan(turn, 1)
            planned == {k \in DOMAIN items : items[k].kind = "done"}
        IN  /\ turn.error \in {<<>>, <<9>>} => planned # {}
            /\ \A cancel \in 0..Len(items) + 1 :
                LET given == Fake!Played(items, cancel)
                    ends == {k \in DOMAIN given : given[k].kind \in {"done", "error"}}
                    late == turn.error # <<>> /\ planned # {} /\ cancel >= Len(items)
                IN  /\ Len(given) \in ends
                    /\ IsPrefix(Front(given), items)
                    /\ Cardinality(ends) =
                          IF late \/ (planned # {} /\ cancel \in Max(planned)..Len(items)) THEN 2 ELSE 1

\* The calls a test collects are the script's, each whole, if the stream came to its
\* finish; fragments of one call are joined by its index, and an index that is skipped
\* is a call of no arguments, which is refused (collect_tool_calls).
Fragment(index, id, args) ==
    Fake!Chunk("call", [index |-> index, id |-> id, name |-> id, args |-> args])
ASSUME CallsAreCollected ==
    /\ \A turn \in {t \in ScriptedTurns : t.error = <<>>} :
          LET items == Fake!Plan(turn, 1)
          IN  \A cancel \in 0..Len(items) + 1 :
                  LET calls == Fake!CollectToolCalls(Fake!Played(items, cancel))
                  IN  /\ IsPrefix(calls, [k \in DOMAIN turn.tool_calls |->
                             [id |-> turn.tool_calls[k], name |-> turn.tool_calls[k]]])
                      /\ cancel >= Len(items) - 2 => Len(calls) = Len(turn.tool_calls)
    /\ \A id \in {Fake!None, "c1"} :
          Fake!CollectToolCalls(<<Fragment(1, "c0", <<"{">>), Fragment(1, id, <<"}">>)>>)
            = <<IF id = Fake!None THEN [id |-> "c0", name |-> "c0"] ELSE [id |-> id, name |-> id]>>
    /\ Fake!CollectToolCalls(<<Fragment(2, "c2", <<"{", "}">>)>>) = <<"bad arguments">>

\* Every request is remembered and uses up a turn, one past the end of the script or
\* against a turn that cannot play as well: "turns played" counts what was asked for
\* (turns_played).
ASSUME EveryRequestUsesATurn ==
    LET turn(finish) == Fake!Turn(<<"x">>, <<>>, <<>>, finish, <<>>, 0)
    IN  \A finishes \in SeqOf({Fake!None, "no such reason"}, 2) : \A requests \in SeqOf({"r1", "r2"}, 3) :
            LET script == [k \in DOMAIN finishes |-> turn(finishes[k])]
                end == FoldLeft(LAMBDA engine, r : Fake!Stream(engine, script, r), Fake!Fresh, requests)
            IN  /\ end.seen = requests /\ end.cursor = Len(requests)
                /\ requests # <<>> =>
                      end.answer = IF Len(requests) > Len(finishes) THEN "no turn left"
                                   ELSE IF finishes[Len(requests)] = Fake!None THEN "streams" ELSE "bad script"
=============================================================================
