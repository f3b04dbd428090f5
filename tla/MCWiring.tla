------------------------------ MODULE MCWiring ------------------------------
(* Four tickets of four names, and four that share some; and what the     *)
(* making, chunking, indexing and retrieval of documentation packs compute.*)
EXTENDS Wiring, SequencesExt, FiniteSetsExt

FourNames == {"a", "b", "c", "d"}

OwnNames   == [t \in Ticket |-> <<"a", "b", "c", "d">>[t]]
TwoShared  == [t \in Ticket |-> <<"a", "b", "b", "a">>[t]]
NamingsOfFour == {OwnNames, TwoShared}

-----------------------------------------------------------------------------
(* Chunks of at most three lines and at least two.                         *)

Pack == INSTANCE Lexicon WITH
            MaxTokens <- 3, MinTokens <- 2, MaxChunkTokens <- 4, RrfK <- 2, RerankThreshold <- 1,
            StemSuffixes <- << <<"b", "s">>, <<"s">> >>

LineKinds == {<<"heading", 1>>, <<"heading", 2>>, <<"text", 0>>, <<"blank", 0>>, <<"fence", 1>>, <<"fence", 2>>}
Document(kinds) == [k \in DOMAIN kinds |-> [kind |-> kinds[k][1], mark |-> kinds[k][2], name |-> k]]
Documents == {Document(kinds) : kinds \in SeqOf(LineKinds, 4) \union [1..7 -> {<<"heading", 1>>, <<"text", 0>>, <<"blank", 0>>}]}
Chunked(body) == Pack!ChunkDocument(<<"lib", "title">>, body)
Content(lines) == SelectSeq(lines, LAMBDA line : line.kind # "blank")

\* Every line of text is in exactly one chunk, and every fenced block of it is whole there,
\* closed by a fence of its own marker (split_into_blocks: a code block is never split).
ASSUME ChunksHoldTheText ==
    \A body \in Documents :
        LET chunks == Chunked(body)
            text == SelectSeq(Pack!ClassifyLines(body), LAMBDA line : line.kind \notin {"heading", "blank"})
            held == Content(FlattenSeq([k \in DOMAIN chunks |-> chunks[k].lines]))
        IN  /\ Len(held) = Len(text) /\ ToSet(held) = ToSet(text)
            /\ Pack!HasBalancedFences(body) => \A c \in ToSet(chunks) : Pack!HasBalancedFences(c.lines)
            /\ \A j, k \in DOMAIN body :
                  /\ j < k /\ body[j].kind = "fence" /\ body[k].kind = "heading"
                  /\ \A i \in DOMAIN body : i # j => body[i].kind # "fence" \/ body[i].mark # body[j].mark
                  /\ \A i \in 1..(j - 1) : body[i].kind # "fence"
                  => Pack!ClassifyLines(body)[k].kind = "text"

\* A chunk over the limit is one block; a chunk too small that remains has no room
\* beside it; and no two chunks share an identifier (merge_undersized, finalize).
ASSUME SizesAreKept ==
    \A body \in Documents :
        LET chunks == Chunked(body)
            asRaw == [k \in DOMAIN chunks |-> Pack!RawChunk(chunks[k].crumb, chunks[k].lines,
                                                           chunks[k].tokens, chunks[k].oversize)]
        IN  /\ \A c \in ToSet(chunks) :
                  /\ c.tokens = Pack!Tokens(c.lines)
                  /\ c.tokens > 3 <=> c.oversize
                  /\ c.oversize => Len(Pack!SplitIntoBlocks(c.lines)) = 1
            /\ \A k \in Pack!Undersized(asRaw) : Pack!MergeTargets(asRaw, k) = << >>
            /\ Cardinality({c.id : c \in ToSet(chunks)}) = Len(chunks)

\* A section too small that is merged forward is put behind the one it came before, and one
\* merged backward in front of it: "merges by prepending the small chunk's content onto the
\* sibling's" (algorithm.rs:292), which would keep the order of the first, is not done.
ASSUME MergesReverse ==
    LET body == Document(<<<<"heading", 1>>, <<"text", 0>>, <<"heading", 1>>, <<"text", 0>>, <<"text", 0>>>>)
        chunks == Chunked(body)
    IN  Len(chunks) = 1 /\ [k \in 1..3 |-> chunks[1].lines[k].name] = <<4, 5, 2>>

-----------------------------------------------------------------------------
(* Words, numbers and ranks.                                               *)

Words == SeqOf({"a", "B", "_", "1"}, 5) \ {<< >>}

\* The pieces of an identifier are its parts between underscores, letter for letter, none
\* of them empty, and only the first letters of one may be capitals before a small one
\* (split_identifier, split_camel_case).
ASSUME PiecesKeepTheWord ==
    \A word \in Words :
        LET pieces == Pack!SplitIdentifier(word)
        IN  /\ FlattenSeq(pieces) = SelectSeq(word, LAMBDA c : c # "_")
            /\ << >> \notin ToSet(pieces)
            /\ \A p \in ToSet(pieces) : \A k \in 2..Len(p) : ~(p[k - 1] = "a" /\ p[k] = "B")
            /\ \A p \in ToSet(pieces) : \A k \in 3..Len(p) : ~(p[k - 2] = "B" /\ p[k - 1] = "B" /\ p[k] = "a")

\* A plural is found by its plain word and by the same identifier, but not inside another
\* identifier: the pieces keep the suffix that the query loses (push_tokens_for_word).
ASSUME PiecesAreNotStemmed ==
    LET plain == <<"a", "b", "a", "s">>
        camel == <<"b", "b", "A", "b", "a", "s">>
    IN  /\ Pack!Bm25Hits(<< <<plain>>, <<camel>> >>, <<plain>>) = {1}
        /\ Pack!Bm25Hits(<< <<plain>>, <<camel>> >>, <<camel>>) = {2}

\* What is written is read back, the chunks of a term and every number that fits; a number
\* wider than that is refused or, if its last group begins inside the width, cut short:
\* "varint encodes a value wider than 64 bits" is only noticed by the group after
\* (codec.rs:51-55).
ASSUME NumbersAreReadBack ==
    /\ \A docs \in SUBSET (0..5) :
          LET list == SetToSortSeq(docs, <) IN Pack!FromDeltas(Pack!Deltas(list)) = list
    /\ \A v \in 0..31 : Pack!ReadVarint(Pack!WriteVarint(v, 4), 2, 5) = [ok |-> TRUE, value |-> v]
    /\ \A v \in 32..63 : Pack!ReadVarint(Pack!WriteVarint(v, 4), 2, 5) = [ok |-> TRUE, value |-> v - 32]
    /\ \A v \in 64..90 : ~Pack!ReadVarint(Pack!WriteVarint(v, 4), 2, 5).ok

Hits(ats) == [k \in DOMAIN ats |-> [at |-> ats[k], score |-> 0]]
Orders == {Hits(ats) : ats \in UNION {SetToSeqs(S) : S \in SUBSET (1..4)}}
Fused(lists) == Pack!ReciprocalRankFusion(lists, 60)

\* The order of the lists does not matter, nothing is lost or added, and what stands before
\* another in every list does so in the result (reciprocal_rank_fusion).
ASSUME FusionIsFair ==
    \A one, two \in Orders :
        LET result == Fused(<<one, two>>)
            Rank(list, at) == SelectInSeq(list, LAMBDA h : h.at = at)
            Ahead(list, x, y) == Rank(list, x) > 0 /\ (Rank(list, y) = 0 \/ Rank(list, x) < Rank(list, y))
            All == {h.at : h \in ToSet(one) \union ToSet(two)}
        IN  /\ Fused(<<two, one>>) = result
            /\ Len(result) = Cardinality(All) /\ {h.at : h \in ToSet(result)} = All
            /\ \A x, y \in All : Ahead(one, x, y) /\ Ahead(two, x, y) => Rank(result, x) < Rank(result, y)

\* A reranker that was too slow is not asked again in the session, and one that fails, is
\* switched off or does not know a chunk leaves the order as it was (RerankGate::rerank).
ASSUME SlowIsLast ==
    \A fused \in Orders : \A outcomes \in [1..3 -> [took : {0, 1, 2}, error : BOOLEAN, scored : {<< >>, <<[at |-> 1, score |-> 3]>>}]] :
        LET Try(k, off) == Pack!Rerank(off, fused, Hits(<<1, 2, 3>>), outcomes[k])
            one == Try(1, FALSE)
            two == Try(2, one.disabled)
            three == Try(3, two.disabled)
        IN  /\ fused # << >> /\ ~(\E h \in ToSet(fused) : h.at = 4) => one.disabled = (outcomes[1].took = 2)
            /\ one.disabled => ~two.used /\ ~three.used /\ three.disabled
            /\ \A r \in {one, two, three} : ~r.used => r.hits = fused
            /\ \A pool \in 0..3 :
                  LET plain == Pack!Search(Hits(<<1, 2, 3>>), <<fused>>, pool, FALSE, << >>, 60)
                      gated == Pack!Search(Hits(<<1, 2, 3>>), <<fused>>, pool, one.disabled, <<outcomes[2]>>, 60)
                  IN  /\ Len(plain.hits) = Min({Len(fused), Max({pool, 1})})
                      /\ one.disabled => gated.hits = plain.hits
            /\ \A r \in {one, two, three} : \A h \in ToSet(r.hits) : h.at \in {f.at : f \in ToSet(fused)}

-----------------------------------------------------------------------------
(* Answers: three documents' chunks of two sizes, at most four tokens each. *)

Crumbs == {<<"lib", "t">>, <<"lib", "t", "s">>, <<"lib", "t", "u">>, <<"lib", "v", "s">>}
Sized(crumb, n) == [crumb |-> crumb, tokens |-> n, words |-> [k \in 1..(2 * n) |-> k]]
Filler == Sized(<<"lib", "t", "x">>, 45)
Retrieved == {<<Sized(c[1], n[1]), Sized(c[2], n[2]), Sized(c[3], n[3]), Filler>> :
               c \in {s \in [1..3 -> Crumbs] : IsInjective(s)}, n \in [1..3 -> {2, 6}]}
Rankings == {Hits(ats) : ats \in {<<1, 2, 3>>, <<3, 1, 2>>, <<9, 2, 2, 1>>, <<2, 4, 3>>}}

\* The best chunk is always answered; after it the answer stays within its budget, each chunk
\* within its limit, and a document given twice within its share; none repeats, or is above
\* or below, another (fill, is_duplicate).
ASSUME AnswerKeepsItsLimits ==
    \A chunks \in Retrieved : \A ranked \in Rankings : \A budget \in {1, 5, 9, 40} :
        LET out == Pack!Fill(chunks, ranked, budget)
            Spent(S) == FoldLeftDomain(LAMBDA sum, k : IF k \in S THEN sum + out[k].tokens ELSE sum, 0, out)
            Of(key) == {k \in DOMAIN out : out[k].key = key}
            best == SelectInSeq(ranked, LAMBDA h : h.at \in DOMAIN chunks)
        IN  /\ out # << >> /\ out[1].at = ranked[best].at
            /\ Len(out) > 1 => Spent(DOMAIN out) <= budget
            /\ \A o \in ToSet(out) : o.tokens <= 4 /\ Len(o.words) > 0 /\ Len(o.words) <= 2 * o.tokens
            /\ \A o \in ToSet(out) : Cardinality(Of(o.key)) > 1 =>
                  100 * Spent(Of(o.key)) <= 15 * Pack!DocumentTotal(chunks, o.key)
            /\ \A j, k \in DOMAIN out : j # k => ~IsPrefix(chunks[out[j].at].crumb, chunks[out[k].at].crumb)

\* The words before a document's first heading hide every section of it, though a chunk
\* holds nothing of the sections below it (split_into_sections, is_duplicate).
ASSUME PreambleHidesTheRest ==
    \A budget \in 4..90 :
        LET chunks == <<Sized(<<"lib", "t">>, 2), Sized(<<"lib", "t", "s">>, 2), Filler>>
        IN  /\ Len(Pack!Fill(chunks, Hits(<<1, 2, 3>>), budget)) = 1
            /\ Len(Pack!Fill(chunks, Hits(<<2, 3>>), budget)) = IF budget >= 6 THEN 2 ELSE 1

-----------------------------------------------------------------------------
(* What a pack is made of: two places for a licence, vectors up to seven.   *)

Docs == INSTANCE Sources WITH
            LicenceFileNames <- <<"LICENSE", "COPYING">>, ConventionalPaths <- <<"/LICENSE", "/license">>,
            KnownMarkers <- <<"MIT", "BSD">>, OperationMethods <- <<"get", "post">>,
            DocumentExtensions <- {"md", "txt"}, QuantMax <- 7

Outline(body) ==
    LET heads == SelectSeq(Pack!ClassifyLines(body), LAMBDA line : line.kind = "heading")
    IN  [k \in DOMAIN heads |-> [level |-> heads[k].mark, text |-> heads[k].name]]

\* The outline of a document is made of the headings its chunks are cut at: "the two scans
\* agree on what counts as a heading and what counts as a fence" (ingest/markdown.rs:7).
ASSUME OutlinesAgree == \A body \in Documents : Docs!ExtractHeadings(body) = Outline(body)

ManLines == {[kind |-> k, mark |-> 1, name |-> n] : k \in {"section", "text", "heading", "blank"}, n \in {"NAME", "ls"}}

\* A manual page keeps its lines and is named by the first line below NAME; but "the headings
\* that appear in body" (document.rs:41) are not only its sections: an indented line that
\* begins with a hash, as in an example, is one as well, and a chunk ends there (manpage.rs).
ASSUME ManPageHidesHeadings ==
    \A lines \in SeqOf(ManLines, 3) :
        LET page == Docs!Manpage("page", lines)
            Sections(body) == SelectSeq(Outline(body), LAMBDA h : h.level = 2)
        IN  /\ Len(page.body) = Len(lines)
            /\ page.headings = Sections(page.body)
            /\ (page.headings = Outline(page.body)) = ~(\E l \in ToSet(lines) : l.kind = "heading")
            /\ page.title # "page" <=> \E j, k \in DOMAIN lines :
                  /\ j < k /\ lines[j].kind = "section" /\ lines[j].name = "NAME"
                  /\ lines[k].kind \in {"text", "heading"}
                  /\ \A i \in (j + 1)..k : lines[i].kind # "section"

Titles == {<< >>, Document(<<<<"heading", 2>>>>), Document(<<<<"heading", 2>>, <<"heading", 1>>>>),
           Document(<<<<"fence", 1>>, <<"heading", 1>>>>)}
File(p, ext, text, body) == [path |-> p, ext |-> ext, text |-> text, regular |-> TRUE, stem |-> 0, body |-> body]
Roots == {[exists |-> TRUE, listed |-> TRUE, files |-> {File(1, f[1], f[2], f[3]), File(2, g[1], g[2], g[3])}] :
            f \in {"md", "rs"} \X BOOLEAN \X Titles, g \in {"md", "rs"} \X BOOLEAN \X Titles}

\* One wanted file that is not text fails the directory, whatever else is there, and a file
\* that is not wanted is not looked at; a title may come from below the first level, but for
\* an llms.txt it is the path then (localdir.rs, git.rs, llms_txt.rs).
ASSUME OneBadFileFailsAll ==
    \A root \in Roots :
        LET result == Docs!Localdir(root)
            wanted == {f \in root.files : f.ext = "md"}
            remote == Docs!Git(root, [base |-> "host", place |-> TRUE])
            blind == Docs!Git(root, [base |-> "host", place |-> FALSE])
        IN  /\ (result.code = "ok") = \A f \in wanted : f.text
            /\ result.code = "ok" => {d.path : d \in ToSet(result.documents)} = {f.path : f \in wanted}
            /\ \A d \in ToSet(result.documents) :
                  (d.title = 0) = (d.headings = << >>)
            /\ Cardinality({d.url : d \in ToSet(remote.documents)}) = Len(remote.documents)
            /\ Cardinality({d.url : d \in ToSet(blind.documents)}) = Min({1, Len(blind.documents)})
            /\ \A f \in wanted :
                  LET tops == {h \in ToSet(Docs!ExtractHeadings(f.body)) : h.level = 1}
                  IN  (Docs!LlmsTxt(0, << >>, f.body).title = 0) = (tops = {})

Items == {<<[local |-> l, path |-> p, kind |-> k, docs |-> d]>> : l \in BOOLEAN,
            p \in {<<"lib", "a">>, <<"lib", "m", "a">>}, k \in {"struct", "fn"}, d \in {"", "text"}}

\* Of two items of one path, a type and a function, only the later is kept: "one Document for
\* each local item that carries documentation text" (docsrs.rs:20) is one for each path.  And
\* two paths may have one address, which leaves out the modules between.
ASSUME NamesakesAreDropped ==
    \A one, two \in Items :
        LET items == one \o two
            pages == Docs!Docsrs(items, "base")
            kept == {k \in 1..2 : items[k].local /\ items[k].docs # ""}
        IN  /\ DOMAIN pages = {items[k].path : k \in kept}
            /\ (Cardinality(DOMAIN pages) < Cardinality(kept)) = (kept = 1..2 /\ items[1].path = items[2].path)
            /\ kept = 1..2 => pages[items[2].path].url = <<"base", items[2].kind, "a">>
            /\ kept = 1..2 /\ items[1].path # items[2].path =>
                  (pages[items[1].path].url = pages[items[2].path].url) = (items[1].kind = items[2].kind)

Operations == {[id |-> i, summary |-> "s", description |-> "d", parameters |-> p, request |-> r] :
                 i \in {"none", "op"}, p \in {<< >>, <<"limit">>}, r \in {"none", "json", "file"}}
Spec2(one, two, shared) == [p \in 1..2 |-> [shared |-> shared, operations |-> IF p = 1 THEN [m \in {"get", "post"} |-> one]
                                                                             ELSE [m \in {"post"} |-> two]]]

\* Every operation has its document, in one order, and no two documents a path; but neither
\* what it is sent nor the parameters of its path are in it, against "from that operation's
\* summary, description, parameters, and request body" (openapi.rs:7), nor is its title.
ASSUME RequestIsLeftOut ==
    \A one, two \in Operations :
        LET Pages(o, t, shared) == Docs!Openapi(Spec2(o, t, shared), "base")
            pages == Pages(one, two, << >>)
            same == {o \in Operations : o = [one EXCEPT !.request = o.request]}
        IN  /\ [k \in DOMAIN pages |-> pages[k].path] = <<<<"get", 1>>, <<"post", 1>>, <<"post", 2>>>>
            /\ Cardinality({d.url : d \in ToSet(pages)}) = 3
            /\ \A o \in same : Pages(o, two, <<"trace">>) = pages
            /\ (pages[1].title = pages[2].title) = (one.id = "op")

Spaced == {[kind |-> k, indent |-> i, name |-> n] : k \in {"text", "blank"}, i \in {0, 4}, n \in {1}}

\* The lines of a page keep their order and at most one blank line between them: "Collapses
\* three or more consecutive newlines to exactly two"; but no line of code keeps the blanks
\* it begins with (collapse_blank_lines).
ASSUME CodeLosesItsIndent ==
    \A lines \in SeqOf(Spaced, 4) :
        LET out == Docs!CollapseBlankLines(lines)
            Full(s) == SelectSeq(s, LAMBDA l : l.kind = "text")
        IN  /\ Len(Full(out)) = Len(Full(lines))
            /\ \A k \in DOMAIN out : out[k].kind = "blank" => k \notin {1, Len(out)} /\ out[k + 1].kind = "text"
            /\ \A l \in ToSet(Full(out)) : l.indent = 0

Letters == {[plain |-> TRUE, lower |-> "a"], [plain |-> TRUE, lower |-> "b"], [plain |-> FALSE, lower |-> "e"]}

\* An anchor has no hyphen at its ends and none beside another; a heading without a letter
\* of ASCII has none, and then its chunks have no address, not even the document's (finalize).
ASSUME AnchorMayBeNone ==
    \A text \in SeqOf(Letters, 4) :
        LET slug == Docs!Slugify(text)
        IN  /\ slug # << >> => slug[1] # "-" /\ Last(slug) # "-"
            /\ \A k \in 2..Len(slug) : ~(slug[k] = "-" /\ slug[k - 1] = "-")
            /\ Docs!Slugify([k \in DOMAIN slug |-> [plain |-> slug[k] # "-", lower |-> slug[k]]]) = slug
            /\ (Docs!ChunkUrl(<<"page">>, text) = << >>) = ~(\E c \in ToSet(text) : c.plain)

\* Two documents of one title, as the fallback to a file's stem makes them, have chunks of
\* one identifier: the path is no part of it, nor is there one count for a pack (id.rs).
ASSUME SameTitleSameChunk ==
    \A one, two \in {Document(<<<<"text", 0>>>>), Document(<<<<"text", 0>>, <<"text", 0>>>>)} :
        {c.id : c \in ToSet(Chunked(one))} = {c.id : c \in ToSet(Chunked(two))}

Texts == {[tag |-> t, names |-> n, words |-> w] : t \in {"", "ISC"}, n \in SUBSET {"MIT", "BSD"}, w \in {"blank", "words"}}
Readable(t) == [readable |-> TRUE, text |-> t]
Unreadable == [readable |-> FALSE, text |-> [tag |-> "", names |-> {}, words |-> "blank"]]
LicenceDirs == UNION {[names -> {Readable(t) : t \in {x \in Texts : x.words = "words" \/ x.names = {}}} \union {Unreadable}] :
                        names \in {{}, {"license"}, {"COPYING"}, {"LICENSE", "COPYING"}, {"Cargo.toml"}, {"COPYING", "Cargo.toml"}}}

\* A name in small letters is not a licence, though "the search is case-sensitive on the
\* exact name and then retried lowercase" (licence.rs:18); an empty file is one, except at an
\* address; and a first file that cannot be read hides the next.
ASSUME LicenceIsTakenByName ==
    \A dir \in LicenceDirs :
        LET found == Docs!DiscoverInDir(dir)
            files == DOMAIN dir \intersect {"LICENSE", "COPYING"}
            first == IF "LICENSE" \in files THEN "LICENSE" ELSE "COPYING"
        IN  /\ DOMAIN dir = {"license"} => found = Docs!NoLicence
            /\ files # {} => (found.code = "ok") = dir[first].readable
            /\ files # {} /\ dir[first].readable => found.found /\ found.text = dir[first].text.words
            /\ found.found /\ found.spdx \in {"MIT", "BSD"} =>
                  dir[first].text.tag = "" /\ (found.spdx = "MIT") = ("MIT" \in dir[first].text.names)
                  /\ found.spdx \in dir[first].text.names
            /\ DOMAIN dir = {"Cargo.toml"} /\ dir["Cargo.toml"].readable =>
                  found.found = (dir["Cargo.toml"].text.tag # "")
            /\ \A t \in Texts : Docs!DiscoverViaFetcher([p \in {"/license"} |-> Readable(t)]).found = (t.words # "blank")

Kinds == {"llms-txt", "docsrs", "openapi", "manpage", "localdir", "git", "sitemap", "none"}
OneDocument == [code |-> "ok", documents |-> <<"page">>]

\* A pack of a directory is let in by its licence.  None of the four kinds read from a file is
\* ever let in: the command has no licence to give and no `--i-accept-responsibility`, and
\* a fifth it refuses by name, so that of the seven kinds two can be added (run_add).
ASSUME FourKindsAreRefused ==
    \A kind \in Kinds : \A isDir, readable \in BOOLEAN : \A dir \in LicenceDirs :
        LET result == Docs!RunAdd(kind, isDir, readable, dir, OneDocument)
        IN  /\ result = "ok" => Docs!SourceKind(kind, isDir) \in {"localdir", "git"} /\ Docs!DiscoverInDir(dir).found
            /\ kind \in {"llms-txt", "docsrs", "openapi", "manpage"} /\ readable => result = "PackNoLicence"
            /\ kind = "sitemap" \/ (kind = "none" /\ ~isDir) => result = "refused"
            /\ Docs!Admit(OneDocument, Docs!NoLicence, Docs!NoLicence, TRUE) = "ok"

Vectors == [1..2 -> -2..2]

\* The largest component of a vector takes the whole range, no component changes its sign,
\* their order stays, and the opposite vector has the opposite components; the vectors of two
\* chunks that point the same way become one (quantize).
ASSUME DirectionIsKept ==
    \A v \in Vectors :
        LET q == Docs!Quantize(v).values
        IN  /\ v # <<0, 0>> => Max({Docs!Magnitude(q[1]), Docs!Magnitude(q[2])}) = 7
            /\ \A k \in 1..2 : (v[k] > 0 => q[k] > 0) /\ (v[k] < 0 => q[k] < 0) /\ (v[k] = 0 => q[k] = 0)
            /\ v[1] <= v[2] => q[1] <= q[2]
            /\ Docs!Quantize([k \in 1..2 |-> 3 * v[k]]).values = q
            /\ Docs!Quantize([k \in 1..2 |-> -v[k]]).values = [k \in 1..2 |-> -q[k]]

\* Asked with a chunk's own vector, the scan finds it or an earlier one of its direction
\* first; a query of another width is refused, but not by an empty index (DenseIndex::search).
ASSUME NearestIsFound ==
    \A u, v, w \in Vectors \ {<<0, 0>>} :
        LET index == Docs!Build(<<u, v, w>>)
            found == Docs!SearchDense(index, w, 2)
            first == index.vectors[found.hits[1]].values
        IN  /\ index.ok /\ found.ok /\ Len(found.hits) = 2
            /\ first = Docs!Quantize(w).values
            /\ \A k \in 1..(found.hits[1] - 1) : index.vectors[k].values # first
            /\ ~Docs!SearchDense(index, <<1>>, 2).ok /\ Docs!SearchDense(Docs!Build(<< >>), <<1>>, 2).ok
            /\ ~Docs!Build(<<u, <<1>>>>).ok

\* What is written is read back; every file cut short is refused, one with more at its end
\* is not (to_bytes, from_bytes).
ASSUME VectorsAreReadBack ==
    \A u, v \in Vectors :
        LET index == Docs!Build(<<u, v>>)
            bytes == Docs!ToBytes(index)
        IN  /\ Docs!FromBytes(bytes) = index /\ Docs!FromBytes(bytes \o <<1>>) = index
            /\ \A n \in 0..(Len(bytes) - 1) : ~Docs!FromBytes(SubSeq(bytes, 1, n)).ok

\* A pack that the commands made or indexed again is never asked for its vectors, by any model
\* that has a width: "`cli::add` fills it in from what the embedder produced" (pack.rs:296),
\* which it does not (embed_block, compare, docs_get_from_parts).
ASSUME OwnVectorsAreNeverUsed ==
    \A model \in {"m", "n"} : \A dim \in 1..3 : \A v \in Vectors :
        LET now == [model |-> model, dim |-> dim, quant |-> "int8"]
            index == Docs!Build(<<v>>)
        IN  /\ Docs!TiersUsed(index, TRUE, Docs!EmbedBlock("m"), now) = <<"bm25">>
            /\ Docs!CompareEmbed(Docs!EmbedBlock("m"), now) = IF model = "m" THEN "dim" ELSE "model"
            /\ Docs!TiersUsed(index, TRUE, now, now) = <<"bm25", "dense">>
=============================================================================
