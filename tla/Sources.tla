-------------------------------- MODULE Sources --------------------------------
(***************************************************************************)
(* Documentation packs, what goes in: the adapters that make documents of   *)
(* a source, the licence that lets one in, and the vectors over the chunks. *)
(* Source: crates/dark-lexicon/src/{ingest,index/dense.rs,pack/embed.rs,    *)
(* cli.rs}, crates/dark-cli/src/pack.rs.                                    *)
(*                                                                         *)
(* Lines are those of Lexicon; in a rendered manual page, kind "section" is *)
(* a line of capitals at the margin.  Paths are numbers in byte order.  A   *)
(* vector has integers for components, and its scale is left as the largest *)
(* of them.                                                                 *)
(***************************************************************************)
EXTENDS Integers, SequencesExt, FiniteSetsExt

CONSTANTS
    LicenceFileNames, ConventionalPaths,  \* where a licence is looked for, in order
    KnownMarkers,                         \* licences told by their text, in order
    OperationMethods,                     \* of an OpenAPI path, in order
    DocumentExtensions,                   \* of the files that are read
    QuantMax                              \* 127, the largest int8 used

-----------------------------------------------------------------------------
(* Documents.                                                              *)

ExtractHeadings(body) ==
    FoldLeft(LAMBDA s, line :
                 IF line.kind = "fence"
                 THEN [s EXCEPT !.fence = IF @ = line.mark THEN 0 ELSE IF @ = 0 THEN line.mark ELSE @]
                 ELSE IF s.fence = 0 /\ line.kind = "heading"
                 THEN [s EXCEPT !.found = Append(@, [level |-> line.mark, text |-> line.name])]
                 ELSE s,
             [fence |-> 0, found |-> << >>], body).found

NewDocument(path, title, headings, body, url) ==
    [path |-> path, title |-> title, headings |-> headings, body |-> body, url |-> url]

\* The first title of level one, or the path.
LlmsTxt(path, url, body) ==
    LET tops == SelectSeq(ExtractHeadings(body), LAMBDA h : h.level = 1)
    IN  NewDocument(path, IF tops = << >> THEN path ELSE tops[1].text, ExtractHeadings(body), body, url)

\* A section becomes a heading of level two; every other line is kept as it is.
Manpage(name, lines) ==
    LET Step(s, line) ==
            IF line.kind = "section"
            THEN [s EXCEPT !.headings = Append(@, [level |-> 2, text |-> line.name]),
                           !.body = Append(@, [kind |-> "heading", mark |-> 2, name |-> line.name]),
                           !.inName = (line.name = "NAME")]
            ELSE [s EXCEPT !.body = Append(@, line),
                           !.first = IF s.inName /\ @ = << >> /\ line.kind # "blank" THEN <<line.name>> ELSE @]
        end == FoldLeft(Step, [headings |-> << >>, body |-> << >>, first |-> << >>, inName |-> FALSE], lines)
    IN  NewDocument(name, IF end.first = << >> THEN name ELSE end.first[1], end.headings, end.body, "none")

\* A file that cannot be read as text, or a directory that cannot be listed, ends it all.
Localdir(root) ==
    LET wanted == {f \in root.files : f.regular /\ f.ext \in DocumentExtensions}
        sorted == SetToSortSeq(wanted, LAMBDA f, g : f.path < g.path)
        Title(f) == IF ExtractHeadings(f.body) = << >> THEN f.stem ELSE ExtractHeadings(f.body)[1].text
    IN  IF ~root.exists THEN [code |-> "ToolNotFound", documents |-> << >>]
        ELSE IF ~root.listed \/ \E f \in wanted : ~f.text THEN [code |-> "ToolFailed", documents |-> << >>]
        ELSE [code |-> "ok",
              documents |-> [k \in DOMAIN sorted |->
                  NewDocument(sorted[k].path, Title(sorted[k]), ExtractHeadings(sorted[k].body), sorted[k].body, "none")]]

\* A template without a place for the path gives every document the same address.
Git(root, template) ==
    LET result == Localdir(root)
        Url(d) == IF template.place THEN <<template.base, d.path>> ELSE <<template.base>>
    IN  [result EXCEPT !.documents = [k \in DOMAIN @ |-> [@[k] EXCEPT !.url = Url(result.documents[k])]]]

\* The entries in the order the file has them: of one path the last is kept.  The address
\* has the kind of the item and the end of its path.
Docsrs(items, base) ==
    LET kept == SelectSeq(items, LAMBDA i : i.local /\ i.path # << >> /\ i.docs # "")
        Doc(i) == NewDocument(i.path, Last(i.path), <<[level |-> 1, text |-> i.path]>>, i.docs,
                              IF base = "none" THEN base ELSE <<base, i.kind, Last(i.path)>>)
        At(p) == Max({k \in DOMAIN kept : kept[k].path = p})
    IN  [p \in {kept[k].path : k \in DOMAIN kept} |-> Doc(kept[At(p)])]

\* A document for each operation: its summary, its description and its parameters.
Openapi(paths, base) ==
    LET Title(p, m) == IF paths[p].operations[m].id = "none" THEN <<m, p>> ELSE <<paths[p].operations[m].id>>
        Body(op) == <<op.summary, op.description, op.parameters>>
        Doc(p, m) == NewDocument(<<m, p>>, Title(p, m), <<[level |-> 1, text |-> Title(p, m)]>>,
                                 Body(paths[p].operations[m]), IF base = "none" THEN <<base>> ELSE <<base, "#", m, p>>)
        Of(p) == LET present == SelectSeq(OperationMethods, LAMBDA m : m \in DOMAIN paths[p].operations)
                 IN  [k \in DOMAIN present |-> Doc(p, present[k])]
    IN  FlattenSeq([k \in 1..Cardinality(DOMAIN paths) |-> Of(SetToSortSeq(DOMAIN paths, <)[k])])

\* A page's text: a line loses the blanks around it, and blank lines in a row become one.
CollapseBlankLines(lines) ==
    LET Step(s, line) ==
            IF line.kind # "blank" THEN Append(s, [line EXCEPT !.indent = 0])
            ELSE IF s = << >> \/ Last(s).kind = "blank" THEN s
            ELSE Append(s, line)
        out == FoldLeft(Step, << >>, lines)
    IN  IF out # << >> /\ Last(out).kind = "blank" THEN Front(out) ELSE out

\* Letters and digits in lower case, a hyphen between what is left of the others.
Slugify(text) ==
    LET Step(s, c) ==
            IF c.plain THEN Append(s, c.lower)
            ELSE IF s = << >> \/ Last(s) = "-" THEN s ELSE Append(s, "-")
        out == FoldLeft(Step, << >>, text)
    IN  IF out # << >> /\ Last(out) = "-" THEN Front(out) ELSE out

ChunkUrl(url, heading) == IF url = << >> \/ Slugify(heading) = << >> THEN << >> ELSE url \o <<"#", Slugify(heading)>>

-----------------------------------------------------------------------------
(* The licence, and the pack it lets in.                                   *)

NoLicence == [code |-> "ok", found |-> FALSE, spdx |-> "", text |-> "blank"]
Failed    == [NoLicence EXCEPT !.code = "ToolFailed"]

\* The identifier a text declares, or the first licence its words name.
GuessSpdx(text) ==
    LET named == SelectSeq(KnownMarkers, LAMBDA m : m \in text.names)
    IN  IF text.tag # "" THEN text.tag ELSE IF named = << >> THEN "" ELSE named[1]

\* The first of the names that is there, readable or not, then the key of a Cargo.toml.
DiscoverInDir(dir) ==
    LET there == SelectSeq(LicenceFileNames, LAMBDA n : n \in DOMAIN dir)
        file == dir[there[1]]
        cargo == dir["Cargo.toml"]
    IN  IF there # << >>
        THEN IF ~file.readable THEN Failed
             ELSE [code |-> "ok", found |-> TRUE, spdx |-> GuessSpdx(file.text), text |-> file.text.words]
        ELSE IF "Cargo.toml" \notin DOMAIN dir THEN NoLicence
        ELSE IF ~cargo.readable THEN Failed
        ELSE IF cargo.text.tag = "" THEN NoLicence
        ELSE [code |-> "ok", found |-> TRUE, spdx |-> cargo.text.tag, text |-> "tag"]

\* The first of the conventional addresses that answers with a text that is not blank.
DiscoverViaFetcher(answers) ==
    LET good == SelectSeq(ConventionalPaths,
                          LAMBDA p : p \in DOMAIN answers /\ answers[p].readable /\ answers[p].text.words # "blank")
        text == answers[good[1]].text
    IN  IF good = << >> THEN NoLicence
        ELSE [code |-> "ok", found |-> TRUE, spdx |-> GuessSpdx(text), text |-> text.words]

Gate(licence, overridden) == licence.found \/ overridden

\* Only a directory has a place to look; a site has one when there is a fetcher.
DiscoverLicence(kind, dir, fetcher) ==
    CASE kind \in {"localdir", "git"} -> DiscoverInDir(dir)
      [] kind = "sitemap" -> IF fetcher = << >> THEN NoLicence ELSE DiscoverViaFetcher(fetcher[1])
      [] OTHER -> NoLicence

\* What add refuses, in its order, before it writes anything.
Admit(documents, explicit, discovered, overridden) ==
    LET licence == IF explicit.found THEN explicit ELSE discovered
    IN  IF documents.code # "ok" THEN documents.code
        ELSE IF documents.documents = << >> THEN "ToolFailed"
        ELSE IF ~explicit.found /\ discovered.code # "ok" THEN discovered.code
        ELSE IF ~Gate(licence, overridden) THEN "PackNoLicence"
        ELSE "ok"

\* The kind that was named, or localdir for a directory when none was.
SourceKind(named, isDir) == IF named # "none" THEN named ELSE IF isDir THEN "localdir" ELSE "unknown"

\* `dark pack add`: no fetcher, no licence of its own, and nothing overridden.
RunAdd(named, isDir, readable, dir, documents) ==
    LET kind == SourceKind(named, isDir)
    IN  IF kind \in {"unknown", "sitemap"} THEN "refused"
        ELSE IF kind \notin {"localdir", "git"} /\ ~readable THEN "refused"
        ELSE Admit(documents, NoLicence, DiscoverLicence(kind, dir, << >>), FALSE)

-----------------------------------------------------------------------------
(* Vectors.                                                                *)

Magnitude(x) == IF x < 0 THEN -x ELSE x

\* To the nearest, and halves away from nought.
Rounded(a, b) == IF a >= 0 THEN (2 * a + b) \div (2 * b) ELSE -((2 * (-a) + b) \div (2 * b))

Quantize(vector) ==
    LET largest == Max({0} \union {Magnitude(vector[k]) : k \in DOMAIN vector})
    IN  [scale |-> largest, values |-> [k \in DOMAIN vector |-> IF largest = 0 THEN 0 ELSE Rounded(vector[k] * QuantMax, largest)]]

Build(vectors) ==
    LET dim == IF vectors = << >> THEN 0 ELSE Len(vectors[1])
    IN  [ok |-> \A k \in DOMAIN vectors : Len(vectors[k]) = dim, dim |-> dim,
         vectors |-> [k \in DOMAIN vectors |-> Quantize(vectors[k])]]

Dot(u, v) == FoldLeftDomain(LAMBDA sum, k : sum + u[k] * v[k], 0, u)

\* Cosines against one query, compared through their squares; a zero vector's is zero.
CloserTo(query, u, v) ==
    LET Signed(w) == Dot(w, query) * Magnitude(Dot(w, query))
        Norm(w) == IF Dot(w, w) = 0 THEN 1 ELSE Dot(w, w)
    IN  Signed(u) * Norm(v) > Signed(v) * Norm(u)

\* Every vector is compared; of equals the earlier is first.
SearchDense(index, query, topK) ==
    LET at(k) == index.vectors[k].values
        order == SetToSortSeq(DOMAIN index.vectors,
                     LAMBDA j, k : CloserTo(query, at(j), at(k)) \/ (~CloserTo(query, at(k), at(j)) /\ j < k))
    IN  IF index.vectors # << >> /\ Len(query) # index.dim THEN [ok |-> FALSE, hits |-> << >>]
        ELSE [ok |-> TRUE, hits |-> SubSeq(order, 1, Min({topK, Len(order)}))]

Magic == 77
FormatVersion == 1

\* A unit is a field of the file: the magic, the version, the width, how many, the vectors.
ToBytes(index) ==
    <<Magic, FormatVersion, index.dim, Len(index.vectors)>> \o
        FlattenSeq([k \in DOMAIN index.vectors |-> <<index.vectors[k].scale>> \o index.vectors[k].values])

\* What stands after the last vector is not looked at.
FromBytes(bytes) ==
    LET width == bytes[3] + 1
        Start(k) == 4 + (k - 1) * width
        ok == /\ Len(bytes) >= 4 /\ bytes[1] = Magic /\ bytes[2] = FormatVersion
              /\ Len(bytes) >= 4 + bytes[4] * width
    IN  IF ~ok THEN [ok |-> FALSE, dim |-> 0, vectors |-> << >>]
        ELSE [ok |-> TRUE, dim |-> bytes[3],
              vectors |-> [k \in 1..bytes[4] |-> [scale |-> bytes[Start(k) + 1],
                                                  values |-> SubSeq(bytes, Start(k) + 2, Start(k) + width)]]]

\* What the commands write of a model: the width is not known yet, and stays so.
EmbedBlock(model) == [model |-> model, dim |-> 0, quant |-> "int8"]

\* The first field that differs.
CompareEmbed(pack, current) ==
    LET differing == SelectSeq(<<"model", "dim", "quant">>,
            LAMBDA f : CASE f = "model" -> pack.model # current.model
                         [] f = "dim" -> pack.dim # current.dim
                         [] OTHER -> pack.quant # current.quant)
    IN  IF differing = << >> THEN "match" ELSE differing[1]

\* The tiers an answer draws on; the gate of the last is SlowIsLast of Lexicon.
TiersUsed(index, hasEmbedder, block, current) ==
    LET dense == hasEmbedder /\ index.vectors # << >> /\ CompareEmbed(block, current) = "match"
    IN  IF dense THEN <<"bm25", "dense">> ELSE <<"bm25">>
=============================================================================
