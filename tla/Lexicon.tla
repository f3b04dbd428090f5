-------------------------------- MODULE Lexicon --------------------------------
(***************************************************************************)
(* Documentation packs, the text: how a document is cut into chunks, how   *)
(* its words and vectors are indexed, and how ranked chunks are shaped     *)
(* into an answer.                                                         *)
(* Source: crates/dark-lexicon/src/{chunk,index,retrieve}.                 *)
(*                                                                         *)
(* A line is [kind, mark, name]: kind is heading, fence, blank or text;    *)
(* mark the level of a heading or the marker of a fence.  A line costs one *)
(* token, a blank one none.  A breadcrumb is a sequence of names, the      *)
(* library and the title of the document first.  Scores are integers.      *)
(***************************************************************************)
EXTENDS Integers, SequencesExt, FiniteSetsExt

CONSTANTS
    MaxTokens, MinTokens,   \* what a chunk may hold, and what is too little
    MaxChunkTokens,         \* what one chunk may take of an answer
    RrfK,                   \* the constant of the reciprocal ranks
    RerankThreshold,        \* how long a rerank may take
    StemSuffixes            \* the suffixes of light_stem, in their order

-----------------------------------------------------------------------------
(* Chunks.                                                                 *)

NoFence == 0

\* A fence is closed by a line of its own marker only.
FenceAfter(open, line) ==
    IF line.kind # "fence" THEN open
    ELSE IF open = NoFence THEN line.mark
    ELSE IF open = line.mark THEN NoFence
    ELSE open

\* A heading inside a fence is text.
ClassifyLines(body) ==
    FoldLeft(LAMBDA s, line :
                 [open |-> FenceAfter(s.open, line),
                  lines |-> Append(s.lines, IF line.kind = "heading" /\ s.open # NoFence
                                            THEN [line EXCEPT !.kind = "text"] ELSE line)],
             [open |-> NoFence, lines |-> << >>], body).lines

HasBalancedFences(lines) == FoldLeft(FenceAfter, NoFence, lines) = NoFence

Tokens(lines) == Len(SelectSeq(lines, LAMBDA line : line.kind # "blank"))

FlushSection(s) ==
    [s EXCEPT !.lines = << >>,
              !.sections = IF Tokens(s.lines) = 0 THEN @
                           ELSE Append(@, [crumb |-> s.crumb, lines |-> s.lines])]

\* A heading closes the sections of its level and of the levels below it.
SplitIntoSections(root, body) ==
    LET Step(s, line) ==
            IF line.kind # "heading" THEN [s EXCEPT !.lines = Append(@, line)]
            ELSE LET kept == Cardinality({k \in DOMAIN s.levels : s.levels[k] < line.mark})
                 IN  [FlushSection(s) EXCEPT
                         !.crumb = Append(SubSeq(@, 1, kept), line.name),
                         !.levels = Append(SubSeq(@, 1, kept), line.mark)]
    IN  FlushSection(FoldLeft(Step,
            [crumb |-> root, levels |-> [k \in DOMAIN root |-> 0], lines |-> << >>, sections |-> << >>],
            ClassifyLines(body))).sections

\* Paragraphs, and fenced blocks whole; a fence left open runs to the end.
SplitIntoBlocks(lines) ==
    LET Close(s) == IF s.lines = << >> THEN s ELSE [s EXCEPT !.blocks = Append(@, s.lines), !.lines = << >>]
        Step(s, line) ==
            LET open == FenceAfter(s.open, line)
                base == IF s.open = NoFence /\ line.kind \in {"fence", "blank"} THEN Close(s) ELSE s
                with == [base EXCEPT !.open = open, !.lines = Append(@, line)]
            IN  CASE line.kind = "blank" /\ s.open = NoFence -> base
                  [] line.kind = "fence" /\ open = NoFence -> Close(with)
                  [] OTHER -> with
    IN  Close(FoldLeft(Step, [open |-> NoFence, lines |-> << >>, blocks |-> << >>], lines)).blocks

RawChunk(crumb, lines, tokens, oversize) ==
    [crumb |-> crumb, lines |-> lines, tokens |-> tokens, oversize |-> oversize, settled |-> FALSE]

FlushAccumulated(s, crumb) ==
    [s EXCEPT !.lines = << >>, !.tokens = 0,
              !.chunks = IF s.lines = << >> THEN @ ELSE Append(@, RawChunk(crumb, s.lines, s.tokens, FALSE))]

\* Blocks are taken together while they fit; one that never could is a chunk by itself.
SplitSection(section) ==
    LET Step(s, block) ==
            LET cost == Tokens(block)
                full == s.tokens > 0 /\ s.tokens + cost > MaxTokens
                base == IF cost > MaxTokens \/ full THEN FlushAccumulated(s, section.crumb) ELSE s
            IN  IF cost > MaxTokens
                THEN [base EXCEPT !.chunks = Append(@, RawChunk(section.crumb, block, cost, TRUE))]
                ELSE [base EXCEPT !.lines = @ \o block, !.tokens = @ + cost]
    IN  FlushAccumulated(FoldLeft(Step, [chunks |-> << >>, lines |-> << >>, tokens |-> 0],
                                  SplitIntoBlocks(section.lines)), section.crumb).chunks

ParentBreadcrumb(chunk) == IF chunk.crumb = << >> THEN << >> ELSE Front(chunk.crumb)

Undersized(chunks) ==
    {k \in DOMAIN chunks : chunks[k].tokens < MinTokens /\ ~chunks[k].oversize /\ ~chunks[k].settled}

\* The next sibling, else the one before: whichever has room first.
MergeTargets(chunks, small) ==
    LET siblings == {k \in DOMAIN chunks \ {small} : ParentBreadcrumb(chunks[k]) = ParentBreadcrumb(chunks[small])}
        forward == {k \in siblings : k > small}
        backward == {k \in siblings : k < small}
        nearest == (IF forward = {} THEN << >> ELSE <<Min(forward)>>)
                   \o (IF backward = {} THEN << >> ELSE <<Max(backward)>>)
    IN  SelectSeq(nearest, LAMBDA k : chunks[small].tokens + chunks[k].tokens <= MaxTokens)

\* Positions are compared after the removal.
MergeOnce(chunks) ==
    IF Undersized(chunks) = {} THEN chunks
    ELSE LET small == Min(Undersized(chunks))
             targets == MergeTargets(chunks, small)
             donor == chunks[small]
             at == IF Head(targets) > small THEN Head(targets) - 1 ELSE Head(targets)
         IN  IF targets = << >> THEN [chunks EXCEPT ![small].settled = TRUE]
             ELSE [RemoveAt(chunks, small) EXCEPT
                      ![at].lines = IF at < small THEN donor.lines \o @ ELSE @ \o donor.lines,
                      ![at].tokens = @ + donor.tokens]

\* Every round removes a chunk or settles one.
MergeUndersized(chunks) ==
    FoldLeft(LAMBDA cs, k : MergeOnce(cs), chunks, [k \in 1..(2 * Len(chunks)) |-> k])

Finalize(chunks) ==
    [k \in DOMAIN chunks |->
        [id |-> <<chunks[k].crumb, k>>, crumb |-> chunks[k].crumb, lines |-> chunks[k].lines,
         tokens |-> chunks[k].tokens, oversize |-> chunks[k].oversize]]

ChunkDocument(root, body) ==
    LET sections == SplitIntoSections(root, body)
    IN  Finalize(MergeUndersized(FlattenSeq([k \in DOMAIN sections |-> SplitSection(sections[k])])))

-----------------------------------------------------------------------------
(* Words and postings.  A word is a sequence of characters; Upper, Lower   *)
(* and Fold say of one whether it is a capital, and its lower case.        *)

Upper(c) == c \in {"A", "B", "S"}
Lower(c) == c \in {"a", "b", "s"}
LowerCase(word) ==
    [k \in DOMAIN word |-> CASE word[k] = "A" -> "a" [] word[k] = "B" -> "b" [] word[k] = "S" -> "s"
                             [] OTHER -> word[k]]

IsIdentifierLike(word) ==
    \/ "_" \in ToSet(word)
    \/ (\E c \in ToSet(word) : Upper(c)) /\ (\E c \in ToSet(word) : Lower(c))

\* A piece begins at a capital after a small letter, and at the last capital of an acronym.
SplitCamelCase(word) ==
    LET Starts(k) ==
            \/ k = 1
            \/ Lower(word[k - 1]) /\ Upper(word[k])
            \/ /\ Upper(word[k - 1]) /\ Upper(word[k])
               /\ k < Len(word) /\ Lower(word[k + 1])
    IN  FoldLeftDomain(LAMBDA pieces, k :
            IF Starts(k) THEN Append(pieces, <<word[k]>>)
            ELSE Append(Front(pieces), Append(Last(pieces), word[k])), << >>, word)

SplitIdentifier(word) ==
    LET parts == FoldLeft(LAMBDA done, c :
                     IF c = "_" THEN Append(done, << >>) ELSE Append(Front(done), Append(Last(done), c)),
                     <<<< >>>>, word)
        kept == SelectSeq(parts, LAMBDA p : p # << >>)
    IN  FlattenSeq([k \in DOMAIN kept |-> SplitCamelCase(kept[k])])

LightStem(word) ==
    LET fits == SelectSeq(StemSuffixes, LAMBDA s : IsSuffix(s, word) /\ Len(word) - Len(s) >= 3)
    IN  IF Len(word) <= 3 \/ fits = << >> THEN word
        ELSE SubSeq(word, 1, Len(word) - Len(Head(fits)))

\* The pieces of an identifier are not stemmed.
TokensOfWord(word) ==
    LET whole == LowerCase(word)
        parts == SplitIdentifier(word)
        lower == [k \in DOMAIN parts |-> LowerCase(parts[k])]
    IN  IF IsIdentifierLike(word) THEN <<whole>> \o SelectSeq(lower, LAMBDA p : p # whole)
        ELSE <<LightStem(whole)>>

Tokenize(words) == FlattenSeq([k \in DOMAIN words |-> TokensOfWord(words[k])])

\* Who holds a term and how often, in the order of the chunks; texts are sequences of words.
Postings(texts, term) ==
    LET Freq(d) == Cardinality({k \in DOMAIN Tokenize(texts[d]) : Tokenize(texts[d])[k] = term})
        docs == SetToSortSeq({d \in DOMAIN texts : Freq(d) > 0}, <)
    IN  [k \in DOMAIN docs |-> [doc |-> docs[k], freq |-> Freq(docs[k])]]

Bm25Hits(texts, query) ==
    UNION {{p.doc : p \in ToSet(Postings(texts, term))} : term \in ToSet(Tokenize(query))}

\* The file holds the gaps between the chunks of a term.
Deltas(docs) == [k \in DOMAIN docs |-> IF k = 1 THEN docs[1] ELSE docs[k] - docs[k - 1]]
FromDeltas(deltas) ==
    FoldLeft(LAMBDA docs, d : Append(docs, IF docs = << >> THEN d ELSE Last(docs) + d), << >>, deltas)

\* Groups of base - 1 bits, the lowest first, all but the last with their high bit set.
WriteVarint(value, base) ==
    LET digits[v \in 0..value] ==
            IF v < base THEN <<[more |-> FALSE, bits |-> v]>>
            ELSE <<[more |-> TRUE, bits |-> v % base]>> \o digits[v \div base]
    IN  digits[value]

\* The group that begins below the width may reach past it: those bits are shifted out.
ReadVarint(groups, bitsPerGroup, width) ==
    LET end == SelectInSeq(groups, LAMBDA g : ~g.more)
        last == IF end = 0 THEN Len(groups) ELSE end
        Value == FoldLeftDomain(LAMBDA sum, k : (sum + groups[k].bits * 2^(bitsPerGroup * (k - 1))) % 2^width,
                                0, SubSeq(groups, 1, last))
    IN  IF end = 0 \/ bitsPerGroup * (last - 1) >= width THEN [ok |-> FALSE, value |-> 0]
        ELSE [ok |-> TRUE, value |-> Value]

-----------------------------------------------------------------------------
(* Ranking.  A hit is [at, score], at the position of its chunk.           *)

ByScore(one, other) == one.score > other.score \/ (one.score = other.score /\ one.at < other.at)

\* Scale is a multiple of every RrfK + rank, so that the shares are whole.
ReciprocalRankFusion(lists, scale) ==
    LET Share(list, at) ==
            SumSet({0} \union {scale \div (RrfK + k) : k \in {j \in DOMAIN list : list[j].at = at}})
        seen == UNION {{hit.at : hit \in ToSet(list)} : list \in ToSet(lists)}
        Total(at) == FoldLeft(LAMBDA sum, list : sum + Share(list, at), 0, lists)
    IN  SetToSortSeq({[at |-> at, score |-> Total(at)] : at \in seen}, ByScore)

\* outcome: how long the model took, and what it answered: error, or <<positions, scores>>.
\* A rerank that is too slow is the last one, and its answer is used.
Rerank(disabled, fused, chunks, outcome) ==
    LET known == SelectSeq(outcome.scored, LAMBDA s : s.at \in DOMAIN fused)
        hits == [k \in DOMAIN known |-> [at |-> fused[known[k].at].at, score |-> known[k].score]]
        asked == ~disabled /\ fused # << >> /\ \A hit \in ToSet(fused) : hit.at \in DOMAIN chunks
    IN  IF ~asked THEN [disabled |-> disabled, used |-> FALSE, hits |-> fused]
        ELSE [disabled |-> outcome.took > RerankThreshold, used |-> ~outcome.error,
              hits |-> IF outcome.error THEN fused ELSE SortSeq(hits, ByScore)]

Search(chunks, lists, pool, disabled, gate, scale) ==
    LET all == ReciprocalRankFusion(lists, scale)
        fused == SubSeq(all, 1, Min({Len(all), Max({pool, 1})}))
        reranked == Rerank(disabled, fused, chunks, gate[1])
    IN  IF gate = << >> THEN [disabled |-> disabled, used |-> FALSE, hits |-> fused] ELSE reranked

-----------------------------------------------------------------------------
(* The answer.                                                             *)

DocumentKey(crumb) == SubSeq(crumb, 1, Min({Len(crumb), 2}))

\* One breadcrumb is above the other, or they are the same.
IsDuplicate(crumb, kept) == \E k \in kept : IsPrefix(k, crumb) \/ IsPrefix(crumb, k)

\* The share of its words that the limit is of its tokens, at least one.
Truncated(chunk) ==
    LET words == Len(chunk.words)
        share == (words * MaxChunkTokens) \div chunk.tokens
    IN  IF chunk.tokens <= MaxChunkTokens \/ words = 0 THEN [words |-> chunk.words, tokens |-> chunk.tokens]
        ELSE [words |-> SubSeq(chunk.words, 1, Max({1, Min({share, words})})), tokens |-> MaxChunkTokens]

DocumentTotal(chunks, key) ==
    FoldLeft(LAMBDA sum, c : IF DocumentKey(c.crumb) = key THEN sum + c.tokens ELSE sum, 0, chunks)

\* The best chunk of a document is not capped; the best of all not by the budget either.
Fill(chunks, ranked, budget) ==
    LET Step(s, hit) ==
            LET chunk == chunks[hit.at]
                snippet == Truncated(chunk)
                key == DocumentKey(chunk.crumb)
                used == FoldLeft(LAMBDA sum, o : IF o.key = key THEN sum + o.tokens ELSE sum, 0, s.out)
                spent == FoldLeft(LAMBDA sum, o : sum + o.tokens, 0, s.out)
                capped == used > 0 /\ used + snippet.tokens > (DocumentTotal(chunks, key) * 15) \div 100
            IN  IF s.full \/ hit.at \notin DOMAIN chunks THEN s
                ELSE IF IsDuplicate(chunk.crumb, {chunks[o.at].crumb : o \in ToSet(s.out)}) THEN s
                ELSE IF s.out # << >> /\ spent + snippet.tokens > budget THEN [s EXCEPT !.full = TRUE]
                ELSE IF capped THEN s
                ELSE [s EXCEPT !.out = Append(@,
                        [at |-> hit.at, key |-> key, words |-> snippet.words, tokens |-> snippet.tokens])]
    IN  FoldLeft(Step, [full |-> FALSE, out |-> << >>], ranked).out
================================================================================
