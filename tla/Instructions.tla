----------------------------- MODULE Instructions -----------------------------
(***************************************************************************)
(* The instruction files a turn is given: the chain of AGENTS.md files and *)
(* its budget, the ones found during a turn, the settings a repository may *)
(* ask for, and the section the program writes itself.                     *)
(* Source: crates/dark-agentsmd/src/{resolve,chain,config_block,write,     *)
(* explain,working_set}.rs.                                                *)
(*                                                                         *)
(* A directory is the sequence of its components below the repository's    *)
(* root, << >> the root itself; components are numbers, in their order.     *)
(* A text is a sequence of kinds of line, and each line is a token.         *)
(***************************************************************************)
EXTENDS Integers, SequencesExt, FiniteSetsExt

CONSTANT MarkerTokens   \* what the note of a truncation costs

-----------------------------------------------------------------------------
(* Directories.                                                            *)

\* "." is dropped and ".." takes the component before it away, when there is one.
Normalize(path) ==
    FoldLeft(LAMBDA kept, c :
                 CASE c = "." -> kept
                   [] c = ".." /\ kept # << >> /\ Last(kept) # ".." -> Front(kept)
                   [] OTHER -> Append(kept, c),
             << >>, path)

\* The directories below the root on the way to one inside it.
DirectoryChain(dir) == [k \in DOMAIN dir |-> SubSeq(dir, 1, k)]

Precedes(one, other) ==
    \/ one # other /\ IsPrefix(one, other)
    \/ \E k \in DOMAIN one \intersect DOMAIN other :
          one[k] < other[k] /\ \A j \in 1..(k - 1) : one[j] = other[j]

NestedDirs(leaves) ==
    SetToSortSeq(UNION {ToSet(DirectoryChain(leaf)) : leaf \in leaves}, Precedes)

TreeDistance(one, other) ==
    LET common == Len(LongestCommonPrefix({one, other}))
    IN  (Len(one) - common) + (Len(other) - common)

-----------------------------------------------------------------------------
(* The chain.                                                              *)

\* The files of a directory by rank: the override, AGENTS.md, then the fallbacks.
FindInDir(files, honourOverrides) ==
    LET allowed == SelectSeq(<<"override", "agents", "claude", "gemini">>,
                       LAMBDA name : name \in files /\ (name = "override" => honourOverrides))
    IN  IF allowed = << >> THEN "none" ELSE Head(allowed)

\* role: the depth of the directory, or that of the person's own file.
Global == -1
Entry(role, dir, name, text) ==
    [role |-> role, dir |-> dir, kind |-> name, tokens |-> Len(text), text |-> text,
     truncated |-> FALSE]

BuildEntry(role, dir, tree, config) ==
    LET name == FindInDir(DOMAIN tree, config.honourOverrides)
    IN  IF name = "none" THEN << >> ELSE <<Entry(role, dir, name, tree[name])>>

\* An override clears the chain so far, whatever directories that is of.
ApplyEntry(entries, found) ==
    IF found # << >> /\ found[1].kind = "override" THEN found ELSE entries \o found

Unbudgeted(repo, leaves, config) ==
    LET nested == NestedDirs(leaves)
        founds == <<BuildEntry(Global, << >>, repo.global, config),
                    BuildEntry(0, << >>, repo.dirs[<< >>], config)>>
                  \o [k \in DOMAIN nested |->
                         BuildEntry(Len(nested[k]), nested[k], repo.dirs[nested[k]], config)]
    IN  FoldLeft(ApplyEntry, << >>, founds)

-----------------------------------------------------------------------------
(* The budget.                                                             *)

Total(entries) == FoldLeft(LAMBDA n, e : n + e.tokens, 0, entries)

Nested(entries) == {k \in DOMAIN entries : entries[k].role \notin {Global, 0}}
Distance(entry, leaves) == Min({TreeDistance(entry.dir, leaf) : leaf \in leaves})

\* Of those as far, the one listed last.
Furthest(entries, leaves) ==
    LET far(k) == Distance(entries[k], leaves)
    IN  Max({k \in Nested(entries) : \A j \in Nested(entries) : far(j) <= far(k)})

RECURSIVE DropNested(_, _, _)
DropNested(entries, leaves, budget) ==
    IF Total(entries) <= budget \/ Nested(entries) = {} THEN entries
    ELSE DropNested(RemoveAt(entries, Furthest(entries, leaves)), leaves, budget)

Fences == {"ticks", "tildes"}

\* The marker of the fence a line leaves open, none when it leaves none.
FenceAfter(open, line) ==
    CASE line \in Fences /\ open = "none" -> line
      [] line \in Fences /\ open = line -> "none"
      [] OTHER -> open
FenceAt(text, k) == FoldLeft(FenceAfter, "none", SubSeq(text, 1, k))

\* Where a text may be cut, as the lines before the cut: at a heading, at the first
\* line of a paragraph, after a line that ends a sentence; never inside a fence.
OutsideFences(text) == {k \in DOMAIN text : FenceAt(text, k - 1) = "none" /\ text[k] \notin Fences}
Boundaries(text) ==
    <<{k - 1 : k \in {k \in OutsideFences(text) : text[k] = "heading"}},
      {k - 1 : k \in {k \in OutsideFences(text) : k > 1 /\ text[k - 1] = "blank" /\ text[k] # "blank"}},
      {k \in OutsideFences(text) : text[k] = "sentence"}>>

\* The last boundary of the best sort that has one that fits; nothing when none has.
TruncateAtBoundary(text, most) ==
    LET fitting(sort) == {cut \in Boundaries(text)[sort] : 0 < cut /\ cut < Len(text) /\ cut <= most}
        sorts == {sort \in 1..3 : fitting(sort) # {}}
    IN  CASE Len(text) <= most -> [text |-> text, tokens |-> Len(text), truncated |-> FALSE]
          [] Len(text) > most /\ sorts = {} -> [text |-> << >>, tokens |-> 0, truncated |-> TRUE]
          [] OTHER -> LET cut == Max(fitting(Min(sorts)))
                      IN  [text |-> SubSeq(text, 1, cut), tokens |-> cut + MarkerTokens,
                           truncated |-> TRUE]

\* Nested files go first, then the root's is cut; what is still over is only warned of.
EnforceBudget(entries, leaves, budget) ==
    LET kept == DropNested(entries, leaves, budget)
        roots == {k \in DOMAIN kept : kept[k].role = 0}
        root == Min(roots)
        others == Total(kept) - kept[root].tokens
        cut == TruncateAtBoundary(kept[root].text, Max({0, budget - others}))
    IN  IF Total(kept) <= budget \/ roots = {} THEN kept
        ELSE [kept EXCEPT ![root] = [@ EXCEPT !.text = cut.text, !.tokens = cut.tokens,
                                              !.truncated = cut.truncated]]

Resolve(repo, leaves, config) ==
    IF ~config.enabled THEN [entries |-> << >>, known |-> {}]
    ELSE [entries |-> EnforceBudget(Unbudgeted(repo, leaves, config), leaves, config.budget),
          known |-> {<< >>} \union ToSet(NestedDirs(leaves))]

\* A path touched during the turn: the files on the way to it that neither the chain
\* nor an earlier one covers, for the tail.  A directory is seen even when reading
\* its file fails, and with it what the same call had found.
DiscoverForTail(chain, seen, repo, dir, config) ==
    LET new == SelectSeq(DirectoryChain(dir), LAMBDA d : d \notin chain.known \union seen)
        found == [k \in DOMAIN new |-> BuildEntry(Len(new[k]), new[k], repo.dirs[new[k]], config)]
        failing == {k \in DOMAIN new : new[k] \in repo.unreadable}
    IN  CASE ~config.enabled -> [seen |-> seen, additions |-> << >>, failed |-> FALSE]
          [] config.enabled /\ failing # {} ->
               [seen |-> seen \union {new[k] : k \in 1..Min(failing)},
                additions |-> << >>, failed |-> TRUE]
          [] OTHER -> [seen |-> seen \union ToSet(new), additions |-> FlattenSeq(found),
                       failed |-> FALSE]

-----------------------------------------------------------------------------
(* What explaining a chain warns of.                                       *)

Shingles(text, size) ==
    CASE text = << >> -> {}
      [] text # << >> /\ Len(text) < size -> {text}
      [] OTHER -> {SubSeq(text, p, p + size - 1) : p \in 1..(Len(text) - size + 1)}

\* More than two fifths of the shingles of the two texts are in both.
OverlapsReadme(text, readme, size) ==
    LET mine == Shingles(text, size)
        theirs == Shingles(readme, size)
    IN  /\ mine # {} /\ theirs # {}
        /\ 10 * Cardinality(mine \intersect theirs) > 4 * Cardinality(mine \union theirs)

QualityWarnings(entries, readme, size, mostLines) ==
    LET roots == SelectSeq(entries, LAMBDA e : e.role = 0)
    IN  IF roots = << >> THEN {}
        ELSE {w \in {"overlap", "long"} :
                \/ w = "overlap" /\ roots[1].kind = "agents" /\ OverlapsReadme(roots[1].text, readme, size)
                \/ w = "long" /\ Len(roots[1].text) > mostLines}

-----------------------------------------------------------------------------
(* The settings a repository asks for.                                     *)

\* The text between the first opening line and the next fence; none without either.
FindFencedBlock(text) ==
    LET opening == {k \in DOMAIN text : text[k] = "darkharness"}
        closing == {k \in DOMAIN text : k > Min(opening) /\ text[k] \in {"ticks", "darkharness"}}
    IN  IF opening = {} THEN << >> ELSE IF closing = {} THEN << >>
        ELSE <<SubSeq(text, Min(opening) + 1, Min(closing) - 1)>>

Rank == [allow |-> 0, confirm |-> 1, deny |-> 2]
Actions == {"read", "write", "exec"}

\* Only what is at least as strict as the setting in force is accepted; what a block
\* may not set, or sets wrongly, is rejected by name and the rest still read.
AcceptsPolicy(key, value, current) ==
    key \in Actions /\ value \in DOMAIN Rank /\ Rank[value] >= Rank[current[key]]
AcceptsTier(value, current) == value \in 1..3 /\ value <= current.tier

Validate(block, current) ==
    LET Accepted(item) ==
            CASE item.table = "policy" -> AcceptsPolicy(item.key, item.value, current)
              [] item.table = "tools" -> item.key = "tier_override" /\ AcceptsTier(item.value, current)
              [] item.table = "plan" -> item.key = "axes"
              [] item.table = "agents_md" -> item.key = "budget_tokens" /\ item.value \in Nat
              [] OTHER -> FALSE
    IN  [accepted |-> {item \in block : Accepted(item)},
         rejected |-> {item \in block : ~Accepted(item)}]

-----------------------------------------------------------------------------
(* The section the program writes.                                         *)

Section(body) == <<"BEGIN">> \o body \o <<"END">>

Place(text, mark) == SelectInSeq(text, LAMBDA line : line = mark)

\* The text with the region between the marks replaced; none when they are not there.
ReplaceRegion(text, body) ==
    LET begin == Place(text, "BEGIN")
        end == Place(text, "END")
    IN  IF begin = 0 \/ end < begin THEN << >>
        ELSE <<SubSeq(text, 1, begin - 1) \o Section(body) \o SubSeq(text, end + 1, Len(text))>>

\* A file is at most one text.  It is written beside the old one and renamed over it.
Upsert(file, body) ==
    LET replaced == ReplaceRegion(file[1], body)
        marked == Place(body, "BEGIN") # 0 \/ Place(body, "END") # 0
    IN  CASE marked -> [wrote |-> "refused", file |-> file]
          [] ~marked /\ file = << >> -> [wrote |-> "created", file |-> <<Section(body)>>]
          [] ~marked /\ file # << >> /\ replaced = << >> -> [wrote |-> "refused", file |-> file]
          [] OTHER -> [wrote |-> IF replaced = file THEN "unchanged" ELSE "replaced",
                       file |-> replaced]
=============================================================================
