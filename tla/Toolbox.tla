-------------------------------- MODULE Toolbox --------------------------------
(***************************************************************************)
(* What the tools compute on the way to their effects: the words and the   *)
(* directory of a command, the cut of its output, the paths a file tool    *)
(* accepts, the pages of a file, the text of a patch, the places an edit   *)
(* might have meant, the lists of a search and the tools a model is given. *)
(* Source: crates/dark-tools/src/{exec,fs,search,registry}.  What the      *)
(* tools do to the disk and to processes is in FileTools and Commands.     *)
(*                                                                         *)
(* A command line is a sequence of characters; a line of a file is a value *)
(* with "" for the empty one; a path is a sequence of components.          *)
(***************************************************************************)
EXTENDS Integers, SequencesExt, FiniteSetsExt, Functions

CONSTANTS
    OutputCap, HeadNumerator, HeadDenominator, \* of cap_output
    MaxLines,       \* of read_file
    HardMaxMatches, CollectCeiling,            \* of grep
    MaxMatches,     \* of glob
    CandidateCount, \* of edit_file
    SmallCap, MidCap                           \* tool_cap of SMALL and of MID

-----------------------------------------------------------------------------
(* run_command's arguments.                                                *)

Blanks == {" ", "\t", "\n", "\r"}

Put(s, c) == [s EXCEPT !.word = Append(@, c), !.inWord = TRUE, !.escape = FALSE]

\* One character.  escape: the last character was a backslash that may protect this.
Scan(s, c) ==
    IF s.quote = "double" /\ s.escape
    THEN IF c \in {"\"", "\\"} THEN Put(s, c) ELSE Put(Put(s, "\\"), c)
    ELSE IF s.quote = "none" /\ s.escape THEN Put(s, c)
    ELSE IF s.quote = "single" THEN IF c = "'" THEN [s EXCEPT !.quote = "none"] ELSE Put(s, c)
    ELSE IF c = "\\" THEN [s EXCEPT !.escape = TRUE, !.inWord = TRUE]
    ELSE IF c = "\"" THEN [s EXCEPT !.quote = IF @ = "double" THEN "none" ELSE "double",
                                    !.inWord = TRUE]
    ELSE IF s.quote = "double" THEN Put(s, c)
    ELSE IF c = "'" THEN [s EXCEPT !.quote = "single", !.inWord = TRUE]
    ELSE IF c \notin Blanks THEN Put(s, c)
    ELSE IF s.inWord THEN [s EXCEPT !.words = Append(@, s.word), !.word = << >>, !.inWord = FALSE]
    ELSE s

Split(command) ==
    LET end == FoldLeft(Scan, [words |-> << >>, word |-> << >>, inWord |-> FALSE,
                               quote |-> "none", escape |-> FALSE], command)
    IN  IF end.quote # "none" \/ end.escape THEN {}
        ELSE {IF end.inWord THEN Append(end.words, end.word) ELSE end.words}

Trimmed(command) ==
    LET solid == {k \in DOMAIN command : command[k] \notin Blanks}
    IN  IF solid = {} THEN << >> ELSE SubSeq(command, Min(solid), Max(solid))

\* A normal component, or "/", "." and "..".  ".." takes away even the "/".
LexicalComponents(path) ==
    FoldLeft(LAMBDA at, c : CASE c = "." -> at
                              [] c = ".." -> IF at = << >> THEN at ELSE Front(at)
                              [] c = "/" -> <<"/">>
                              [] OTHER -> Append(at, c),
             << >>, path)

ResolveCwd(root, cwd) ==
    IF cwd = << >> THEN {root}
    ELSE LET joined == IF Head(cwd) = "/" THEN cwd ELSE root \o cwd
         IN  IF IsPrefix(LexicalComponents(root), LexicalComponents(joined))
             THEN {LexicalComponents(joined)} ELSE {}

\* What is started and where, or nothing: the arguments are refused, a shell has no one
\* to confirm it, or the directory is outside.
Invoke(args, root, present) ==
    LET command == Trimmed(args.command)
    IN  IF command = << >> \/ args.timeout = 0 \/ (args.shell /\ ~present) THEN {}
        ELSE {[argv |-> argv, cwd |-> cwd] :
                 argv \in IF args.shell THEN {<<"/bin/sh", "-c", command>>}
                          ELSE {words \in Split(command) : words # << >>},
                 cwd \in ResolveCwd(root, args.cwd)}

\* The head and the tail of a text that is too long, and how much is left out.
CapOutput(text) ==
    LET head == (OutputCap * HeadNumerator) \div HeadDenominator
        tail == OutputCap - head
    IN  IF Len(text) <= OutputCap THEN [head |-> text, elided |-> 0, tail |-> << >>]
        ELSE [head |-> SubSeq(text, 1, head), elided |-> Len(text) - head - tail,
              tail |-> SubSeq(text, Len(text) - tail + 1, Len(text))]

-----------------------------------------------------------------------------
(* The paths a file tool accepts.  links[p] is where the link at p leads,   *)
(* and there the set of paths that exist.                                  *)

Canonicalize(path, there, links) ==
    LET Step(p, c) == CASE c = "/" -> << >>
                        [] c = "." -> p
                        [] c = ".." -> IF p = << >> THEN p ELSE Front(p)
                        [] OTHER -> IF Append(p, c) \in DOMAIN links THEN links[Append(p, c)]
                                    ELSE Append(p, c)
    IN  FoldLeft(LAMBDA at, c : {Step(p, c) : p \in at} \intersect there, {<< >>}, path)

\* From the longest part of it that exists.
CheckSymlinkBoundary(root, joined, there, links) ==
    LET known == {n \in 0..Len(joined) : Canonicalize(SubSeq(joined, 1, n), there, links) # {}}
        rest == SubSeq(joined, Max(known) + 1, Len(joined))
    IN  \A base \in Canonicalize(SubSeq(joined, 1, Max(known)), there, links) :
            IsPrefix(CHOOSE r \in Canonicalize(root, there, links) : TRUE, base \o rest)

ResolvePath(root, requested, there, links) ==
    LET joined == root \o SelectSeq(requested, LAMBDA c : c # ".")
    IN  IF {"/", "..", "c:"} \intersect ToSet(requested) # {} THEN {}
        ELSE IF CheckSymlinkBoundary(root, joined, there, links) THEN {joined} ELSE {}

\* grep has its own: an absolute path may be inside, and ".." may stay inside.
SearchTarget(root, sub, there, links) ==
    {t \in Canonicalize(root \o sub, there, links) :
        \A r \in Canonicalize(root, there, links) : IsPrefix(r, t)}

\* The lines read_file shows from an offset, and where it says to go on.
ReadPage(file, offset, limit) ==
    LET start == Min({offset, Len(file)})
        end == Min({start + Max({1, Min({limit, MaxLines})}), Len(file)})
    IN  [page |-> SubSeq(file, start + 1, end), next |-> IF end < Len(file) THEN {end} ELSE {}]

-----------------------------------------------------------------------------
(* A patch.  A line of it is [kind, text]; kinds "---" and "+++" carry a    *)
(* path, and what a removed or an added line of the same characters says   *)
(* (raw); "@@" carries a start and the counts of old and new lines.        *)

\* What a text made of lines is: one of a single empty line is nothing.
Text(content, newline) ==
    IF content \in {<< >>, <<"">>} THEN [content |-> << >>, newline |-> FALSE]
    ELSE IF newline \/ Last(content) # "" THEN [content |-> content, newline |-> newline]
    ELSE [content |-> Front(content), newline |-> TRUE]

NewFile(old, new) == [old |-> old, new |-> new, hunks |-> << >>, oldBare |-> FALSE, newBare |-> FALSE]

\* The marker qualifies the side of the line before it.
Bare(file, prefix) == [file EXCEPT !.oldBare = @ \/ prefix # "+", !.newBare = @ \/ prefix # "-"]

\* A line of a hunk's body: a header's signs are those of a removed or an added line.
Body(line) ==
    CASE line.kind \in {" ", "-", "+"} -> {<<line.kind, line.text>>}
      [] line.kind = "---" -> {<<"-", line.raw>>}
      [] line.kind = "+++" -> {<<"+", line.raw>>}
      [] OTHER -> {}

Between(s, line) ==
    IF line.kind = "---" THEN [s EXCEPT !.at = "header", !.old = line.text]
    ELSE [s EXCEPT !.at = "between"]

Header(s, line) ==
    IF line.kind # "+++" THEN [s EXCEPT !.at = "error"]
    ELSE [s EXCEPT !.at = "hunks", !.files = Append(@, NewFile(s.old, line.text))]

\* After a file's header or a hunk of it: another hunk, else the file is done.
Hunks(s, line) ==
    LET f == Len(s.files)
    IN  IF line.kind = "bare" /\ s.at = "after"
        THEN [s EXCEPT !.at = "hunks", !.files[f] = Bare(@, s.prefix)]
        ELSE IF line.kind # "@@" THEN Between(s, line)
        ELSE [s EXCEPT !.at = IF line.olds + line.news = 0 THEN "after" ELSE "body",
                       !.olds = line.olds, !.news = line.news, !.prefix = " ",
                       !.files[f].hunks =
                           Append(@, [start |-> IF line.olds = 0 THEN line.start + 1 ELSE line.start,
                                      body |-> << >>])]

\* Within a hunk, until both counts are seen.  A blank line may stand for a blank line
\* of context, but only as the last.
InBody(s, line) ==
    LET f == Len(s.files)
        Left(n) == Max({n - 1, 0})
        Take(part) ==
            LET olds == IF part[1] = "+" THEN s.olds ELSE Left(s.olds)
                news == IF part[1] = "-" THEN s.news ELSE Left(s.news)
            IN  [s EXCEPT !.olds = olds, !.news = news, !.prefix = part[1],
                          !.at = IF olds + news = 0 THEN "after" ELSE "body",
                          !.files[f].hunks[Len(s.files[f].hunks)].body = Append(@, part)]
    IN  IF Body(line) # {} THEN Take(CHOOSE part \in Body(line) : TRUE)
        ELSE IF line.kind = "blank" /\ s.olds <= 1 /\ s.news <= 1 THEN Take(<<" ", "">>)
        ELSE IF line.kind = "bare" THEN [s EXCEPT !.files[f] = Bare(@, s.prefix)]
        ELSE [s EXCEPT !.at = "error"]

Parse(patch) ==
    LET end == FoldLeft(LAMBDA s, line :
                   CASE s.at = "between" -> Between(s, line)
                     [] s.at = "header" -> Header(s, line)
                     [] s.at \in {"hunks", "after"} -> Hunks(s, line)
                     [] s.at = "body" -> InBody(s, line)
                     [] OTHER -> s,
                   [at |-> "between", old |-> "", files |-> << >>, olds |-> 0, news |-> 0,
                    prefix |-> " "],
                   patch)
    IN  IF end.at \in {"error", "header", "body"} THEN {} ELSE {end.files}

\* The hunks of one file in order, each where it says; or nothing.
ApplyHunks(file, original) ==
    LET was == original.content
        Line(s, part) ==
            IF s.failed \/ (part[1] # "+" /\ (s.cursor >= Len(was) \/ was[s.cursor + 1] # part[2]))
            THEN [s EXCEPT !.failed = TRUE]
            ELSE [s EXCEPT !.out = IF part[1] = "-" THEN @ ELSE Append(@, part[2]),
                           !.cursor = IF part[1] = "+" THEN @ ELSE @ + 1]
        OneHunk(s, hunk) ==
            LET start == Max({hunk.start - 1, 0})
            IN  IF s.failed \/ start < s.cursor \/ start > Len(was) THEN [s EXCEPT !.failed = TRUE]
                ELSE FoldLeft(Line, [s EXCEPT !.out = @ \o SubSeq(was, s.cursor + 1, start),
                                              !.cursor = start], hunk.body)
        end == FoldLeft(OneHunk, [out |-> << >>, cursor |-> 0, failed |-> FALSE], file.hunks)
    IN  IF end.failed \/ (was # << >> /\ file.oldBare = original.newline) THEN {}
        ELSE {Text(end.out \o SubSeq(was, end.cursor + 1, Len(was)), ~file.newBare)}

-----------------------------------------------------------------------------
(* edit_file.                                                              *)

\* str::matches: from the left, never overlapping.
Occurrences(text, old) ==
    FoldLeft(LAMBDA found, k :
                 IF k > Len(text) - Len(old) + 1 \/ SubSeq(text, k, k + Len(old) - 1) # old
                    \/ (found # << >> /\ k < Last(found) + Len(old))
                 THEN found ELSE Append(found, k),
             << >>, [k \in DOMAIN text |-> k])

EditOnce(text, old, new) ==
    LET at == Occurrences(text, old)
    IN  IF old = << >> \/ Len(at) # 1 THEN {}
        ELSE {SubSeq(text, 1, at[1] - 1) \o new \o SubSeq(text, at[1] + Len(old), Len(text))}

\* The windows of a file most like what was asked for, none overlapping another;
\* score[k] is that of the window of the given size from line k.
NearestCandidates(score, window) ==
    LET ranked == SetToSortSeq(DOMAIN score,
                      LAMBDA x, y : score[x] > score[y] \/ (score[x] = score[y] /\ x < y))
    IN  FoldLeft(LAMBDA picked, k :
                     IF Len(picked) = CandidateCount
                        \/ \E p \in ToSet(picked) : k - p < window /\ p - k < window
                     THEN picked ELSE Append(picked, k),
                 << >>, ranked)

-----------------------------------------------------------------------------
(* Lists.  An entry is [path, kind, ignored, hidden, readable].            *)

Visible(entries) == {e \in entries : ~e.ignored /\ ~e.hidden}

\* glob fails at an entry that cannot be read; suits are the paths the pattern matches,
\* and order is all paths in byte order.
Glob(entries, suits, order) ==
    IF \E e \in Visible(entries) : ~e.readable THEN {}
    ELSE LET found == SelectSeq(order, LAMBDA path : path \in suits /\ \E e \in Visible(entries) :
                                                         e.kind = "file" /\ e.path = path)
         IN  {[paths |-> SubSeq(found, 1, Min({MaxMatches, Len(found)})),
               truncated |-> Len(found) > MaxMatches]}

\* list_dir lists what is ignored and what is hidden.  A link is no directory.
ListDir(entries, dir, recursive) ==
    {e \in entries : IsStrictPrefix(dir, e.path) /\ (recursive \/ Len(e.path) = Len(dir) + 1)}

\* grep reads the files in order until it has collected enough; matches[file] are the
\* lines that match.
Collected(files, matches, ceiling) ==
    LET all == FlattenSeq([k \in DOMAIN files |->
                   [i \in DOMAIN matches[files[k]] |-> <<files[k], matches[files[k]][i]>>]])
    IN  SubSeq(all, 1, Min({ceiling, Len(all)}))

Grep(files, matches, maxResults) ==
    LET cap == IF maxResults = {} THEN HardMaxMatches
               ELSE Max({1, Min({HardMaxMatches, CHOOSE m \in maxResults : TRUE})})
        ceiling == Max({CollectCeiling, cap})
        found == Collected(files, matches, ceiling)
        hit == Len(found) = ceiling
    IN  [shown |-> SubSeq(found, 1, Min({cap, Len(found)})),
         total |-> Len(found), more |-> hit,
         truncated |-> Len(found) > cap \/ hit]

-----------------------------------------------------------------------------
(* The tools a session offers, by the size of its model in billions.       *)

ProfileFor(params) == IF params < 8 THEN 1 ELSE IF params < 32 THEN 2 ELSE 3

\* A tier asked for takes its whole row, clamped to one there is.
Row(params, override) ==
    IF override = {} THEN ProfileFor(params)
    ELSE Max({1, Min({3, CHOOSE t \in override : TRUE})})

\* By tier and then by name (rank), as many as the row allows.
Gated(tools, row) ==
    LET order == SetToSortSeq({t \in tools : t.tier <= row},
                     LAMBDA x, y : x.tier < y.tier \/ (x.tier = y.tier /\ x.rank < y.rank))
        cap == CASE row = 1 -> SmallCap [] row = 2 -> MidCap [] OTHER -> Len(order)
    IN  [tools |-> SubSeq(order, 1, Min({cap, Len(order)})), one |-> row = 1]
=============================================================================
