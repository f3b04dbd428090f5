----------------------------- MODULE MCFileTools -----------------------------
(* Model checking of FileTools: two files of two lines; and facts about the *)
(* instruction files of a repository, which TLC evaluates before a run.    *)
EXTENDS FileTools, SequencesExt, FiniteSetsExt

CONSTANTS a, b, x, y

Both(first, second) == [place \in Places |-> IF place = 1 THEN first ELSE second]

Edit(path, place, from, to) ==
    [old |-> path, new |-> path, edits |-> {<<place, from, to>>}]

Rename(path, to) == [old |-> path, new |-> to, edits |-> {<<1, x, y>>}]

Create(path) == [old |-> Absent, new |-> path, body |-> Both(y, y)]

Delete(path) == [old |-> path, new |-> Absent, body |-> Both(x, x)]

\* One file twice, two files, a rename, a rename and a file in its place, a file
\* created and one deleted.
MCPatches ==
    {<<Edit(a, 1, x, y), Edit(a, 2, x, y)>>, <<Edit(a, 1, x, y), Edit(b, 1, x, y)>>,
     <<Rename(a, b)>>, <<Rename(a, b), Edit(a, 2, x, y)>>, <<Create(b), Delete(a)>>}

MCOutside == {Both(x, x), Both(y, x), Absent}

-----------------------------------------------------------------------------
(* Directories 1, 2 and 1/2 of a repository, with a note of one token.      *)

Guides == INSTANCE Instructions WITH MarkerTokens <- 1

Lines == {"heading", "blank", "sentence", "text", "ticks", "tildes"}
Dirs == {<< >>, <<1>>, <<2>>, <<1, 2>>}
Prose(n) == [k \in 1..n |-> "text"]
Trees == {<< >>, [agents |-> <<"sentence", "text">>], [override |-> Prose(1)], [claude |-> Prose(1), agents |-> Prose(3)]}
Repos == [global : {<< >>, [agents |-> Prose(1)]}, dirs : [Dirs -> Trees], unreadable : {{}}]
Config(budget) == [enabled |-> TRUE, honourOverrides |-> TRUE, budget |-> budget]
Leaves == {{<<1, 2>>}, {<<1, 2>>, <<2>>}, {}}

\* The chain is the files found on the way to the working set, in order, from the last
\* override on (resolve, apply).
ASSUME ChainStartsAtLastOverride ==
    \A repo \in Repos : \A leaves \in Leaves :
        LET chain == Guides!Unbudgeted(repo, leaves, Config(99))
            order == <<<< >>>> \o Guides!NestedDirs(leaves)
            having == SelectSeq(order, LAMBDA d : repo.dirs[d] # << >>)
            overriding == {k \in DOMAIN having : "override" \in DOMAIN repo.dirs[having[k]]}
            from == IF overriding = {} THEN 1 ELSE Max(overriding)
            local == SelectSeq(chain, LAMBDA e : e.role # Guides!Global)
        IN  /\ [k \in DOMAIN local |-> local[k].dir] = SubSeq(having, from, Len(having))
            /\ (Len(local) < Len(chain)) = (overriding = {} /\ repo.global # << >>)

\* An override in one directory takes away what a directory beside it says, which
\* explain.rs:144 calls its ancestry.
ASSUME OverrideReachesSiblings ==
    \E repo \in Repos : \E k \in 1..2 :
        /\ repo.dirs[<<1>>] # << >> /\ "override" \in DOMAIN repo.dirs[<<2>>]
        /\ \A j \in DOMAIN Guides!Unbudgeted(repo, {<<1>>, <<2>>}, Config(99)) :
              Guides!Unbudgeted(repo, {<<1>>, <<2>>}, Config(99))[j].dir # <<1>>

\* The budget drops nothing that fits, nested files only, none of them nearer than one
\* it keeps; what is over at the end has no nested file left (enforce_budget).
ASSUME NearestIsKept ==
    \A repo \in Repos : \A leaves \in {{<<1, 2>>}, {<<1, 2>>, <<2>>}} : \A budget \in {0, 2, 4, 6} :
        LET all == Guides!Unbudgeted(repo, leaves, Config(99))
            kept == Guides!Resolve(repo, leaves, Config(budget)).entries
            keptDirs == {kept[k].dir : k \in Guides!Nested(kept)}
            dropped == {k \in Guides!Nested(all) : all[k].dir \notin keptDirs}
        IN  /\ Len(kept) + Cardinality(dropped) = Len(all)
            /\ dropped # {} => Guides!Total(all) > budget
            /\ Guides!Total(kept) > budget => keptDirs = {}
            /\ \A k \in dropped : \A j \in Guides!Nested(kept) :
                  Guides!Distance(kept[j], leaves) <= Guides!Distance(all[k], leaves)

\* A text that is cut is a beginning of itself that fits, cut outside of a fence; with
\* its note it may not fit, and may be no shorter than it was (truncate_at_boundary).
ASSUME CutsLeaveNoFenceOpen ==
    \A text \in SeqOf(Lines, 4) : \A most \in 0..3 :
        LET cut == Guides!TruncateAtBoundary(text, most)
        IN  /\ IsPrefix(cut.text, text)
            /\ cut.truncated = (Len(text) > most)
            /\ cut.truncated => /\ Len(cut.text) <= most
                               /\ Guides!FenceAt(cut.text, Len(cut.text)) = "none"
ASSUME NoteMayNotFit ==
    Guides!TruncateAtBoundary(<<"sentence", "text">>, 1).tokens > 1

\* Whatever is touched in a turn, the tail gets a directory's file once, and none that
\* the prefix has (discover_for_tail).
ASSUME TailAddsOnce ==
    \A tree \in Trees \ {<< >>} : \A leaves \in Leaves : \A touched \in TupleOf(Dirs \union {<<2, 1>>}, 3) :
        LET repo == [global |-> << >>, unreadable |-> {}, dirs |-> [d \in Dirs \union {<<2, 1>>} |-> tree]]
            chain == Guides!Resolve(repo, leaves, Config(99))
            Touch(state, dir) ==
                LET found == Guides!DiscoverForTail(chain, state.seen, repo, dir, Config(99))
                IN  [seen |-> found.seen, tail |-> state.tail \o found.additions]
            tail == FoldLeft(Touch, [seen |-> {}, tail |-> << >>], touched).tail
            dirs == [k \in DOMAIN tail |-> tail[k].dir]
            below == UNION {ToSet(Guides!DirectoryChain(touched[k])) : k \in DOMAIN touched}
        IN  /\ IsInjective(dirs)
            /\ ToSet(dirs) = below \ chain.known

\* What a repository asks for never widens what is allowed, and nothing it asks for is
\* dropped without a word (validate).
Asked == [table : {"policy"}, key : {"read", "write_outside_root"}, value : {"allow", "confirm", "deny", "maybe"}]
         \union [table : {"tools"}, key : {"tier_override"}, value : 0..4]
ASSUME NeverWidens ==
    \A block \in kSubset(3, Asked) \union kSubset(1, Asked) : \A have \in {"allow", "confirm", "deny"} : \A tier \in 1..3 :
        LET current == [read |-> have, write |-> have, exec |-> have, tier |-> tier]
            read == Guides!Validate(block, current)
        IN  /\ read.accepted \union read.rejected = block
            /\ \A item \in read.accepted :
                  /\ item.table = "policy" => item.key = "read" /\ ~(have = "deny" /\ item.value # "deny")
                                             /\ ~(have = "confirm" /\ item.value = "allow")
                  /\ item.table = "tools" => item.value <= tier

\* Writing the generated section twice changes the file once, and never the text on
\* either side of it (upsert, replace_region).
ASSUME SectionOnlyIsWritten ==
    \A text \in SeqOf({"BEGIN", "END", "x"}, 4) : \A body \in {<< >>, <<"y">>, <<"END">>} :
        LET first == Guides!Upsert(<<text>>, body)
            second == Guides!Upsert(first.file, body)
            outside(t) == SubSeq(t, 1, Guides!Place(t, "BEGIN") - 1)
                          \o SubSeq(t, Guides!Place(t, "END") + 1, Len(t))
        IN  /\ second.file = first.file /\ second.wrote \in {"unchanged", "refused"}
            /\ (second.wrote = "refused") = (first.wrote = "refused")
            /\ first.wrote = "refused" => first.file = <<text>>
            /\ first.wrote # "refused" => outside(first.file[1]) = outside(text)
=============================================================================
