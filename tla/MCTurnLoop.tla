----------------------------- MODULE MCTurnLoop -----------------------------
(* Instances of TurnLoop for TLC: the policies the runs use, and facts about   *)
(* the text a scraped engine's turns are made of.                           *)
EXTENDS TurnLoop, SequencesExt, FiniteSetsExt

\* PolicyConfig as a session sets it: reads run, writes ask, commands do not run.
AskToWrite == [read |-> "allow", write |-> "confirm", exec |-> "deny"]

-----------------------------------------------------------------------------
(* The text a scraped engine's turns are read from.  The facts are about   *)
(* operators, and TLC evaluates them before a run.                         *)

Text == INSTANCE Scraping

Braces == <<"{", "}">>
BraceInString == <<"{", "\"", "}", "\\", "\"", "\"", "}">>
Encoded == <<"\"", "x", "\"">>

Pieces == {Text!OpenTag, Text!CloseTag, Braces, BraceInString, Encoded, <<"x">>, <<" ">>, <<"<">>, <<"{">>}
TextsOf(pieces, count) == {FlattenSeq(p) : p \in SeqOf(pieces, count)}

Cuts(text) == {<<SubSeq(text, 1, p), SubSeq(text, p + 1, Len(text))>> : p \in 0..Len(text)}

\* Where a fragment ends does not change what is read: the prose shown as it
\* settles and the rest are the prose of the whole text, and the calls are the
\* same, each once (ToolCallExtractor::push, take_prose, finish).
ASSUME FragmentsDoNotMatter ==
    \A text \in TextsOf(Pieces, 3) : \A cut \in Cuts(text) :
        LET first == Text!Push(Text!NoText, cut[1])
            second == Text!Push(Text!TakeProse(first), cut[2])
            last == Text!Finish(Text!TakeProse(second))
            whole == Text!Extract(text)
        IN  /\ first.prose \o second.prose \o last.prose = whole.prose
            /\ last.calls = whole.calls

\* A text of prose and well-formed blocks gives back just that prose and those
\* values: no letter of a block is shown, and none of the prose is lost.
Blocks == {Text!OpenTag \o value \o Text!CloseTag : value \in {Braces, BraceInString, Encoded}}
ASSUME BlocksAreRecovered ==
    \A pieces \in SeqOf(Blocks \union {<<"x">>, <<"<", "x">>, <<" ">>}, 4) :
        LET found == Text!Extract(FlattenSeq(pieces))
            blocks == SelectSeq(pieces, LAMBDA p : p \in Blocks)
        IN  /\ found.prose = FlattenSeq(SelectSeq(pieces, LAMBDA p : p \notin Blocks))
            /\ Len(found.calls) = Len(blocks)
            /\ \A k \in DOMAIN blocks :
                  /\ found.calls[k].complete
                  /\ blocks[k] = Text!OpenTag \o found.calls[k].text \o Text!CloseTag

\* A value that is complete when the stream ends is a complete call, however much of
\* its closing tag is there (drain_with at the end).
ASSUME EndClosesACall ==
    \A value \in {Braces, BraceInString, Encoded} : \A p \in 0..Len(Text!CloseTag) :
        LET found == Text!Extract(Text!OpenTag \o value \o SubSeq(Text!CloseTag, 1, p))
        IN  found.calls = <<Text!RawCall(value, TRUE)>>

\* Every call of a scraped stream is reported before its one Done, or at its end
\* when there is none, whatever lies between the fragments (scrape).
StreamItems == {Text!Text(Text!OpenTag), Text!Text(Braces), Text!Text(Text!CloseTag),
                Text!Text(<<"x">>), Text!Other, Text!Done}
ASSUME CallsComeBeforeDone ==
    \A items \in SeqOf(StreamItems, 5) :
        LET dones == {k \in DOMAIN items : items[k] = Text!Done}
            read == IF dones = {} THEN items ELSE SubSeq(items, 1, Min(dones))
            texts == SelectSeq(read, LAMBDA item : item.kind = "text")
            whole == Text!Extract(FlattenSeq([k \in DOMAIN texts |-> texts[k].text]))
            out == Text!Scrape(items)
            shown == SelectSeq(out, LAMBDA item : item.kind = "text")
        IN  /\ SelectSeq(out, LAMBDA item : item.kind = "call")
                 = [k \in DOMAIN whole.calls |-> Text!Call(whole.calls[k])]
            /\ FlattenSeq([k \in DOMAIN shown |-> shown[k].text]) = whole.prose
            /\ \A k \in DOMAIN out : out[k] = Text!Done <=> dones # {} /\ k = Len(out)

\* A thinking block cut anywhere is still taken out of the answer (ThinkStripper).
ASSUME ThoughtIsCutOut ==
    \A text \in TextsOf({Text!ThinkOpen, Text!ThinkClose, <<"x">>, <<"<">>}, 4) : \A cut \in Cuts(text) :
        Text!ThinkResult(Text!Think(Text!Think(Text!NoThought, cut[1]), cut[2]))
            = Text!StripThinkBlocks(text)

\* Arguments the repair accepts need no repair again, none is invented for a required
\* field, and what is not accepted says which field (validate_and_repair).
Values == {"string", "true text", "integer text", "boolean", "integer", "number", "object", Text!Absent}
FieldSchemas ==
    {[type |-> type, required |-> required, default |-> default] :
        type \in {"any", "string", "boolean", "integer", "number"}, required \in BOOLEAN,
        default \in {Text!Absent}}
    \union {[type |-> type, required |-> FALSE, default |-> type] : type \in {"string", "boolean", "number"}}
ASSUME RepairSettles ==
    \A one, two \in FieldSchemas : \A first, second \in Values :
        LET schema == [order |-> <<1, 2>>, fields |-> <<one, two>>]
            once == Text!ValidateAndRepair(<<first, second>>, schema)
            again == Text!ValidateAndRepair(once.arguments, schema)
        IN  once.problem = "none" =>
                /\ again.problem = "none" /\ again.repaired = {}
                /\ \A k \in 1..2 : schema.fields[k].required => <<first, second>>[k] # Text!Absent

-----------------------------------------------------------------------------
(* A turn answered by another agent (dark-acp, dark-cli acp.rs).            *)

Other == INSTANCE Foreign

OptionKinds == {"allow_once", "allow_always", "reject_once", "reject_always", "a newer kind"}
PermissionRequests ==
    {[title |-> title, path |-> path, diff |-> path, command |-> command, options |-> options] :
        title \in {Other!None, "title"}, path \in {Other!None, "path"},
        command \in {Other!None, "command"}, options \in SeqOf(OptionKinds, 3)}
Modes == {"interactive", "headless", "yes"}
Said == {"once", "always", "deny"}

\* A refusal never becomes an option that allows, one action never becomes every
\* action, and what cannot be said with the agent's options cancels the request
\* (chosen_option).
ASSUME AnswerNeverWidens ==
    \A options \in SeqOf(OptionKinds, 4) : \A allow \in Said :
        LET kinds == [k \in DOMAIN options |-> Other!KindName(options[k])]
            chosen == Other!ChosenOption(allow, kinds)
        IN  /\ chosen # 0 =>
                  CASE allow = "deny" -> kinds[chosen] \in {"reject_once", "reject_always"}
                    [] allow = "once" -> kinds[chosen] = "allow_once"
                    [] allow = "always" -> kinds[chosen] \in {"allow_once", "allow_always"}
            /\ chosen # 0 => \A k \in 1..chosen - 1 : kinds[k] # kinds[chosen]
            /\ chosen = 0 =>
                  \A k \in DOMAIN kinds : kinds[k] \notin Range(Other!Wanted[allow])

\* What an agent asks for reaches the policy by its title alone, and a title is a
\* read: every request is granted once, whatever it would do, in every mode and with
\* nobody asked, and one offered no single permission is cancelled
\* (on_receive_request builds PermissionAsk::titled).
ASSUME EveryAskIsARead ==
    \A request \in PermissionRequests : \A mode \in Modes : \A answer \in Said :
        Other!Answered(request, mode, answer) =
            IF "allow_once" \in Range(request.options) THEN "allow_once" ELSE "cancelled"

\* Had the request been read whole, a change or a command would have been a question
\* for the person, and refused where nobody is there to answer it (to_prompt).
ASSUME WholeAskWouldBeJudged ==
    \A mode \in Modes : \A answer \in Said : \A outside \in BOOLEAN :
        LET judged(ask) == Other!Decide(Other!DefaultPolicy, Other!ToPrompt(ask), outside, mode, answer)
            change == judged(Other!Ask("title", "path", "diff", "command"))
            command == judged(Other!Ask("title", Other!None, Other!None, "command"))
        IN  /\ change = "once" <=> ~outside /\ command = "once"
            /\ command = "once" <=> mode = "yes" \/ (mode = "interactive" /\ answer # "deny")
            /\ judged(Other!Titled("title")) = "once"

\* A path that is not there yet is judged by the nearest directory that is, and a
\* link by where it leads (escapes_root).
Repo == <<"home", "repo">>
Tree(link) ==
    [there |-> {<<>>, <<"home">>, Repo, Repo \o <<"src">>, <<"home", "away">>},
     links |-> (Repo \o <<"link">> :> link)]
ASSUME NewFileIsJudgedByItsDirectory ==
    \A names \in SeqOf({"src", "link", "new"}, 3) :
        \A link \in {<<"home", "away">>, Repo \o <<"src">>, Repo} :
            /\ Other!EscapesRoot(Tree(link), Repo \o names, Repo) <=>
                  \E k \in DOMAIN names :
                      /\ names[k] = "link" /\ link = <<"home", "away">>
                      /\ \A j \in 1..k - 1 : names[j] = "link"
            /\ Other!EscapesRoot(Tree(link), <<"home">> \o names, Repo)

\* An agent is offered just when something on the machine can start it, its own
\* program before a download, and installing a program takes no agent away and makes
\* none need a download that did not (find).
Programs == {"opencode", "gemini", "kiro-cli", "codex", "npx"}
ASSUME OfferedWhenStartable ==
    \A path \in SUBSET Programs : \A program \in Programs :
        LET found == Range(Other!Find(path))
            more == Range(Other!Find(path \union {program}))
        IN  /\ Len(Other!Find(path)) = Cardinality(found)
            /\ \A agent \in found :
                  /\ agent.launch.program \in path
                  /\ Other!Named(agent.name, path) = "starts"
                  /\ \E other \in more :
                        /\ other.name = agent.name
                        /\ other.launch.needs_network_to_start => agent.launch.needs_network_to_start
            /\ \A agent \in more \ found :
                  agent.launch.program = program

\* In dark mode no agent of the table starts, a native program no more than a
\* download; only one a person names with the claim that it sends nothing away does
\* (check_dark_mode).
ASSUME DarkStartsNoKnownAgent ==
    /\ \A path \in SUBSET Programs : \A agent \in Range(Other!Find(path)) :
          /\ Other!CheckDarkMode(agent, FALSE) = "ok"
          /\ Other!CheckDarkMode(agent, TRUE) =
                IF agent.launch.program = "npx" THEN "download" ELSE "remote"
    /\ Other!CheckDarkMode(Other!Agent("mine", Other!Native("mine"), FALSE), TRUE) = "ok"

\* The printed reply is the agent's words in their order with none that is not
\* theirs.  With nothing lost and every delta recorded it is the whole reply; a lost
\* delta, or a transcript that cannot be written, leaves out a part that the reply
\* the agent's turn returns has, unless nothing at all was printed (run_prompt).
Updates == SeqOf({Other!Update("message", <<"a">>), Other!Update("message", <<"b">>),
                  Other!Update("thought", <<"t">>), Other!Update("plan", <<>>)}, 3)
ASSUME LaggedReplyHasAHole ==
    /\ \A updates \in Updates :
          LET deltas == DOMAIN Other!Deltas(updates)
              said == Other!Said(updates)
          IN  \A lost \in SUBSET deltas : \A unwritable \in 1..3 :
                  LET printed == Other!Printed(updates, lost, unwritable)
                      kept == {k \in deltas \ lost :
                                  Cardinality({j \in deltas \ lost : j <= k}) <= unwritable}
                  IN  IF kept = {} THEN printed = said
                      ELSE printed = FlattenSeq([k \in 1..Cardinality(kept) |->
                               <<said[CHOOSE d \in kept :
                                   Cardinality({j \in kept : j <= d}) = k]>>])
    /\ \E updates \in Updates : Other!Printed(updates, {2}, 3) # Other!Said(updates)
    /\ \E updates \in Updates : Other!Printed(updates, {}, 1) # Other!Said(updates)

=============================================================================
