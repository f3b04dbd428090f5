----------------------------- MODULE ChartStages -----------------------------
(***************************************************************************)
(* What each stage of charting makes of the model's answers, and the rules *)
(* for working a ticket.  Charting models the stages' order and their      *)
(* checkpoints; this module, what they compute.                            *)
(* Source: crates/dark-plan/src/{axes,chart}/*.rs, extract.rs, sharpen.rs, *)
(* size.rs, work.rs.                                                       *)
(*                                                                         *)
(* A text is a sequence of words; a word that is "?" or ";" ends the word  *)
(* before it.  Words differ in the model only when they differ after       *)
(* trimming and lower-casing.  Prompts are not modelled.                   *)
(***************************************************************************)
EXTENDS Integers, SequencesExt, FiniteSetsExt

CONSTANTS
    MaxAttempts,     \* MAX_ATTEMPTS: three
    LongNameWords,   \* the most words a name may have: twelve
    ShortMatchWords  \* the words a text needs to match inside another (eight bytes)

Failed(why) == [outcome |-> "failed", why |-> why]
Got(value) == [outcome |-> "got", value |-> value]

-----------------------------------------------------------------------------
(* A generation, and the destination of a map.                             *)

\* The text of a stream up to its Done; a Done that says error is one, an end
\* without Done a stop.
RunGeneration(chunks) ==
    LET Ends(k) == chunks[k].kind \in {"done", "err"}
        ends == {k \in DOMAIN chunks : Ends(k)}
        read == IF ends = {} THEN chunks ELSE SubSeq(chunks, 1, Min(ends))
        parts(kind) == SelectSeq(read, LAMBDA c : c.kind = kind)
        joined(kind) == FlattenSeq([k \in DOMAIN parts(kind) |-> parts(kind)[k].text])
        last == IF ends = {} THEN [kind |-> "done", reason |-> "stop"] ELSE Last(read)
    IN  CASE last.kind = "err" -> Failed("engine")
          [] last.kind = "done" /\ last.reason = "error" -> Failed("ended with an error")
          [] OTHER -> Got([text |-> joined("text"), reasoning |-> joined("reasoning"),
                           finish |-> last.reason])

DestinationTypes == {"spec", "decision", "in_place"}

\* One line: a tag starts its field again, and a line without one continues the
\* field it stands in, TYPE excepted.
ParseLine(fields, line) ==
    CASE line.tag # "none" ->
           [fields EXCEPT !.current = line.tag, ![line.tag] = line.text]
      [] line.tag = "none" /\ fields.current \in {"DESTINATION", "NOTES"} ->
           [fields EXCEPT ![fields.current] = @ \o line.text]
      [] OTHER -> fields

(* inside: the line's first bytes, as many as some tag has, end inside a    *)
(* character; the slice that compares them stops the program.               *)
ParseDestination(lines) ==
    LET last == FoldLeft(ParseLine, [current |-> "none", DESTINATION |-> << >>,
                                     NOTES |-> << >>, TYPE |-> << >>], lines)
    IN  CASE \E k \in DOMAIN lines : lines[k].inside -> [outcome |-> "panic"]
          [] (\A k \in DOMAIN lines : ~lines[k].inside) /\ last.DESTINATION = << >> ->
               Failed("no destination")
          [] (\A k \in DOMAIN lines : ~lines[k].inside) /\ last.DESTINATION # << >>
               /\ (Len(last.TYPE) # 1 \/ last.TYPE[1] \notin DestinationTypes) -> Failed("no type")
          [] OTHER -> Got([destination |-> last.DESTINATION, notes |-> last.NOTES,
                           type |-> last.TYPE[1]])

AuthorizeCharting(allowed) == IF allowed THEN Got("charting") ELSE Failed("E_ENGINE_UNSUPPORTED")

-----------------------------------------------------------------------------
(* The axes, and the sweep over them.                                      *)

\* A layer of configuration gives some destination types a list of axes; the rest
\* keep the list of the layer below.
FromTomlOver(layer, base) ==
    LET sets == [type \in DestinationTypes |->
                    IF type \in DOMAIN layer THEN layer[type] ELSE base[type]]
    IN  IF \E type \in DestinationTypes : sets[type] = << >> THEN Failed("names no axes")
        ELSE Got(sets)

Layered(builtin, layers) ==
    FoldLeft(LAMBDA below, layer : IF below.outcome = "failed" THEN below
                                   ELSE FromTomlOver(layer, below.value),
             Got(builtin), layers)

\* No memory of one axis is carried to the next: an answer is a function of its own.
ClassifyAnswer(text) == IF text = <<"nothing", "here">> THEN << >> ELSE text
AxisAnswers(axes, answers) ==
    [k \in DOMAIN axes |-> [axis |-> axes[k], open |-> ClassifyAnswer(answers[axes[k]])]]

\* The seams named in the text a sweep is given: five at most, the rest whole.
SeedText(report) ==
    IF report.seams = << >> /\ report.modules = << >> /\ ~report.radius THEN << >>
    ELSE (IF report.radius THEN <<"blast radius">> ELSE << >>)
         \o SubSeq(report.seams, 1, Min({5, Len(report.seams)})) \o report.modules

-----------------------------------------------------------------------------
(* Extracting candidates.                                                  *)

Significant(text, short) == ToSet(text) \ ({"?", ";"} \union short)

\* More than four fifths of the destination's words, in the question.
RestatesDestination(destination, question, short) ==
    LET words == Significant(destination, short)
    IN  Cardinality(words \intersect Significant(question, short)) * 10 > Cardinality(words) * 8

CandidateProblem(candidates, k, destination, short) ==
    LET candidate == candidates[k]
    IN  CASE \E j \in 1..(k - 1) : candidates[j].name = candidate.name -> "not unique"
          [] (\A j \in 1..(k - 1) : candidates[j].name # candidate.name)
               /\ (candidate.question = << >> \/ Last(candidate.question) # "?") -> "no question mark"
          [] candidate.question # << >> /\ Last(candidate.question) = "?"
               /\ RestatesDestination(destination, candidate.question, short) -> "restates"
          [] Len(candidate.name) > LongNameWords -> "long name"
          [] OTHER -> "none"

\* Candidates are checked in order, and the kinds of all of them last.
Validate(candidates, destination, short) ==
    LET problems == [k \in DOMAIN candidates |->
                        CandidateProblem(candidates, k, destination, short)]
        bad == {k \in DOMAIN candidates : problems[k] # "none"}
    IN  CASE bad # {} -> problems[Min(bad)]
          [] bad = {} /\ (\A k \in DOMAIN candidates : candidates[k].kind = "research") ->
               "all research"
          [] OTHER -> "none"

\* A reply is candidates, no JSON of the schema, or an engine's failure.
Attempt(state, reply, destination, short) ==
    LET problem == IF reply.kind = "candidates"
                   THEN Validate(reply.candidates, destination, short) ELSE "schema"
    IN  CASE state.result.outcome # "asking" -> state
          [] state.result.outcome = "asking" /\ reply.kind = "engine error" ->
               [state EXCEPT !.asked = @ + 1, !.result = Failed("engine")]
          [] state.result.outcome = "asking" /\ reply.kind # "engine error" /\ problem = "none" ->
               [state EXCEPT !.asked = @ + 1, !.result = Got(reply.candidates)]
          [] OTHER ->
               [asked |-> state.asked + 1,
                repairs |-> IF state.asked + 1 < MaxAttempts THEN Append(state.repairs, problem)
                            ELSE state.repairs,
                result |-> IF state.asked + 1 < MaxAttempts THEN state.result ELSE Failed(problem)]

Extract(replies, destination, short) ==
    FoldLeft(LAMBDA state, reply : Attempt(state, reply, destination, short),
             [asked |-> 0, repairs |-> << >>, result |-> [outcome |-> "asking"]], replies)

-----------------------------------------------------------------------------
(* Sharpening: a ticket, or fog.                                           *)

Occurs(longer, shorter) ==
    \E p \in 0..(Len(longer) - Len(shorter)) : SubSeq(longer, p + 1, p + Len(shorter)) = shorter

TextMatches(one, other) ==
    LET shorter == IF Len(one) <= Len(other) THEN one ELSE other
        longer == IF Len(one) <= Len(other) THEN other ELSE one
    IN  /\ shorter # << >>
        /\ \/ one = other
           \/ Len(shorter) >= ShortMatchWords /\ Occurs(longer, shorter)

IsExcluded(candidate, known) ==
    \/ \E decision \in known.decisions : TextMatches(candidate.question, decision)
    \/ \E name \in known.names : TextMatches(candidate.name, name)
    \/ \E gist \in known.outOfScope :
          TextMatches(candidate.question, gist) \/ TextMatches(candidate.name, gist)

\* A candidate already decided, named or excluded is no fog, and is not asked about.
Sharpen(candidate, known, answer) ==
    CASE IsExcluded(candidate, known) -> Got("TICKET")
      [] ~IsExcluded(candidate, known) /\ answer \in {"TICKET", "FOG"} -> Got(answer)
      [] OTHER -> Failed("unrecognised")

\* One patch of fog for an axis, with the axes in order and its questions in theirs.
MergeFogByAxis(fog, axisOrder) ==
    LET Of(axis) == SelectSeq(fog, LAMBDA c : c.axis = axis)
        axes == SelectSeq(axisOrder, LAMBDA axis : Of(axis) # << >>)
    IN  [k \in DOMAIN axes |-> [axis |-> axes[k],
            patch |-> [j \in DOMAIN Of(axes[k]) |-> Of(axes[k])[j].question]]]

-----------------------------------------------------------------------------
(* Sizing.                                                                 *)

TicketBudgetTokens(granted) == (granted * 55) \div 100

EstimateTicketTokens(answer, perFile, overhead) ==
    answer.files * perFile + (IF answer.research THEN overhead ELSE 0)

\* The average of the samples, none when they touched no file.
CalibrateTokensPerFile(samples) ==
    LET Total(field) == FoldLeft(LAMBDA sum, s : sum + s[field], 0, samples)
    IN  IF Total("files") = 0 THEN << >> ELSE <<Total("tokens") \div Total("files")>>

Unasked(question) == SubSeq(question, 1, Max({0} \union {p \in DOMAIN question : question[p] # "?"}))

\* Where a separator stands: " and " and " or " between two words, "; " after one.
Occurrences(body, sep) ==
    {p \in 1..(Len(body) - 1) : body[p] = sep /\ (sep = ";" \/ p > 1)}

\* At the first "and", else the first ";", else the first "or", when something is on
\* both sides; else the question twice, as two parts.
SplitQuestion(question) ==
    LET body == Unasked(question)
        first(sep) == Min(Occurrences(body, sep))
        usable == SelectSeq(<<"and", ";", "or">>,
                            LAMBDA sep : Occurrences(body, sep) # {} /\ first(sep) > 1)
        at == first(usable[1])
    IN  IF usable = << >> THEN <<Append(body, "part 1"), Append(body, "part 2")>>
        ELSE <<SubSeq(body, 1, at - 1), SubSeq(body, at + 1, Len(body))>>

SplitCandidate(candidate) ==
    [k \in 1..2 |-> [candidate EXCEPT !.name = Append(@, <<"(1/2)", "(2/2)">>[k]),
                                      !.question = Append(SplitQuestion(candidate.question)[k], "?")]]

\* The parts are not sized again.
Size(candidate, answer, budget, perFile, overhead) ==
    IF answer.multi \/ EstimateTicketTokens(answer, perFile, overhead) > budget
    THEN SplitCandidate(candidate) ELSE <<candidate>>

DefaultHitl(kind) == kind \in {"prototype", "grilling"}

\* Tickets are numbered from first, in the candidates' order.
TicketsFrom(candidates, first) ==
    [k \in DOMAIN candidates |->
        [name |-> candidates[k].name, question |-> candidates[k].question,
         kind |-> candidates[k].kind, hitl |-> DefaultHitl(candidates[k].kind),
         ordinal |-> first + k - 1]]

StageSize(candidates, answers, budget, perFile, overhead) ==
    TicketsFrom(FlattenSeq([k \in DOMAIN candidates |->
                    Size(candidates[k], answers[k], budget, perFile, overhead)]), 0)

-----------------------------------------------------------------------------
(* What a chart costs.                                                     *)

Generations(axes, candidates, tickets) == axes + (1 + candidates) + 2 * tickets

\* Whole minutes, at least one; a speed of zero is no time.
EstimatedMinutes(generations, perGeneration, speed) ==
    LET minute == 60 * speed
        tokens == generations * perGeneration
    IN  IF speed = 0 THEN 1 ELSE Max({1, (tokens + minute - 1) \div minute})

-----------------------------------------------------------------------------
(* Working a ticket.                                                       *)

\* A named ticket must be on the frontier; unnamed, the lowest ordinal is taken.
SelectTicket(named, frontier) ==
    LET matching == {k \in DOMAIN frontier : named \in {frontier[k].id, frontier[k].name}}
        lowest == {k \in DOMAIN frontier :
                      \A j \in DOMAIN frontier : frontier[k].ordinal <= frontier[j].ordinal}
    IN  CASE named # "none" -> IF matching = {} THEN Failed("E_MAP_NOT_FOUND")
                               ELSE Got(frontier[Min(matching)])
          [] OTHER -> IF frontier = << >> THEN Failed("E_MAP_EMPTY_FRONTIER")
                      ELSE Got(frontier[Min(lowest)])

RequiresHuman(ticket) == ticket.hitl \/ ticket.kind = "grilling"

Route(ticket, humanPresent) ==
    IF RequiresHuman(ticket) /\ ~humanPresent THEN Failed("E_HITL_REQUIRES_HUMAN")
    ELSE Got(ticket.kind)

\* A session resolves any number of research tickets and one other.
RecordResolution(resolvedOther, kind) ==
    CASE kind = "research" -> Got(resolvedOther)
      [] kind # "research" /\ resolvedOther -> Failed("E_SESSION_RESOLUTION_LIMIT")
      [] OTHER -> Got(TRUE)

\* Two researchers at once, fewer when the memory left does not hold two.
ResearchParallelism(budgetBytes, usedBytes, perAgent) ==
    IF perAgent = 0 THEN 2 ELSE Min({2, Max({0, budgetBytes - usedBytes}) \div perAgent})

GraduateFog(candidates, nextOrdinal) == TicketsFrom(candidates, nextOrdinal)
=============================================================================
