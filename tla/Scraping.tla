------------------------------- MODULE Scraping -------------------------------
(***************************************************************************)
(* What a scraped model's text becomes: tool calls and prose out of a      *)
(* stream of fragments, thinking blocks out of another, and the reading of *)
(* one call against the schema of its tool.                                *)
(* Source: crates/dark-cli/src/scrape.rs, crates/dark-qwen/src/{toolcall/  *)
(* {stream,mod,repair,validate}.rs, think.rs}.                             *)
(*                                                                         *)
(* A text is a sequence of letters, with tags short enough to enumerate    *)
(* every way a fragment can end inside one.                                *)
(***************************************************************************)
EXTENDS Integers, SequencesExt

OpenTag == <<"<", "t", ">">>
CloseTag == <<"<", "/", "t", ">">>
MaxPartialTag == Len(OpenTag) - 1

Positions(text, tag) ==
    {p \in 1..(Len(text) - Len(tag) + 1) : SubSeq(text, p, p + Len(tag) - 1) = tag}

\* Where the tag first stands, 0 when it does not.
Find(text, tag) == IF Positions(text, tag) = {} THEN 0 ELSE Min(Positions(text, tag))

Rest(text, from) == SubSeq(text, from, Len(text))
Blank(text) == \A p \in DOMAIN text : text[p] = " "
FirstVisible(text) == IF Blank(text) THEN 0 ELSE Min({p \in DOMAIN text : text[p] # " "})
TrimStart(text) == IF Blank(text) THEN << >> ELSE Rest(text, FirstVisible(text))

-----------------------------------------------------------------------------
(* The end of a JSON value, 0 while it is not balanced.                    *)

Scan(state, letter) ==
    CASE state.escaped -> [state EXCEPT !.escaped = FALSE]
      [] state.quoted /\ letter = "\\" -> [state EXCEPT !.escaped = TRUE]
      [] letter = "\"" -> [state EXCEPT !.quoted = ~@]
      [] ~state.quoted /\ letter = "{" -> [state EXCEPT !.depth = @ + 1]
      [] ~state.quoted /\ letter = "}" -> [state EXCEPT !.depth = @ - 1]
      [] OTHER -> state

Scanned(text) == FoldLeft(Scan, [depth |-> 0, quoted |-> FALSE, escaped |-> FALSE], text)

\* Just past the brace or the quote that matches the one at start: a literal brace
\* inside a string does not count.
ValueEnd(text, start) ==
    LET Balanced(p) == LET state == Scanned(SubSeq(text, start, p))
                       IN  state.depth = 0 /\ ~state.quoted
        ends == {p \in start..Len(text) : Balanced(p)}
    IN  IF text[start] \in {"{", "\""} /\ ends # {} THEN Min(ends) + 1 ELSE 0

-----------------------------------------------------------------------------
(* The extractor of tool calls.                                            *)

NoText == [buffer |-> << >>, prose |-> << >>, calls |-> << >>]

CouldBecomeCloseTag(text) == IsPrefix(text, CloseTag)

RawCall(text, complete) == [text |-> text, complete |-> complete]

\* No tag in sight: everything is prose but what a tag may begin with.
Flushed(ext) ==
    LET settled == Max({0, Len(ext.buffer) - MaxPartialTag})
    IN  [ext EXCEPT !.prose = @ \o SubSeq(ext.buffer, 1, settled),
                    !.buffer = Rest(@, settled + 1)]

RECURSIVE Drained(_, _)
Drained(ext, atEnd) ==
    LET tag == Find(ext.buffer, OpenTag)
        value == LET first == FirstVisible(Rest(ext.buffer, tag + Len(OpenTag)))
                 IN  IF first = 0 THEN 0 ELSE tag + Len(OpenTag) + first - 1
        end == IF value = 0 THEN 0 ELSE ValueEnd(ext.buffer, value)
        waiting == [ext EXCEPT !.prose = @ \o SubSeq(ext.buffer, 1, tag - 1),
                               !.buffer = Rest(@, tag)]
        after == TrimStart(Rest(ext.buffer, end))
        taken == [waiting EXCEPT
                     !.calls = Append(@, RawCall(SubSeq(ext.buffer, value, end - 1), TRUE)),
                     !.buffer = IF IsPrefix(CloseTag, after)
                                THEN Rest(after, Len(CloseTag) + 1)
                                ELSE Rest(ext.buffer, end)]
    IN  CASE tag = 0 -> Flushed(ext)
          [] tag # 0 /\ end = 0 -> waiting
          [] tag # 0 /\ end # 0 /\ ~atEnd /\ after # CloseTag /\ CouldBecomeCloseTag(after) -> waiting
          [] OTHER -> Drained(taken, atEnd)

Push(ext, fragment) == Drained([ext EXCEPT !.buffer = @ \o fragment], FALSE)

\* What has settled as prose is shown; the rest is kept.
TakeProse(ext) == [ext EXCEPT !.prose = << >>]

Finish(ext) ==
    LET last == Drained(ext, TRUE)
        tag == Find(last.buffer, OpenTag)
        remainder == Rest(last.buffer, tag + Len(OpenTag))
    IN  IF tag = 0
        THEN [prose |-> last.prose \o last.buffer, calls |-> last.calls]
        ELSE [prose |-> last.prose \o SubSeq(last.buffer, 1, tag - 1),
              calls |-> IF Blank(remainder) THEN last.calls
                        ELSE Append(last.calls, RawCall(remainder, FALSE))]

Extract(text) == Finish(Push(NoText, text))

-----------------------------------------------------------------------------
(* The stream around it.                                                   *)

Text(text) == [kind |-> "text", text |-> text]
Call(raw) == [kind |-> "call", text |-> raw.text]
Done == [kind |-> "done"]
Other == [kind |-> "other"]

TextChunk(text) == IF text = << >> THEN << >> ELSE <<Text(text)>>

Reported(ext) ==
    LET found == Finish(ext)
    IN  TextChunk(found.prose) \o [k \in DOMAIN found.calls |-> Call(found.calls[k])]

\* One item of the inner stream, and what comes of it.
Rewrite(state, item) ==
    LET pushed == Push(state.ext, item.text)
    IN  CASE state.ended -> state
          [] ~state.ended /\ item.kind = "text" ->
               [state EXCEPT !.ext = TakeProse(pushed), !.out = @ \o TextChunk(pushed.prose)]
          [] ~state.ended /\ item.kind = "done" ->
               [state EXCEPT !.ended = TRUE, !.out = @ \o Reported(state.ext) \o <<item>>]
          [] OTHER -> [state EXCEPT !.out = Append(@, item)]

\* A stream that stops without Done is flushed too.
Scrape(items) ==
    LET last == FoldLeft(Rewrite, [ext |-> NoText, ended |-> FALSE, out |-> << >>], items)
    IN  IF last.ended THEN last.out ELSE last.out \o Reported(last.ext)

\* A model that reports its calls itself is passed through.
Stream(nativeTools, items) == IF nativeTools THEN items ELSE Scrape(items)

-----------------------------------------------------------------------------
(* Thinking blocks.                                                        *)

ThinkOpen == <<"<", "k", ">">>
ThinkClose == <<"<", "/", "k", ">">>

NoThought == [inThink |-> FALSE, visible |-> << >>, reasoning |-> << >>, buffer |-> << >>]

\* The tag looked for flips with each one found; the longer tag bounds what is kept.
RECURSIVE Stripped(_)
Stripped(state) ==
    LET tag == IF state.inThink THEN ThinkClose ELSE ThinkOpen
        at == Find(state.buffer, tag)
        settled == IF at # 0 THEN at - 1
                   ELSE Max({0, Len(state.buffer) - (Len(ThinkClose) - 1)})
        text == SubSeq(state.buffer, 1, settled)
        moved == IF state.inThink THEN [state EXCEPT !.reasoning = @ \o text]
                                  ELSE [state EXCEPT !.visible = @ \o text]
    IN  IF at = 0 THEN [moved EXCEPT !.buffer = Rest(@, settled + 1)]
        ELSE Stripped([moved EXCEPT !.inThink = ~@, !.buffer = Rest(@, at + Len(tag))])

Think(state, fragment) == Stripped([state EXCEPT !.buffer = @ \o fragment])

ThinkResult(state) ==
    [visible |-> state.visible \o (IF state.inThink THEN << >> ELSE state.buffer),
     reasoning |-> state.reasoning \o (IF state.inThink THEN state.buffer ELSE << >>),
     unclosed |-> state.inThink /\ state.buffer # << >>]

StripThinkBlocks(text) == ThinkResult(Think(NoThought, text))

\* Whether a turn thinks; charting, narrating and debugging do.
AutoPolicy(purpose) == purpose \in {"charting", "narration", "debugging"}
ShouldThink(requested, purpose) ==
    CASE requested = "auto" -> AutoPolicy(purpose) [] requested = "on" -> TRUE
      [] requested = "off" -> FALSE

-----------------------------------------------------------------------------
(* Reading one call.                                                       *)

(* A body is what strip_and_parse makes of it: the call, which a fence or a     *)
(* second encoding may have been around, another JSON value, or no JSON.       *)
Parses(body) == body.shape # "garbage"

\* The types of values, and what a string reads as.
TypeMatches(value, expected) ==
    CASE expected = "any" -> TRUE
      [] expected = "number" -> value \in {"integer", "number"}
      [] expected = "string" -> value \in {"string", "true text", "integer text", "number text"}
      [] OTHER -> value = expected

Coerce(value, expected) ==
    CASE expected = "boolean" /\ value = "true text" -> "boolean"
      [] expected = "number" /\ value \in {"integer text", "number text"} -> "number"
      [] expected = "integer" /\ value = "integer text" -> "integer"
      [] OTHER -> "none"

Absent == "absent"

\* One field: the value it ends with and the problem it has.
CheckField(value, field) ==
    LET coerced == Coerce(value, field.type)
    IN  CASE value # Absent /\ TypeMatches(value, field.type) -> [value |-> value, problem |-> "none"]
          [] value # Absent /\ ~TypeMatches(value, field.type) ->
               IF coerced = "none" THEN [value |-> value, problem |-> "wrong type"]
               ELSE [value |-> coerced, problem |-> "none"]
          [] value = Absent /\ field.required -> [value |-> Absent, problem |-> "missing"]
          [] OTHER -> [value |-> field.default, problem |-> "none"]

\* Fields are taken in the schema's order, up to the first problem.
ValidateAndRepair(arguments, schema) ==
    LET checked == [name \in DOMAIN schema.fields |-> CheckField(arguments[name], schema.fields[name])]
        failing == {k \in DOMAIN schema.order : checked[schema.order[k]].problem # "none"}
        reached == IF failing = {} THEN schema.order ELSE SubSeq(schema.order, 1, Min(failing) - 1)
    IN  [arguments |-> [name \in DOMAIN arguments |->
                           IF name \in ToSet(reached) THEN checked[name].value ELSE arguments[name]],
         repaired |-> {name \in ToSet(reached) : checked[name].value # arguments[name]},
         problem |-> IF failing = {} THEN "none" ELSE checked[schema.order[Min(failing)]].problem]

\* interpret: a call, or the reply that says why not.
Interpret(raw, schemas) ==
    LET checked == ValidateAndRepair(raw.body.arguments, schemas[raw.body.name])
        Failed(why) == [kind |-> "failed", why |-> why]
    IN  CASE ~raw.complete -> Failed("open at the end")
          [] raw.complete /\ ~Parses(raw.body) -> Failed("not JSON")
          [] raw.complete /\ Parses(raw.body) /\ raw.body.shape = "value" -> Failed("no name")
          [] raw.complete /\ Parses(raw.body) /\ raw.body.shape # "value"
               /\ raw.body.name \notin DOMAIN schemas -> Failed("no such tool")
          [] OTHER -> IF checked.problem # "none" THEN Failed(checked.problem)
                      ELSE [kind |-> "call", name |-> raw.body.name, arguments |-> checked.arguments]

\* Native fragments of a call are joined by position; one that never got a name fails all.
CollectNative(deltas) ==
    LET last == IF deltas = << >> THEN 0 ELSE Max({deltas[k].index : k \in DOMAIN deltas})
        Of(index) == SelectSeq(deltas, LAMBDA d : d.index = index)
        named(index) == SelectSeq(Of(index), LAMBDA d : d.name # "none")
        joined == [index \in 1..last |->
                      [name |-> IF named(index) = << >> THEN "none" ELSE Last(named(index)).name,
                       args |-> FlattenSeq([k \in DOMAIN Of(index) |-> Of(index)[k].args])]]
    IN  IF \E index \in 1..last : joined[index].name = "none" THEN "E_TOOL_INVALID_ARGS" ELSE joined
=============================================================================
