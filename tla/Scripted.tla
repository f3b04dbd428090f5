------------------------------ MODULE Scripted ------------------------------
(***************************************************************************)
(* The scripted engine that stands in for a model in the tests of every     *)
(* other crate: what a script plays, turn by turn and poll by poll.          *)
(* Source: crates/dark-engine-fake.                                          *)
(*                                                                         *)
(* A text is a sequence of "x" and " "; a piece of a call's arguments is a    *)
(* sequence of tokens.                                                      *)
(***************************************************************************)
EXTENDS Integers, SequencesExt, FiniteSetsExt

None == "none"

SplitTokens(text) ==
    LET step(read, char) ==
            IF char = " " THEN [read EXCEPT !.current = Append(@, char)]
            ELSE IF read.seen /\ read.current # <<>> /\ Last(read.current) = " "
                 THEN [tokens |-> Append(read.tokens, read.current), current |-> <<char>>, seen |-> TRUE]
                 ELSE [read EXCEPT !.current = Append(@, char), !.seen = TRUE]
        read == FoldLeft(step, [tokens |-> <<>>, current |-> <<>>, seen |-> FALSE], text)
    IN  read.tokens \o (IF read.current = <<>> THEN <<>> ELSE <<read.current>>)

TokenCount(text) == Len(SplitTokens(text))

\* A turn of a script: "error" is after how many chunks it fails, or << >>.
Turn(text, reasoning, calls, finish, error, steps) ==
    [text |-> text, reasoning |-> reasoning, tool_calls |-> calls, finish |-> finish,
     error |-> error, steps |-> steps]

FinishReasons == {"stop", "length", "tool_calls", "cancelled", "error"}

FinishReason(turn) ==
    IF turn.finish = None THEN (IF turn.tool_calls = <<>> THEN "stop" ELSE "tool_calls")
    ELSE IF turn.finish \in FinishReasons THEN turn.finish ELSE "unknown"

UsageFor(turn, prompt_tokens) ==
    [prompt |-> prompt_tokens, reasoning |-> TokenCount(turn.reasoning),
     completion |-> TokenCount(turn.text) + TokenCount(turn.reasoning)]

Chunk(kind, value) == [kind |-> kind, value |-> value]
Done(reason) == Chunk("done", reason)
Err == Chunk("error", None)

Chunks(kind, values) == [k \in DOMAIN values |-> Chunk(kind, values[k])]

Plan(turn, prompt_tokens) ==
    LET items == [k \in 1..turn.steps |-> Chunk("loading", (100 * k) \div turn.steps)]
                 \o Chunks("reasoning", SplitTokens(turn.reasoning))
                 \o Chunks("text", SplitTokens(turn.text))
                 \o Chunks("call", [k \in DOMAIN turn.tool_calls |->
                        [index |-> k, id |-> turn.tool_calls[k], name |-> turn.tool_calls[k], args |-> <<"{", "}">>]])
                 \o <<Chunk("usage", UsageFor(turn, prompt_tokens)), Done(FinishReason(turn))>>
    IN  IF turn.error = <<>> THEN items
        ELSE Append(SubSeq(items, 1, Min({turn.error[1], Len(items)})), Err)

\* What a caller that polls to the end is given, when the turn is cancelled once it
\* has been given "cancel" chunks; a larger number is no cancellation.
Played(items, cancel) ==
    LET fails == {k \in DOMAIN items : items[k] = Err}
        end == IF fails = {} THEN Len(items) ELSE Min(fails)
    IN  IF cancel < end \/ (cancel = end /\ fails = {})
        THEN Append(SubSeq(items, 1, cancel), Done("cancelled"))
        ELSE SubSeq(items, 1, end)

\* The engine after a request: the turns it counts as played, the requests it saw,
\* and how the call ends.
Stream(engine, script, request) ==
    LET next == engine.cursor + 1
    IN  [cursor |-> next, seen |-> Append(engine.seen, request),
         answer |-> IF next > Len(script) THEN "no turn left"
                    ELSE IF FinishReason(script[next]) = "unknown" THEN "bad script" ELSE "streams"]

Fresh == [cursor |-> 0, seen |-> <<>>, answer |-> None]

\* A call of a stream's chunks; "unnamed" is the empty name of a call no fragment named.
CollectToolCalls(chunks) ==
    LET deltas == SelectSeq(chunks, LAMBDA c : c.kind = "call")
        count == Max({0} \union {deltas[k].value.index : k \in DOMAIN deltas})
        of(index) == SelectSeq(deltas, LAMBDA d : d.value.index = index)
        given(index, key) ==
            LET named == SelectSeq(of(index), LAMBDA d : d.value[key] # None)
            IN  IF named = <<>> THEN "unnamed" ELSE Last(named).value[key]
        args(index) == FlattenSeq([k \in DOMAIN of(index) |-> of(index)[k].value.args])
    IN  IF \E index \in 1..count : args(index) # <<"{", "}">> THEN <<"bad arguments">>
        ELSE [index \in 1..count |-> [id |-> given(index, "id"), name |-> given(index, "name")]]

=============================================================================
