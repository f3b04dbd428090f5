----------------------------- MODULE Telemetry -----------------------------
(***************************************************************************)
(* The measurements of a turn, the files of JSON lines they and the         *)
(* transcripts are kept in, and the two listings made of those files.        *)
(* Source: crates/dark-core/src/{jsonl.rs,telemetry},                        *)
(* crates/dark-cli/src/{stats,session}.rs.                                   *)
(*                                                                         *)
(* A file is a sequence of pieces.  A record is written as two pieces and    *)
(* the newline, and a crash leaves the first of them.                        *)
(***************************************************************************)
EXTENDS Integers, SequencesExt, FiniteSetsExt

CONSTANTS
    OpeningWidth   \* OPENING_WIDTH

Newline == "newline"

-----------------------------------------------------------------------------
(* A file of JSON lines.                                                   *)

Line(record) == <<<<record, 1>>, <<record, 2>>, <<Newline, 0>>>>

\* TelemetryWriter::record, or the part of it that reaches the disk before a crash.
Written(file, record) == file \o Line(record)
TornAppend(file, record, pieces) == file \o SubSeq(Line(record), 1, pieces)

\* The lines of a file, the empty one after its last newline left out.
Lines(file) ==
    LET split == FoldLeft(
            LAMBDA lines, piece :
                IF piece[2] = 0 THEN Append(lines, <<>>)
                ELSE Append(Front(lines), Append(Last(lines), piece)),
            <<<<>>>>, file)
    IN  IF Last(split) = <<>> THEN Front(split) ELSE split

Parses(line) == Len(line) = 2 /\ line[1][1] = line[2][1] /\ line[1][2] = 1 /\ line[2][2] = 2

\* A line that is not JSON is dropped where it is the last and fails the read
\* where it is not.
ParseLines(file) ==
    LET lines == Lines(file)
        whole == SelectSeq(lines, LAMBDA line : line # <<>> /\ Parses(line))
    IN  [ok |-> \A k \in DOMAIN lines : k = Len(lines) \/ lines[k] = <<>> \/ Parses(lines[k]),
         records |-> [k \in DOMAIN whole |-> whole[k][1][1]]]

-----------------------------------------------------------------------------
(* The recorder.  An event has the time it reaches the recorder.           *)

NoTurn == [model_loads |-> 0, model_load_ms |-> 0, tool_calls |-> 0, tool_failures |-> 0,
           frame_overruns |-> 0]

NewRecorder == [turn |-> NoTurn, loads |-> << >>, written |-> <<>>]

RecordFrameOverrun(recorder) == [recorder EXCEPT !.turn.frame_overruns = @ + 1]

Loading(recorder, event) ==
    IF event.progress < 100
    THEN IF event.model \in DOMAIN recorder.loads THEN recorder
         ELSE [recorder EXCEPT !.loads = (event.model :> event.at) @@ @]
    ELSE IF event.model \notin DOMAIN recorder.loads THEN recorder
    ELSE [recorder EXCEPT
            !.turn.model_loads = @ + 1,
            !.turn.model_load_ms = @ + event.at - recorder.loads[event.model],
            !.loads = [m \in DOMAIN @ \ {event.model} |-> @[m]]]

OnEvent(recorder, event) ==
    CASE event.kind = "turn_start" -> [recorder EXCEPT !.turn = NoTurn]
      [] event.kind = "model_loading" -> Loading(recorder, event)
      [] event.kind = "tool_result" ->
            [recorder EXCEPT
                !.turn.tool_calls = @ + 1,
                !.turn.tool_failures = IF event.is_error THEN @ + 1 ELSE @]
      [] event.kind = "overrun" -> RecordFrameOverrun(recorder)
      [] event.kind = "turn_end" ->
            [recorder EXCEPT
                !.written = Append(@, [tokens |-> event.usage] @@ recorder.turn),
                !.turn = NoTurn]

Recorded(events) == FoldLeft(OnEvent, NewRecorder, events).written

-----------------------------------------------------------------------------
(* What is listed of the files.                                            *)

Total(records, key) == FoldLeft(LAMBDA sum, r : sum + r[key], 0, records)

\* Rates in thousandths: a ratio of sums.
Rate(part, whole) == IF whole = 0 THEN 0 ELSE (1000 * part) \div whole

Summary(records) ==
    [turns |-> Len(records),
     cache_hit_rate |-> Rate(Total(records, "cached"), Total(records, "prompt")),
     tool_failure_rate |-> Rate(Total(records, "tool_failures"), Total(records, "tool_calls"))]

\* A name is a directory's; "canonical" if it prints back as itself.
SessionIds(dirs) ==
    SetToSortSeq({d.id : d \in {d \in dirs : d.canonical}}, LAMBDA a, b : a < b)

\* One character of a message is "x", a blank or a control character.
Shorten(text) ==
    LET one_line == [k \in DOMAIN text |-> IF text[k] = "control" THEN " " ELSE text[k]]
        solid == {k \in DOMAIN one_line : one_line[k] # " "}
        trimmed == IF solid = {} THEN <<>> ELSE SubSeq(one_line, Min(solid), Max(solid))
    IN  IF Len(trimmed) <= OpeningWidth THEN trimmed
        ELSE Append(SubSeq(trimmed, 1, OpeningWidth - 1), "ellipsis")

Described(events) ==
    LET of(kind) == SelectSeq(events, LAMBDA e : e.kind = kind)
        starts == of("session_start")
        asked == of("user_message")
    IN  [root |-> IF starts = <<>> THEN "none" ELSE Last(starts).root,
         turns |-> Len(of("turn_end")),
         opening |-> IF asked = <<>> THEN <<>> ELSE Shorten(asked[1].text)]

\* What a listing says of each session: its description, or that it cannot be read.
Listing(dirs, files) ==
    [k \in DOMAIN SessionIds(dirs) |->
        LET read == ParseLines(files[SessionIds(dirs)[k]])
        IN  IF read.ok THEN Described(read.records) ELSE "unreadable"]

=============================================================================
