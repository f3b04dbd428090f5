----------------------------- MODULE Recording -----------------------------
(***************************************************************************)
(* How a headless turn (dark run, dark acp) gets on to paper: the turn     *)
(* sends events on the bus of crates/dark-contract/src/event.rs, a printer *)
(* shows and records them (crates/dark-cli/src/run.rs), the transcript     *)
(* buffers them on their way to the disk and `dark session resume` rebuilds*)
(* the conversation (crates/dark-core/src/session/transcript.rs).          *)
(*                                                                         *)
(* The turn is reduced to what it sends: rounds of streamed text, the calls*)
(* a round asks for and their results.  Reasoning travels as text does, and*)
(* events the rebuild skips are left out.                                  *)
(***************************************************************************)
EXTENDS Integers, Sequences, SequencesExt

CONSTANTS
    LossyCapacity,     \* LOSSY_CAPACITY
    ReliableCapacity,  \* RELIABLE_CAPACITY
    MaxRounds,         \* bound: round trips of the turn
    MaxDeltas,         \* bound: pieces of text in a round
    MaxCalls,          \* bound: calls in a round
    Faults             \* what may go wrong, of "engine", "disk" and "crash"

ASSUME RecordingAssumption ==
    /\ LossyCapacity \in Nat \ {0} /\ ReliableCapacity \in Nat \ {0}
    /\ MaxRounds \in Nat \ {0} /\ MaxDeltas \in Nat /\ MaxCalls \in Nat
    /\ Faults \subseteq {"engine", "disk", "crash"}

VARIABLES
    turn,       \* the turn: what it does, in which round, with which calls left
    held,       \* TurnOutcome::messages, after what the person asked
    sent,       \* history variable: every event, in the order it was sent
    lossy, reliable,  \* what the printer's EventRx has not received yet
    printer,    \* "running", "stopped" at the end of the turn, "broken" by a
                \* failed write, or "killed" with the process
    shown,      \* the text on standard output
    buffer,     \* TranscriptWriter's BufWriter
    disk        \* the complete lines of transcript.jsonl

busVars    == <<lossy, reliable>>
paperVars  == <<printer, shown, buffer, disk>>
recordVars == <<turn, held, sent, busVars, paperVars>>

\* A piece of text is its round and its position; a call likewise.
Delta(piece)   == [kind |-> "token_delta", of |-> piece]
Lifecycle(k)   == [kind |-> k, of |-> <<0, 0>>]
Called(call)   == [kind |-> "tool_call", of |-> call]
Returned(call) == [kind |-> "tool_result", of |-> call]

User              == [role |-> "user", text |-> << <<0, 0>> >>, calls |-> <<>>]
Said(text, calls) == [role |-> "assistant", text |-> text, calls |-> calls]
Reply(call)       == [role |-> "tool", text |-> <<call>>, calls |-> <<>>]
-----------------------------------------------------------------------------
(* The bus: two broadcast rings.  A full ring drops its oldest event, which*)
(* the receiver learns as a lag.                                           *)

\* Mutant of IsLossy: a tool result counts as streaming text.
IsLossyResults(e) == e.kind \in {"token_delta", "tool_result"}

IsLossy(e) == e.kind = "token_delta"

Ring(queue, capacity, e) ==
    Append(IF Len(queue) < capacity THEN queue ELSE Tail(queue), e)

\* EventTx::send, when the printer may have stopped listening.
Send(e) ==
    /\ sent' = Append(sent, e)
    /\ lossy' = IF printer = "running" /\ IsLossy(e)
                THEN Ring(lossy, LossyCapacity, e) ELSE lossy
    /\ reliable' = IF printer = "running" /\ ~IsLossy(e)
                   THEN Ring(reliable, ReliableCapacity, e) ELSE reliable

\* EventRx::recv: a biased select, the reliable ring first.
Received ==
    IF reliable # <<>> THEN <<Head(reliable)>>
    ELSE IF lossy # <<>> THEN <<Head(lossy)>> ELSE <<>>

Receive ==
    /\ Received # <<>>
    /\ reliable' = IF reliable # <<>> THEN Tail(reliable) ELSE reliable
    /\ lossy' = IF reliable = <<>> THEN Tail(lossy) ELSE lossy
-----------------------------------------------------------------------------
(* The turn: drive_one_turn around run_turn.                               *)

Opening == <<Lifecycle("turn_start"), Lifecycle("user_message")>>

Init ==
    /\ turn = [does |-> "streaming", round |-> 1, text |-> <<>>, calls |-> <<>>]
    /\ held = <<User>> /\ sent = Opening
    /\ lossy = <<>> /\ reliable = Opening
    /\ printer = "running" /\ shown = <<>> /\ buffer = <<>> /\ disk = <<>>

Alive == printer # "killed"

\* stream_one_round forwards a piece as it arrives.
Stream ==
    /\ Alive /\ turn.does = "streaming" /\ Len(turn.text) < MaxDeltas
    /\ LET piece == <<turn.round, Len(turn.text) + 1>>
       IN  /\ Send(Delta(piece))
           /\ turn' = [turn EXCEPT !.text = Append(@, piece)]
    /\ UNCHANGED <<held, paperVars>>

\* The end of a stream pushes the message, with the calls it asks for; a
\* round without calls ends the turn.
EndRound(n) ==
    /\ Alive /\ turn.does = "streaming"
    /\ n > 0 => turn.round < MaxRounds
    /\ LET calls == [i \in 1..n |-> <<turn.round, i>>]
       IN  /\ held' = Append(held, Said(turn.text, calls))
           /\ turn' = [turn EXCEPT !.does = IF n = 0 THEN "ending" ELSE "calling",
                                   !.calls = calls, !.text = <<>>]
    /\ UNCHANGED <<sent, busVars, paperVars>>

EngineFails ==
    /\ "engine" \in Faults /\ Alive /\ turn.does = "streaming"
    /\ turn' = [turn EXCEPT !.does = "broken"]
    /\ UNCHANGED <<held, sent, busVars, paperVars>>

\* answer_all announces a call, runs it, and reports what it returned.
Call ==
    /\ Alive /\ turn.does = "calling"
    /\ Send(Called(Head(turn.calls)))
    /\ turn' = [turn EXCEPT !.does = "answering"]
    /\ UNCHANGED <<held, paperVars>>

Answer ==
    /\ Alive /\ turn.does = "answering"
    /\ LET call == Head(turn.calls)
           rest == Tail(turn.calls)
       IN  /\ Send(Returned(call))
           /\ held' = Append(held, Reply(call))
           /\ turn' = [turn EXCEPT !.calls = rest,
                           !.does = IF rest = <<>> THEN "streaming" ELSE "calling",
                           !.round = IF rest = <<>> THEN @ + 1 ELSE @]
    /\ UNCHANGED paperVars

\* A failed turn ends like any other: the printer stops on this event.
EndTurn ==
    /\ Alive /\ turn.does \in {"ending", "broken"}
    /\ Send(Lifecycle("turn_end"))
    /\ turn' = [turn EXCEPT !.does = IF @ = "broken" THEN "failed" ELSE "over"]
    /\ UNCHANGED <<held, paperVars>>
-----------------------------------------------------------------------------
(* The printer and the transcript it writes.                               *)

Printed(e) == IF e.kind = "token_delta" THEN Append(shown, e.of) ELSE shown

\* Mutant of Stops: the printer waits for the channel to close, which the
\* resident set's own sender prevents.
StopsOnClose(e) == FALSE

Stops(e) == e.kind = "turn_end"

\* TranscriptWriter::record appends to the buffer and writes it out at the
\* end of the turn, where the printer leaves its loop.
Record ==
    /\ printer = "running" /\ Receive
    /\ LET e == Received[1]
       IN  /\ shown' = Printed(e)
           /\ IF Stops(e)
              THEN /\ disk' = disk \o Append(buffer, e) /\ buffer' = <<>>
                   /\ printer' = "stopped"
              ELSE buffer' = Append(buffer, e) /\ UNCHANGED <<disk, printer>>
    /\ UNCHANGED <<turn, held, sent>>

\* A full BufWriter writes out what it holds.
Spill ==
    /\ printer = "running" /\ buffer # <<>>
    /\ disk' = disk \o buffer /\ buffer' = <<>>
    /\ UNCHANGED <<turn, held, sent, busVars, printer, shown>>

\* A write that fails stops the recording, not the turn; the last flush may
\* still get some of it out.
WriteFails ==
    /\ "disk" \in Faults /\ printer = "running" /\ Receive
    /\ \E n \in 0..Len(buffer) : disk' = disk \o SubSeq(buffer, 1, n)
    /\ printer' = "broken" /\ buffer' = <<>> /\ shown' = Printed(Received[1])
    /\ UNCHANGED <<turn, held, sent>>

\* The process dies between two writes; a piece of the next line may be on
\* the disk as well, which read_events drops.
Crash ==
    /\ "crash" \in Faults /\ Alive
    /\ \E n \in 0..Len(buffer) : disk' = disk \o SubSeq(buffer, 1, n)
    /\ printer' = "killed" /\ buffer' = <<>>
    /\ UNCHANGED <<turn, held, sent, busVars, shown>>

TurnSteps  == Stream \/ (\E n \in 0..MaxCalls : EndRound(n)) \/ EngineFails
              \/ Call \/ Answer \/ EndTurn

Next == TurnSteps \/ Record \/ Spill \/ WriteFails \/ Crash

\* The printer's task is scheduled; the turn may take as long as it likes.
Spec == Init /\ [][Next]_recordVars /\ WF_recordVars(Record)
-----------------------------------------------------------------------------
(* rebuild_messages: what a recording replays to.                          *)

NothingYet == [messages |-> <<>>, open |-> FALSE, text |-> <<>>, calls |-> <<>>]

\* flush_turn: takes the accumulator, and keeps it only if it holds something.
Flushed(r) ==
    [NothingYet EXCEPT !.messages =
        IF r.open /\ (r.text # <<>> \/ r.calls # <<>>)
        THEN Append(r.messages, Said(r.text, r.calls)) ELSE r.messages]

\* Mutant of Folded: a result does not close the message that asked for it.
FoldedOpen(r, e) ==
    CASE e.kind = "turn_start"   -> [Flushed(r) EXCEPT !.open = TRUE]
      [] e.kind = "user_message" -> [Flushed(r) EXCEPT !.messages = Append(@, User)]
      [] e.kind = "token_delta"  -> IF r.open THEN [r EXCEPT !.text = Append(@, e.of)] ELSE r
      [] e.kind = "tool_call"    -> IF r.open THEN [r EXCEPT !.calls = Append(@, e.of)] ELSE r
      [] e.kind = "tool_result"  -> [r EXCEPT !.open = TRUE,
                                              !.messages = Append(@, Reply(e.of))]
      [] e.kind = "turn_end"     -> Flushed(r)

Folded(r, e) ==
    CASE e.kind = "turn_start"   -> [Flushed(r) EXCEPT !.open = TRUE]
      [] e.kind = "user_message" -> [Flushed(r) EXCEPT !.messages = Append(@, User)]
      [] e.kind = "token_delta"  -> IF r.open THEN [r EXCEPT !.text = Append(@, e.of)] ELSE r
      [] e.kind = "tool_call"    -> IF r.open THEN [r EXCEPT !.calls = Append(@, e.of)] ELSE r
      [] e.kind = "tool_result"  -> [Flushed(r) EXCEPT !.open = TRUE,
                                                       !.messages = Append(@, Reply(e.of))]
      [] e.kind = "turn_end"     -> Flushed(r)

Rebuilt(events) == Flushed(FoldLeft(Folded, NothingYet, events)).messages
-----------------------------------------------------------------------------
(* Properties.                                                             *)

Announced(events) ==
    FoldLeft(LAMBDA said, e : IF e.kind = "token_delta" THEN said ELSE Append(said, e),
             <<>>, events)

\* A tool result is never lost on its way to the disk, whatever the lossy
\* ring drops and whenever the process dies (Event::is_lossy: "Losing a tool
\* result costs correctness"): what is recorded of the turn's course, calls
\* and results is always a prefix of what happened, and all of it once the
\* printer has stopped on the turn's end.
ResultsKept ==
    LET written == Announced(disk \o buffer)
    IN  /\ IsPrefix(written, Announced(sent))
        /\ printer = "stopped" => written = Announced(sent)

\* A finished recording replays to a conversation a model can be given:
\* whatever call a rebuilt message asks for, the next message answers it.
ReplayAnswersCalls ==
    LET replay == Rebuilt(disk)
    IN  printer = "stopped" =>
            \A i \in 1..Len(replay) : replay[i].calls # <<>> =>
                /\ i < Len(replay) /\ replay[i + 1].role = "tool"
                /\ replay[i].calls = replay[i + 1].text

\* drive_one_turn waits for the printer and must get it back.
PrinterEnds == turn.does \in {"over", "failed"} /\ Alive ~> printer # "running"

Finished == turn.does = "over" /\ printer = "stopped"

\* What transcript.rs says, that replay reproduces the message list exactly,
\* leaving out messages that say nothing.
ReplayIsExact ==
    Finished => Rebuilt(disk) = SelectSeq(held, LAMBDA m : m.text # <<>> \/ m.calls # <<>>)

\* What run.rs says of a lagging display, that it costs nothing that
\* matters: when the turn is over the person has seen the whole reply,
\* streamed or, if nothing was, printed by `report` at the end.
ReplyShown ==
    Finished /\ shown # <<>> => shown = FlattenSeq([i \in 1..Len(held) |->
        IF held[i].role = "assistant" THEN held[i].text ELSE <<>>])
=============================================================================
