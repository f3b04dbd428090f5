------------------------------ MODULE TurnLoop ------------------------------
(***************************************************************************)
(* One turn (crates/dark-core/src/turn: run_turn): rounds against the      *)
(* engine, the accumulator that folds a round's chunks, a reply for every  *)
(* call through the policy, the confirmation and the tool timeout, and     *)
(* the cancellation token that the person, a tool and the engine share.    *)
(*                                                                         *)
(* A call is its position in the stream; what the loop tells calls apart   *)
(* by is their kind: arguments that do not parse ("garbled"), a tool that  *)
(* does not exist ("unknown"), or the kind of action its tool performs.    *)
(***************************************************************************)
EXTENDS Messages, FiniteSets

CONSTANTS
    RoundTripLimit,  \* TurnConfig::round_trip_limit
    Policy,          \* PolicyConfig: an action kind's "allow", "confirm" or "deny"
    Mode,            \* RunMode: "interactive", "headless_yes" or "headless_no"
    NativeTools,     \* Caps::native_tools: the engine reports calls itself
    CancelsOnDrop,   \* the engine's stream cancels the token when it drops
    ToolTimeout,     \* TurnConfig::tool_timeout, in ticks
    CancelGrace      \* TurnConfig::cancel_grace, in ticks

Actions == {"read", "write", "exec"}

ASSUME ConfigAssumption ==
    /\ RoundTripLimit \in Nat /\ ToolTimeout \in Nat /\ CancelGrace \in Nat
    /\ Policy \in [Actions -> {"allow", "confirm", "deny"}]
    /\ Mode \in {"interactive", "headless_yes", "headless_no"}
    /\ NativeTools \in BOOLEAN /\ CancelsOnDrop \in BOOLEAN

Untouched == "untouched"       \* an index the stream has not named
CallKinds == Actions \cup {"garbled", "unknown"}
NoPrompt  == 0

VARIABLES
    pc,           \* where run_turn is waiting
    history,      \* the messages the turn produced
    roundTrips,   \* rounds completed
    acc,          \* Accumulator::calls of the current round
    finish,       \* the finish reason of the last round
    calls,        \* the calls the last round issued, in order
    answered,     \* how many of them have a reply
    stopping,     \* run_turn's `cancelled`, read when the stream ended
    cancelledBy,  \* who cancelled the token
    prompts,      \* ChannelConfirmer::next_id
    asked,        \* the prompt ChannelConfirmer::pending holds
    clock,        \* ticks since the tool started, and since it was cancelled
    end,          \* TurnEnd
    lateRounds,   \* history variable: rounds opened after the cancellation
    lateRuns      \* history variable: tools started after the cancellation

confirmVars == <<prompts, asked>>
roundVars   == <<roundTrips, acc, finish, calls, stopping>>
lateVars    == <<lateRounds, lateRuns>>
vars == <<pc, history, roundVars, answered, cancelledBy, confirmVars, clock, end, lateVars>>

Cancelled == cancelledBy # {}
One(b)    == IF b THEN 1 ELSE 0

\* Mutant of Current: the calls are answered from the last one back.
CurrentFromTheEnd == calls[Len(calls) - answered]

Current == calls[answered + 1]
Kind    == acc[Current]

\* Policy::classify; "ask" is Decision::NeedsConfirmation.
Classify(kind) ==
    IF Policy[kind] # "confirm" THEN Policy[kind]
    ELSE CASE Mode = "headless_yes" -> "allow"
           [] Mode = "headless_no"  -> "deny"
           [] Mode = "interactive"  -> "ask"

Init ==
    /\ pc = "request" /\ history = <<>> /\ roundTrips = 0
    /\ acc = [i \in Index |-> Untouched] /\ finish = "none"
    /\ calls = <<>> /\ answered = 0 /\ stopping = FALSE
    /\ cancelledBy = {} /\ prompts = 0 /\ asked = NoPrompt
    /\ clock = [ran |-> 0, sinceCancel |-> 0] /\ end = "none"
    /\ lateRounds = 0 /\ lateRuns = 0
-----------------------------------------------------------------------------
(* A round trip: run_turn up to the stream, and stream_one_round.          *)

\* Mutant of AtLimit: one round too late.
AtLimitLate == roundTrips > RoundTripLimit

AtLimit == roundTrips >= RoundTripLimit

\* The wind-up notice is pushed before the request is made.
OpenRound ==
    /\ pc = "request"
    /\ pc' = "streaming"
    /\ history' = IF AtLimit THEN Append(history, Notice) ELSE history
    /\ acc' = [i \in Index |-> Untouched]
    /\ lateRounds' = lateRounds + One(Cancelled)
    /\ UNCHANGED <<roundTrips, finish, calls, stopping, answered, cancelledBy,
                   confirmVars, clock, end, lateRuns>>

\* Engine::stream fails, or a chunk is an error: the turn returns the error.
EngineFails ==
    /\ pc \in {"request", "streaming"}
    /\ pc' = "failed"
    /\ UNCHANGED <<history, roundVars, answered, cancelledBy, confirmVars, clock, end, lateVars>>

\* Chunk::ToolCallDelta: a fragment names the tool, or breaks its arguments.
\* A request with ToolChoice::None gets no native call.
Delta(i, kind) ==
    /\ pc = "streaming"
    /\ NativeTools => ~AtLimit
    /\ acc' = [acc EXCEPT ![i] = kind]
    /\ UNCHANGED <<pc, history, roundTrips, finish, calls, stopping, answered, cancelledBy,
                   confirmVars, clock, end, lateVars>>

\* Accumulator::finish: the touched indexes in order; a gap is no call.
Issued(ids) ==
    /\ \A i \in Index : acc[i] # Untouched <=> \E k \in DOMAIN ids : ids[k] = i
    /\ \A j, k \in DOMAIN ids : j < k => ids[j] < ids[k]

\* What the engine may report.  "Error" also stands for a stream that ends
\* without a Done chunk.  Scraped calls leave the engine's reason as it is.
EngineReasons ==
    {"Error"} \cup (IF NativeTools /\ \E i \in Index : acc[i] # Untouched
                    THEN {"ToolCalls"} ELSE {"Stop", "Length"})

FinishReason(reason) == IF Cancelled THEN "Cancelled" ELSE reason

\* Dropping the stream: the token handed to the engine is the turn's own.
AfterDrop == IF CancelsOnDrop THEN cancelledBy \cup {"drop"} ELSE cancelledBy

StreamEnds(reason, ids) ==
    /\ pc = "streaming"
    /\ reason \in EngineReasons /\ Issued(ids)
    /\ pc' = "answering"
    /\ finish' = FinishReason(reason)
    /\ cancelledBy' = AfterDrop
    /\ stopping' = (FinishReason(reason) = "Cancelled" \/ AfterDrop # {})
    /\ roundTrips' = roundTrips + 1
    /\ calls' = ids
    /\ answered' = 0
    /\ history' = Append(history, Assistant(ids))
    /\ UNCHANGED <<acc, confirmVars, clock, end, lateVars>>
-----------------------------------------------------------------------------
(* answer_all and run_one_call.                                            *)

CallWaits == pc = "answering" /\ answered < Len(calls)

Reply ==
    /\ history' = Append(history, ToolReply(Current))
    /\ answered' = answered + 1
    /\ pc' = "answering"

Invoke ==
    /\ pc' = "invoking"
    /\ clock' = [ran |-> 0, sinceCancel |-> 0]
    /\ lateRuns' = lateRuns + One(Cancelled)
    /\ UNCHANGED <<history, answered>>

\* Mutant of MayRun: the token is read once for the round.
MayRunReadOnce == ~stopping

MayRun == ~stopping /\ ~Cancelled

\* Mutant of SkipCancelled: a cancellation returns without the replies.
SkipWithoutReply ==
    /\ CallWaits /\ ~MayRun
    /\ answered' = Len(calls)
    /\ UNCHANGED <<pc, history, roundVars, cancelledBy, confirmVars, clock, end, lateVars>>

SkipCancelled ==
    /\ CallWaits /\ ~MayRun
    /\ Reply
    /\ UNCHANGED <<roundVars, cancelledBy, confirmVars, clock, end, lateVars>>

RejectCall ==
    /\ CallWaits /\ MayRun /\ Kind \in {"garbled", "unknown"}
    /\ Reply
    /\ UNCHANGED <<roundVars, cancelledBy, confirmVars, clock, end, lateVars>>

\* Mutant of StartAllowed: what is not denied runs without asking.
StartUndenied ==
    /\ CallWaits /\ MayRun /\ Kind \in Actions /\ Classify(Kind) # "deny"
    /\ Invoke
    /\ UNCHANGED <<roundVars, cancelledBy, confirmVars, end, lateRounds>>

StartAllowed ==
    /\ CallWaits /\ MayRun /\ Kind \in Actions /\ Classify(Kind) = "allow"
    /\ Invoke
    /\ UNCHANGED <<roundVars, cancelledBy, confirmVars, end, lateRounds>>

StartPreview ==
    /\ CallWaits /\ MayRun /\ Kind \in Actions /\ Classify(Kind) # "allow"
    /\ pc' = "previewing"
    /\ UNCHANGED <<history, roundVars, answered, cancelledBy, confirmVars, clock, end, lateVars>>

\* Policy::decide after the preview: a denial, or ChannelConfirmer::confirm.
DenyCall ==
    /\ pc = "previewing" /\ Classify(Kind) = "deny"
    /\ Reply
    /\ UNCHANGED <<roundVars, cancelledBy, confirmVars, clock, end, lateVars>>

AskPerson ==
    /\ pc = "previewing" /\ Classify(Kind) = "ask"
    /\ pc' = "confirming"
    /\ prompts' = prompts + 1
    /\ asked' = prompts + 1
    /\ UNCHANGED <<history, roundVars, answered, cancelledBy, clock, end, lateVars>>

\* ChannelConfirmer::resolve: an answer to any other prompt finds no sender.
Answers(id) == asked = id

Resolve(id, allow) ==
    /\ Answers(id)
    /\ pc = "confirming"
    /\ asked' = NoPrompt
    /\ IF allow THEN Invoke ELSE Reply /\ UNCHANGED <<clock, lateRuns>>
    /\ UNCHANGED <<roundVars, cancelledBy, prompts, end, lateRounds>>

\* Tool::invoke answers; it holds the token and may cancel the turn itself.
ToolReturns ==
    /\ pc = "invoking"
    /\ Reply
    /\ \E byTool \in {{}, {"tool"}} : cancelledBy' = cancelledBy \cup byTool
    /\ UNCHANGED <<roundVars, confirmVars, clock, end, lateVars>>

\* Mutant of TimeLeft: one tick too many.
TimeLeftInclusive == clock.ran <= ToolTimeout

\* tokio::time::timeout around the call, with no branch for the token.
TimeLeft == clock.ran < ToolTimeout

Tick ==
    /\ pc = "invoking" /\ TimeLeft
    /\ clock' = [ran |-> clock.ran + 1, sinceCancel |-> clock.sinceCancel + One(Cancelled)]
    /\ UNCHANGED <<pc, history, roundVars, answered, cancelledBy, confirmVars, end, lateVars>>

\* Mutant of ToolTimesOut: only a cancelled tool is abandoned.
TimesOutIfCancelled ==
    /\ pc = "invoking" /\ ~TimeLeft /\ Cancelled
    /\ Reply
    /\ UNCHANGED <<roundVars, cancelledBy, confirmVars, clock, end, lateVars>>

\* Mutant of ToolTimesOut: a cancellation disarms the timeout.
TimesOutUnlessCancelled ==
    /\ pc = "invoking" /\ ~TimeLeft /\ ~Cancelled
    /\ Reply
    /\ UNCHANGED <<roundVars, cancelledBy, confirmVars, clock, end, lateVars>>

ToolTimesOut ==
    /\ pc = "invoking" /\ ~TimeLeft
    /\ Reply
    /\ UNCHANGED <<roundVars, cancelledBy, confirmVars, clock, end, lateVars>>

\* Mutant of Verdict: one call is not worth another round.
VerdictForMany ==
    IF stopping THEN "Cancelled"
    ELSE IF roundTrips > RoundTripLimit THEN "LimitReached"
    ELSE IF finish = "ToolCalls" /\ Len(calls) > 1 THEN "none" ELSE "Stopped"

\* The end of run_turn's loop body; at_limit was read before the round.
Verdict ==
    IF stopping THEN "Cancelled"
    ELSE IF roundTrips > RoundTripLimit THEN "LimitReached"
    ELSE IF finish = "ToolCalls" /\ calls # <<>> THEN "none" ELSE "Stopped"

CloseRound ==
    /\ pc = "answering" /\ answered = Len(calls)
    /\ end' = Verdict
    /\ pc' = IF Verdict = "none" THEN "request" ELSE "ended"
    /\ UNCHANGED <<history, roundVars, answered, cancelledBy, confirmVars, clock, lateVars>>
-----------------------------------------------------------------------------
Over == pc \in {"ended", "failed"}

\* The turn's owner cancels the token (one_turn in crates/dark-cli/src/shell.rs).
Cancel ==
    /\ cancelledBy' = cancelledBy \cup {"person"}
    /\ UNCHANGED <<pc, history, roundVars, answered, confirmVars, clock, end, lateVars>>

EngineStep == OpenRound \/ EngineFails \/ \E i \in Index, k \in CallKinds : Delta(i, k)
                \/ \E r \in EngineReasons, ids \in CallLists : StreamEnds(r, ids)
CallStep   == \/ SkipCancelled \/ RejectCall \/ StartAllowed \/ StartPreview
              \/ DenyCall \/ AskPerson
ToolStep   == ToolReturns \/ Tick \/ ToolTimesOut
LoopStep   == EngineStep \/ CallStep \/ ToolStep \/ CloseRound
PersonStep == \/ pc # "failed" /\ pc # "ended" /\ Cancel
              \/ \E id \in 1..prompts, allow \in BOOLEAN : Resolve(id, allow)

Next == LoopStep \/ PersonStep \/ (Over /\ UNCHANGED vars)

Spec == Init /\ [][Next]_vars

\* Fairness: run_turn is polled whenever it can go on, the engine ends its
\* stream, a preview returns and the timer fires.  A tool need not return.
LoopFairness ==
    /\ WF_vars(OpenRound \/ EngineFails)
    /\ WF_vars(\E r \in EngineReasons, ids \in CallLists : StreamEnds(r, ids))
    /\ WF_vars(CallStep \/ CloseRound)
    /\ WF_vars(Tick \/ ToolTimesOut)

\* With a person who answers every prompt, and without one.
AttendedSpec   == Spec /\ LoopFairness /\ WF_vars(\E allow \in BOOLEAN : Resolve(asked, allow))
UnattendedSpec == Spec /\ LoopFairness
-----------------------------------------------------------------------------
(* Properties.                                                             *)

TypeOK ==
    /\ pc \in {"request", "streaming", "answering", "previewing", "confirming",
               "invoking", "ended", "failed"}
    /\ history \in Seq(Message)
    /\ roundTrips \in Nat
    /\ acc \in [Index -> CallKinds \cup {Untouched}]
    /\ finish \in {"none", "Stop", "Length", "ToolCalls", "Cancelled", "Error"}
    /\ calls \in CallLists
    /\ answered \in 0..Len(calls)
    /\ stopping \in BOOLEAN
    /\ cancelledBy \subseteq {"person", "tool", "drop"}
    /\ prompts \in Nat /\ asked \in 0..prompts
    /\ clock \in [ran : 0..ToolTimeout, sinceCancel : 0..ToolTimeout]
    /\ end \in {"none", "Stopped", "LimitReached", "Cancelled"}
    /\ lateRounds \in Nat /\ lateRuns \in Nat

\* Whenever the history goes to the engine or back to the caller, each call
\* in it is followed by its replies, whatever became of the calls: the
\* check TurnOutcome::history_is_well_formed makes on a finished turn.
HistoryWellFormed == pc \in {"request", "streaming", "ended"} => WellFormed(history)

\* The turn implements the log a chat template can render: it only grows,
\* calls are answered in order, and nothing else is said while one waits.
Template == INSTANCE ChatTemplate WITH
    log <- history, owed <- SubSeq(calls, answered + 1, Len(calls)), closed <- Over
TemplateKept == Template!Spec

\* A tool starts only for a call that parsed, names a registered tool and
\* is not denied by the policy in this mode, in a round that had not been
\* cancelled when its stream ended (run_one_call's checks, in order).
OnlyPermittedRun ==
    [][(pc # "invoking" /\ pc' = "invoking")
        => /\ Kind \in Actions /\ ~stopping
           /\ \/ Policy[Kind] = "allow"
              \/ /\ Policy[Kind] = "confirm"
                 /\ Mode = "headless_yes" \/ (Mode = "interactive" /\ pc = "confirming")]_vars

\* After a cancellation at most the call then waiting on a person still
\* runs, and the engine is asked at most once more: answer_all re-checks the
\* token before every call, run_turn after every stream.
CancelStopsSoon == lateRuns <= 1 /\ lateRounds <= 1

\* The loop takes one round past the limit, the wind-up, and announces it
\* once ("It must not exit at the round-trip limit", and must not go on).
OneWindUp ==
    /\ roundTrips <= RoundTripLimit + 1
    /\ pc # "failed" =>
         Cardinality({i \in DOMAIN history : history[i].role = "system"})
          = One(roundTrips > RoundTripLimit \/ (pc = "streaming" /\ AtLimit))

\* A turn that stops has shown the model every result it asked for: the loop
\* "runs again until the model stops asking".
ResultsReachModel ==
    (end = "Stopped" /\ finish # "Error") => history[Len(history)].role # "tool"

\* TurnEnd::Cancelled, "A person cancelled the turn": nothing but the person
\* or a tool ends a turn this way.
CancelledByRequest == end = "Cancelled" => cancelledBy \cap {"person", "tool"} # {}

\* Every turn ends, when prompts are answered and previews return.
TurnEnds == <>Over

\* run_turn's "`cancel` stops the turn".
CancelEndsTurn == Cancelled ~> Over

\* TurnConfig::cancel_grace, "How long a running tool has to stop after a
\* cancellation".
GraceRespected == clock.sinceCancel <= CancelGrace

\* Accumulated::finish, "the turn loop must not read that as a clean stop".
ErrorIsNoStop == end = "Stopped" => finish # "Error"
=============================================================================
