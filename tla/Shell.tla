------------------------------- MODULE Shell -------------------------------
(***************************************************************************)
(* The interactive session (crates/dark-cli/src/shell.rs: drive, one_turn, *)
(* one_acp_turn) between the terminal application (crates/dark-tui/src/app)*)
(* and the turn loop: intents cross a channel, a submission starts a turn  *)
(* or waits for the running one, and answers go back to open prompts.      *)
(*                                                                         *)
(* A local turn is TurnLoop, step for step; a turn answered by an ACP      *)
(* agent opens no prompt (Foreign), so it is what it leaves in the         *)
(* conversation.  The two hops of the intent channel are one queue, and an *)
(* event reaches the screen at once: the time it takes is part of the time *)
(* the answer spends in the channel.                                       *)
(***************************************************************************)
EXTENDS TurnLoop

CONSTANTS
    Texts,       \* what the person may type, of "prompt", "/quit", "/acp", "/godark"
    Keys,        \* the other things that happen at the terminal, of "cancel",
                 \* "dark", "quit" and "crash"
    Routes,      \* the routes a session may start with, of "local" and "agent"
    MaxTyped,    \* bound: submissions in a session
    MaxChannel   \* bound: intents waiting in the channel

ASSUME ShellAssumption ==
    /\ Texts \subseteq {"prompt", "/quit", "/acp", "/godark"}
    /\ Keys \subseteq {"cancel", "dark", "quit", "crash"}
    /\ Routes \subseteq {"local", "agent"}
    /\ MaxTyped \in Nat /\ MaxChannel \in Nat

VARIABLES
    drive,         \* what drive is doing: "reading", "turn", "agent", "returned", "failed"
    intents,       \* the intent channel
    queued,        \* drive's `queued`: submissions, by the position they were typed at
    exit,          \* the running turn's TurnExit
    dark,          \* drive's `dark`
    route,         \* TurnRoute
    ready,         \* whether a harness is up
    conversation,  \* Conversation::messages, without what the person typed
    app,           \* whether the terminal application runs: "open" or "left"
    screen,        \* App::pending_confirms, by identifier
    typed,         \* history variable: everything submitted, in order
    taken,         \* history variable: what became of it, in order
    wished         \* history variable: the last dark mode asked for and received

turnVars    == vars
appVars     == <<app, screen, typed>>
driveVars   == <<drive, queued, exit, dark, route, ready, conversation, taken, wished>>
sessionVars == <<turnVars, appVars, driveVars, intents>>

NoExit      == [quit |-> FALSE, queued |-> <<>>]
SessionOver == drive \in {"returned", "failed"}
TurnActive  == drive \in {"turn", "agent"}

SessionInit ==
    /\ pc = "ended" /\ history = <<>> /\ roundTrips = 0
    /\ acc = [i \in Index |-> Untouched] /\ finish = "none"
    /\ calls = <<>> /\ answered = 0 /\ stopping = FALSE
    /\ cancelledBy = {} /\ prompts = 0 /\ asked = NoPrompt
    /\ clock = [ran |-> 0, sinceCancel |-> 0] /\ end = "none"
    /\ lateRounds = 0 /\ lateRuns = 0
    /\ drive = "reading" /\ intents = <<>> /\ queued = <<>> /\ exit = NoExit
    /\ dark \in BOOLEAN /\ wished = dark
    /\ route \in Routes /\ ready \in BOOLEAN
    /\ conversation = <<>>
    /\ app = "open" /\ screen = <<>> /\ typed = <<>> /\ taken = <<>>
-----------------------------------------------------------------------------
(* The terminal application.                                               *)

Send(intent) == /\ app = "open" /\ Len(intents) < MaxChannel
                /\ intents' = Append(intents, intent)

Type(text) ==
    /\ Len(typed) < MaxTyped
    /\ Send([kind |-> "submit", text |-> Len(typed) + 1])
    /\ typed' = Append(typed, text)
    /\ UNCHANGED <<turnVars, app, screen, driveVars>>

\* App::answer_confirm: the oldest prompt on the screen.
AnswerPrompt(allow) ==
    /\ screen # <<>>
    /\ Send([kind |-> "confirm", id |-> Head(screen), allow |-> allow])
    /\ screen' = Tail(screen)
    /\ UNCHANGED <<turnVars, app, typed, driveVars>>

\* handle_escape, and the first Ctrl+C of a turn.
PressCancel ==
    /\ "cancel" \in Keys /\ TurnActive
    /\ Send([kind |-> "cancel", turn |-> Len(taken)])
    /\ UNCHANGED <<turnVars, appVars, driveVars>>

PressDark(on) ==
    /\ "dark" \in Keys
    /\ Send([kind |-> "dark", on |-> on])
    /\ UNCHANGED <<turnVars, appVars, driveVars>>

\* request_quit: the application leaves its loop and drops the sender.
PressQuit ==
    /\ "quit" \in Keys
    /\ Send([kind |-> "quit"])
    /\ app' = "left"
    /\ UNCHANGED <<turnVars, screen, typed, driveVars>>

\* The terminal fails to draw or to read, which ends the application.
TerminalFails ==
    /\ "crash" \in Keys /\ app = "open"
    /\ app' = "left"
    /\ UNCHANGED <<turnVars, screen, typed, driveVars, intents>>

Person == \/ \E text \in Texts : Type(text)
          \/ \E b \in BOOLEAN : AnswerPrompt(b) \/ PressDark(b)
          \/ PressCancel \/ PressQuit \/ TerminalFails
-----------------------------------------------------------------------------
(* drive, between turns.                                                   *)

Take(n, as) == taken' = Append(taken, [text |-> n, as |-> as])

\* A turn of the local model starts with a token and a loop of its own; the
\* confirmer, and so its next identifier, belongs to the session.
FreshTurn ==
    /\ pc' = "request" /\ history' = <<>> /\ roundTrips' = 0
    /\ acc' = [i \in Index |-> Untouched] /\ finish' = "none"
    /\ calls' = <<>> /\ answered' = 0 /\ stopping' = FALSE
    /\ cancelledBy' = {} /\ asked' = NoPrompt /\ prompts' = prompts
    /\ clock' = [ran |-> 0, sinceCancel |-> 0] /\ end' = "none"
    /\ lateRounds' = 0 /\ lateRuns' = 0

\* A prefix that cannot be read ends the session like a failed first round.
StartLocalTurn(n) ==
    /\ route = "local" /\ drive' = "turn" /\ ready' = TRUE
    /\ FreshTurn /\ Take(n, "turn")

StartAgentTurn(n) ==
    /\ route = "agent" /\ drive' = "agent"
    /\ Take(n, "turn")
    /\ UNCHANGED <<turnVars, ready>>

\* No model can be brought up, or no such agent is on the PATH: a notice.
RefusePrompt(n) ==
    /\ route = "local" => ~ready
    /\ Take(n, "refused")
    /\ UNCHANGED <<turnVars, drive, ready>>

\* The session's dark mode and route, which a prompt leaves alone.
modeVars == <<dark, wished, route>>

RunPrompt(n) ==
    /\ StartLocalTurn(n) \/ StartAgentTurn(n) \/ RefusePrompt(n)
    /\ UNCHANGED modeVars

\* dispatch_submission, for a text that starts with a slash.
RunCommand(n) ==
    /\ Take(n, "command")
    /\ drive' = IF typed[n] = "/quit" THEN "returned" ELSE drive
    /\ dark'  = (dark \/ typed[n] = "/godark")
    /\ wished' = (wished \/ typed[n] = "/godark")
    /\ \/ typed[n] # "/acp" /\ UNCHANGED route
       \/ typed[n] = "/acp" /\ route' \in {"local", "agent"}
    /\ UNCHANGED <<turnVars, ready>>

\* Mutant of RunQueued: the last one typed runs first.
RunNewest ==
    /\ drive = "reading" /\ queued # <<>>
    /\ RunPrompt(queued[Len(queued)]) /\ queued' = SubSeq(queued, 1, Len(queued) - 1)
    /\ UNCHANGED <<appVars, intents, exit, conversation>>

\* What waited during the last turns comes before the channel.
RunQueued ==
    /\ drive = "reading" /\ queued # <<>>
    /\ RunPrompt(Head(queued)) /\ queued' = Tail(queued)
    /\ UNCHANGED <<appVars, intents, exit, conversation>>

Pop(kind) == intents # <<>> /\ Head(intents).kind = kind /\ intents' = Tail(intents)

ReadSubmission ==
    /\ Pop("submit")
    /\ LET n == Head(intents).text
       IN  IF typed[n] = "prompt" THEN RunPrompt(n) ELSE RunCommand(n)

ReadDark ==
    /\ Pop("dark")
    /\ dark' = Head(intents).on /\ wished' = Head(intents).on
    /\ UNCHANGED <<turnVars, drive, route, ready, taken>>

\* Mutant of ReadQuit: a closed channel is read again.
ReadQuitOnly ==
    /\ \/ Pop("quit") /\ drive' = "returned"
       \/ intents = <<>> /\ app = "left" /\ UNCHANGED <<intents, drive>>
    /\ UNCHANGED <<turnVars, modeVars, ready, taken>>

ReadQuit ==
    /\ \/ Pop("quit")
       \/ intents = <<>> /\ app = "left" /\ UNCHANGED intents
    /\ drive' = "returned"
    /\ UNCHANGED <<turnVars, modeVars, ready, taken>>

\* A cancellation, and an answer no prompt waits for, change nothing.
ReadStale ==
    /\ Pop("cancel") \/ Pop("confirm")
    /\ UNCHANGED <<turnVars, modeVars, drive, ready, taken>>

ReadIntent ==
    /\ drive = "reading" /\ queued = <<>>
    /\ ReadSubmission \/ ReadDark \/ ReadQuit \/ ReadStale
    /\ UNCHANGED <<appVars, queued, exit, conversation>>
-----------------------------------------------------------------------------
(* one_turn: the select over the turn and the channel.                     *)

ShowPrompt ==
    screen' = IF prompts' = prompts THEN screen
              ELSE Append(screen, prompts')

TurnStep(A) ==
    /\ drive = "turn" /\ A
    /\ ShowPrompt
    /\ UNCHANGED <<app, typed, driveVars, intents>>

RunTurn == TurnStep(LoopStep)

\* What a turn of either kind does with a submission and with dark mode.
QueueSubmission ==
    /\ Pop("submit")
    /\ exit' = [exit EXCEPT !.queued = Append(@, Head(intents).text)]
    /\ UNCHANGED wished

DeferDark ==
    /\ Pop("dark")
    /\ wished' = Head(intents).on
    /\ UNCHANGED exit

CancelTurn ==
    /\ \/ Pop("cancel")
       \/ intents = <<>> /\ app = "left" /\ UNCHANGED intents
    /\ Cancel
    /\ UNCHANGED <<exit, wished>>

QuitTurn ==
    /\ Pop("quit")
    /\ Cancel
    /\ exit' = [exit EXCEPT !.quit = TRUE]
    /\ UNCHANGED wished

\* Mutant of ConfirmTurn: the answer is thrown away while a turn runs.
ConfirmLater ==
    /\ Pop("confirm")
    /\ UNCHANGED <<turnVars, exit, wished>>

ConfirmTurn ==
    /\ Pop("confirm")
    /\ LET answer == Head(intents)
       IN  IF Answers(answer.id) THEN Resolve(answer.id, answer.allow)
                                 ELSE UNCHANGED turnVars
    /\ UNCHANGED <<exit, wished>>

ReadDuringTurn ==
    /\ drive = "turn" /\ ~Over
    /\ \/ (QueueSubmission \/ DeferDark) /\ UNCHANGED turnVars
       \/ CancelTurn \/ QuitTurn \/ ConfirmTurn
    /\ UNCHANGED <<appVars, drive, queued, dark, route, ready, conversation, taken>>

Leave == /\ queued' = queued \o exit.queued
         /\ exit' = NoExit
         /\ drive' = IF exit.quit THEN "returned" ELSE "reading"

\* Mutant of FinishTurn: a cancelled turn is dropped rather than awaited.
FinishAtOnce ==
    /\ drive = "turn" /\ (pc = "ended" \/ (cancelledBy # {} /\ pc # "failed"))
    /\ conversation' = conversation \o history
    /\ Leave
    /\ UNCHANGED <<turnVars, appVars, intents, dark, route, ready, taken, wished>>

\* Mutant of FinishTurn: what was queued during the turn is forgotten.
FinishForgetful ==
    /\ drive = "turn" /\ pc = "ended"
    /\ conversation' = conversation \o history
    /\ exit' = NoExit
    /\ drive' = IF exit.quit THEN "returned" ELSE "reading"
    /\ UNCHANGED <<turnVars, appVars, intents, queued, dark, route, ready, taken, wished>>

FinishTurn ==
    /\ drive = "turn" /\ pc = "ended"
    /\ conversation' = conversation \o history
    /\ Leave
    /\ UNCHANGED <<turnVars, appVars, intents, dark, route, ready, taken, wished>>

\* one_turn and drive return the error as it is.
FailTurn ==
    /\ drive = "turn" /\ pc = "failed"
    /\ drive' = "failed"
    /\ UNCHANGED <<turnVars, appVars, intents, queued, exit, dark, route, ready,
                   conversation, taken, wished>>
-----------------------------------------------------------------------------
(* one_acp_turn: there is no way to cancel the agent, and its confirmer has  *)
(* no prompt an answer could be for.                                       *)

QuitAgent ==
    /\ \/ Pop("quit")
       \/ intents = <<>> /\ app = "left" /\ UNCHANGED intents
    /\ exit' = [exit EXCEPT !.quit = TRUE]
    /\ UNCHANGED wished

IgnoreIntent ==
    /\ Pop("cancel") \/ Pop("confirm")
    /\ UNCHANGED <<exit, wished>>

ReadDuringAgent ==
    /\ drive = "agent"
    /\ QueueSubmission \/ DeferDark \/ QuitAgent \/ IgnoreIntent
    /\ UNCHANGED <<turnVars, appVars, drive, queued, dark, route, ready, conversation, taken>>

\* The agent answered, or broke off.
AgentEnds ==
    /\ drive = "agent"
    /\ \E said \in {<<>>, <<Assistant(<<>>)>>} : conversation' = conversation \o said
    /\ Leave
    /\ UNCHANGED <<turnVars, appVars, intents, dark, route, ready, taken, wished>>
-----------------------------------------------------------------------------
SessionNext == \/ Person \/ RunQueued \/ ReadIntent
               \/ RunTurn \/ ReadDuringTurn \/ FinishTurn \/ FailTurn
               \/ ReadDuringAgent \/ AgentEnds
               \/ SessionOver /\ UNCHANGED sessionVars

SessionSpec == SessionInit /\ [][SessionNext]_sessionVars

\* Fairness: that of TurnLoop within the turn, a select that reads the
\* channel, an agent that ends, and a person
\* who answers prompts as long as the terminal is open.
SessionFairness ==
    /\ WF_sessionVars(TurnStep(OpenRound \/ EngineFails))
    /\ WF_sessionVars(TurnStep(\E r \in EngineReasons, ids \in CallLists : StreamEnds(r, ids)))
    /\ WF_sessionVars(TurnStep(CallStep \/ CloseRound))
    /\ WF_sessionVars(TurnStep(Tick \/ ToolTimesOut))
    /\ WF_sessionVars(ReadDuringTurn \/ ReadDuringAgent)
    /\ WF_sessionVars(RunQueued \/ ReadIntent \/ FinishTurn \/ FailTurn)
    /\ WF_sessionVars(AgentEnds)

FairSession ==
    SessionSpec /\ SessionFairness /\ WF_sessionVars(\E allow \in BOOLEAN : AnswerPrompt(allow))
-----------------------------------------------------------------------------
(* Properties.                                                             *)

Submission == 1..MaxTyped
Prompt     == 1..(MaxTyped * MaxCalls * (RoundTripLimit + 1))

SessionTypeOK ==
    /\ TypeOK
    /\ drive \in {"reading", "turn", "agent", "returned", "failed"}
    /\ \A i \in DOMAIN intents : intents[i].kind \in {"submit", "confirm", "cancel", "dark", "quit"}
    /\ queued \in Seq(Submission)
    /\ exit \in [quit : BOOLEAN, queued : Seq(Submission)]
    /\ dark \in BOOLEAN /\ wished \in BOOLEAN /\ ready \in BOOLEAN
    /\ route \in {"local", "agent"}
    /\ conversation \in Seq(Message)
    /\ app \in {"open", "left"} /\ screen \in Seq(Prompt)
    /\ typed \in Seq(Texts)
    /\ taken \in Seq([text : Submission, as : {"turn", "refused", "command"}])

\* The submissions in the channel `seq` are the typed ones after the first
\* `left`, up to the last, in the order they were typed.
Carries(seq, left, last) ==
    LET sent == {i \in DOMAIN seq : seq[i].kind = "submit"}
    IN  /\ {seq[i].text : i \in sent} = (left + 1)..last
        /\ \A i, j \in sent : i < j => seq[i].text < seq[j].text

\* Every submission is in one place, in the order it was typed: taken,
\* queued by an earlier turn, queued by this one, or in the channel.
TextsOf(seq) == [i \in DOMAIN seq |-> seq[i].text]
LeftChannel  == TextsOf(taken) \o queued \o exit.queued
InTypedOrder ==
    /\ Len(LeftChannel) <= Len(typed)
    /\ LeftChannel = [n \in 1..Len(LeftChannel) |-> n]
    /\ Carries(intents, Len(LeftChannel), Len(typed))

\* Between turns the conversation, built from the turns' histories, answers
\* every call in it: one_turn's assertion, over the session.
ConversationWellFormed == WellFormed(conversation)

\* A turn that waits for a person is on the screen, or the answer is on its
\* way: the answer to an open prompt cannot get lost.
PromptReachesPerson ==
    (drive = "turn" /\ asked # NoPrompt /\ app = "open") =>
        \/ \E i \in DOMAIN screen : screen[i] = asked
        \/ \E i \in DOMAIN intents : intents[i].kind = "confirm" /\ intents[i].id = asked

\* A prompt nobody can answer any more holds the session.
Unanswerable == app = "left" /\ asked # NoPrompt

\* "It runs as its own turn once this one finishes": everything typed is
\* taken in the end, or the session is over.
SubmissionsTaken ==
    \A n \in Submission :
        Len(typed) >= n ~> (Len(taken) >= n \/ SessionOver \/ Unanswerable)

\* Leaving the application ends the session, unless a prompt is open.
LeavingEnds == app = "left" ~> (SessionOver \/ Unanswerable)

\* Intent::Quit, "Leave the application".
QuitEnds == app = "left" ~> SessionOver

\* drive's "A command is not a prompt.  Anything starting with a slash is
\* dispatched".
CommandsDispatched ==
    \A i \in DOMAIN taken : taken[i].as # "command" => typed[taken[i].text] = "prompt"

\* one_turn's "dark mode changes at the next turn".
DarkAtNextTurn ==
    [][(drive = "reading" /\ drive' \in {"turn", "agent"}) => dark = wished]_sessionVars

\* one_turn's "Never discarded", of a submission typed while a turn runs.
NeverDiscarded == drive = "failed" => exit.queued = <<>>

\* Intent::Cancel, "Cancel the running turn": the turn that ran when the
\* person pressed the key.
CancelsItsTurn ==
    [][(TurnActive /\ intents # <<>> /\ intents' = Tail(intents)
          /\ Head(intents).kind = "cancel") => Head(intents).turn = Len(taken)]_sessionVars

\* drive's "The shell closing and the person quitting end the session the
\* same way": no turn starts once the terminal is gone and all it said read.
NoTurnOnceClosed ==
    [][(drive = "reading" /\ app = "left" /\ intents = <<>>)
        => drive' \in {"reading", "returned"}]_sessionVars

-----------------------------------------------------------------------------
(* The policy of the instance TLC checks: only a write waits for the       *)
(* person, and nothing runs unasked.                                       *)

WritesAsk == [read |-> "deny", write |-> "confirm", exec |-> "deny"]

=============================================================================
