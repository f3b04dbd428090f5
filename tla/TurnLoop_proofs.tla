--------------------------- MODULE TurnLoop_proofs ---------------------------
(***************************************************************************)
(* Proofs about TurnLoop, for every limit, policy, mode and engine: the    *)
(* types, the well-formed history, that a turn implements ChatTemplate,    *)
(* what a cancellation leaves running, and what may start a tool.  Then    *)
(* about Shell: the turns of a session are turns, its conversation, the    *)
(* order of what is typed and the prompts that wait for the person.        *)
(***************************************************************************)
EXTENDS Shell, SequenceTheorems, FiniteSetTheorems, TLAPS

\* A call list is a sequence of indexes, no longer than MaxCalls.
LEMMA CallListsAreSeqs ==
    \A s \in CallLists : s \in Seq(Index) /\ Len(s) \in Nat /\ DOMAIN s = 1..Len(s)
BY MaxCallsAssumption DEF CallLists

\* A round may ask for nothing.
LEMMA NoCalls == <<>> \in CallLists
<1>1. <<>> \in [1..0 -> Index]  OBVIOUS
<1>2. 0 \in 0..MaxCalls  BY MaxCallsAssumption
<1>. QED  BY <1>1, <1>2 DEF CallLists

\* The messages the loop appends are messages.
LEMMA MessageTypes ==
    /\ Notice \in Message
    /\ \A ids \in CallLists : Assistant(ids) \in Message
    /\ \A id \in Index : ToolReply(id) \in Message
BY NoCalls DEF Notice, Assistant, ToolReply, Message, NoReply

\* The call a waiting reply is for is one of the round's.
LEMMA CurrentIsIndex ==
    ASSUME TypeOK, answered < Len(calls)
    PROVE  /\ Current \in Index
           /\ answered + 1 \in 0..Len(calls)
           /\ Kind \in CallKinds \cup {Untouched}
BY CallListsAreSeqs DEF TypeOK, Current, Kind

\* A reply extends the history by a message and counts one more call.
LEMMA ReplyTypes ==
    ASSUME TypeOK, answered < Len(calls), Reply, UNCHANGED calls
    PROVE  history' \in Seq(Message) /\ answered' \in 0..Len(calls') /\ pc' = "answering"
BY CurrentIsIndex, MessageTypes DEF Reply, TypeOK

\* Calls are pending exactly while a round's replies are being written, and
\* a tool has been cancelled for no longer than it has run.
PendingInv ==
    /\ pc \in {"previewing", "confirming", "invoking"} => answered < Len(calls)
    /\ pc \in {"request", "streaming", "ended", "failed"} => answered = Len(calls)
    /\ clock.sinceCancel <= clock.ran

\* A step of the turn keeps its types and the bookkeeping of answered calls.
LEMMA TypeStep ==
    ASSUME TypeOK, PendingInv, [Next]_vars
    PROVE  TypeOK' /\ PendingInv'
<1>. USE CallListsAreSeqs, MessageTypes, CurrentIsIndex, ConfigAssumption
     DEF roundVars, confirmVars, lateVars
<1>1. CASE OpenRound
  BY <1>1 DEF OpenRound, TypeOK, PendingInv, One
<1>2. CASE EngineFails
  BY <1>2 DEF EngineFails, TypeOK, PendingInv
<1>3. ASSUME NEW i \in Index, NEW k \in CallKinds, Delta(i, k) PROVE TypeOK' /\ PendingInv'
  BY <1>3 DEF Delta, TypeOK, PendingInv
<1>4. ASSUME NEW r \in EngineReasons, NEW ids \in CallLists, StreamEnds(r, ids)
      PROVE TypeOK' /\ PendingInv'
  <2>1. r \in {"Stop", "Length", "ToolCalls", "Error"}  BY <1>4 DEF EngineReasons
  <2>. QED  BY <1>4, <2>1 DEF StreamEnds, TypeOK, PendingInv, FinishReason, AfterDrop
<1>5. CASE SkipCancelled
  BY <1>5 DEF SkipCancelled, CallWaits, Reply, TypeOK, PendingInv
<1>6. CASE RejectCall
  BY <1>6 DEF RejectCall, CallWaits, Reply, TypeOK, PendingInv
<1>7. CASE StartAllowed
  BY <1>7 DEF StartAllowed, CallWaits, Invoke, TypeOK, PendingInv, One
<1>8. CASE StartPreview
  BY <1>8 DEF StartPreview, CallWaits, TypeOK, PendingInv
<1>9. CASE DenyCall
  BY <1>9 DEF DenyCall, Reply, TypeOK, PendingInv
<1>10. CASE AskPerson
  BY <1>10 DEF AskPerson, TypeOK, PendingInv
<1>11. ASSUME NEW id \in 1..prompts, NEW allow \in BOOLEAN, Resolve(id, allow)
       PROVE TypeOK' /\ PendingInv'
  <2>1. CASE allow
    BY <1>11, <2>1 DEF Resolve, Invoke, TypeOK, PendingInv, One, NoPrompt
  <2>2. CASE ~allow
    <3>1. Reply /\ UNCHANGED calls /\ answered < Len(calls)
      BY <1>11, <2>2 DEF Resolve, PendingInv
    <3>2. history' \in Seq(Message) /\ answered' \in 0..Len(calls') /\ pc' = "answering"
      BY <3>1, ReplyTypes
    <3>3. asked' \in 0..prompts' /\ prompts' \in Nat
      BY <1>11 DEF Resolve, TypeOK, NoPrompt
    <3>. QED  BY <1>11, <2>2, <3>2, <3>3 DEF Resolve, TypeOK, PendingInv
  <2>. QED  BY <2>1, <2>2
<1>12. CASE ToolReturns
  <2>1. history' \in Seq(Message) /\ answered' \in 0..Len(calls') /\ pc' = "answering"
    BY <1>12, ReplyTypes DEF ToolReturns, PendingInv
  <2>2. cancelledBy' \subseteq {"person", "tool", "drop"}
    BY <1>12 DEF ToolReturns, TypeOK
  <2>. QED  BY <1>12, <2>1, <2>2 DEF ToolReturns, TypeOK, PendingInv
<1>13. CASE Tick
  BY <1>13 DEF Tick, TimeLeft, TypeOK, PendingInv, One
<1>14. CASE ToolTimesOut
  BY <1>14 DEF ToolTimesOut, Reply, TypeOK, PendingInv
<1>15. CASE CloseRound
  <2>1. Verdict \in {"none", "Stopped", "LimitReached", "Cancelled"}  BY DEF Verdict
  <2>. QED  BY <1>15, <2>1 DEF CloseRound, TypeOK, PendingInv
<1>16. CASE Cancel
  BY <1>16 DEF Cancel, TypeOK, PendingInv
<1>17. CASE UNCHANGED vars
  BY <1>17 DEF vars, TypeOK, PendingInv
<1>. QED
  BY <1>1, <1>2, <1>3, <1>4, <1>5, <1>6, <1>7, <1>8, <1>9, <1>10, <1>11, <1>12,
     <1>13, <1>14, <1>15, <1>16, <1>17
     DEF Next, LoopStep, EngineStep, CallStep, ToolStep, PersonStep

\* Type correctness of run_turn, with the bookkeeping of answered calls.
LEMMA TypeInvariant == Spec => [](TypeOK /\ PendingInv)
<1>1. Init => TypeOK /\ PendingInv
  <2>1. <<>> \in CallLists
    BY NoCalls
  <2>. SUFFICES ASSUME Init PROVE TypeOK /\ PendingInv
    OBVIOUS
  <2>2. Len(calls) = 0 /\ calls \in CallLists /\ answered \in 0..Len(calls)
    BY <2>1 DEF Init
  <2>3. acc \in [Index -> CallKinds \cup {Untouched}] /\ history \in Seq(Message)
    BY DEF Init
  <2>4. clock \in [ran : 0..ToolTimeout, sinceCancel : 0..ToolTimeout]
    BY ConfigAssumption DEF Init
  <2>5. TypeOK
    BY <2>2, <2>3, <2>4 DEF Init, TypeOK, NoPrompt
  <2>. QED  BY <2>2, <2>5 DEF Init, PendingInv
<1>2. TypeOK /\ PendingInv /\ [Next]_vars => TypeOK' /\ PendingInv'
  BY TypeStep
<1>. QED  BY <1>1, <1>2, PTL DEF Spec

\* Every state of a turn has its type, for every configuration.
THEOREM TypeCorrect == Spec => []TypeOK
BY TypeInvariant, PTL
-----------------------------------------------------------------------------
(* The history.  Between rounds all of it is well formed; while a round's  *)
(* calls are answered, everything before the round's assistant message is, *)
(* and what follows that message is the replies written so far.            *)

Asked == Len(history) - answered          \* where the round's assistant message is

RoundInv ==
    /\ Asked \in DOMAIN history
    /\ history[Asked].calls = calls
    /\ \A k \in 1..answered : history[Asked + k] = ToolReply(calls[k])
    /\ \A i \in 1..(Asked - 1) : RepliesFollow(history, i)

HistoryInv ==
    /\ pc \in {"request", "streaming", "ended"} => WellFormed(history)
    /\ pc \in {"answering", "previewing", "confirming", "invoking"} => RoundInv

\* A message added at the end takes no reply away.
LEMMA AppendKeepsReplies ==
    ASSUME NEW h \in Seq(Message), NEW m \in Message, NEW i \in DOMAIN h, RepliesFollow(h, i)
    PROVE  RepliesFollow(Append(h, m), i)
<1>1. h[i].calls \in CallLists
  <2>1. h[i] \in Message  OBVIOUS
  <2>. QED  BY <2>1 DEF Message
<1>2. \A j \in 1..Len(h) : Append(h, m)[j] = h[j]
  OBVIOUS
<1>3. Len(Append(h, m)) = Len(h) + 1 /\ DOMAIN h[i].calls = 1..Len(h[i].calls)
  BY <1>1, CallListsAreSeqs
<1>4. Append(h, m)[i] = h[i]
  BY <1>2
<1>5. ASSUME NEW k \in DOMAIN h[i].calls
      PROVE  /\ i + k <= Len(Append(h, m))
             /\ Append(h, m)[i + k].role = "tool"
             /\ Append(h, m)[i + k].reply = h[i].calls[k]
  <2>1. /\ i + k <= Len(h) /\ h[i + k].role = "tool" /\ h[i + k].reply = h[i].calls[k]
    BY DEF RepliesFollow
  <2>2. k \in 1..Len(h[i].calls) /\ Len(h[i].calls) \in Nat
    BY <1>1, <1>3, CallListsAreSeqs
  <2>3. i + k \in 1..Len(h)
    BY <2>1, <2>2
  <2>. QED  BY <1>2, <1>3, <2>1, <2>3
<1>. QED  BY <1>4, <1>5 DEF RepliesFollow

\* A message that asks for nothing leaves a well-formed history well formed.
LEMMA AppendQuiet ==
    ASSUME NEW h \in Seq(Message), NEW m \in Message, m.calls = <<>>, WellFormed(h)
    PROVE  WellFormed(Append(h, m))
<1>1. ASSUME NEW i \in DOMAIN h PROVE RepliesFollow(Append(h, m), i)
  BY <1>1, AppendKeepsReplies DEF WellFormed
<1>2. RepliesFollow(Append(h, m), Len(h) + 1)
  BY DEF RepliesFollow
<1>. QED  BY <1>1, <1>2 DEF WellFormed

\* One more reply keeps the round as it must be.
LEMMA ReplyKeepsRound ==
    ASSUME TypeOK, RoundInv, answered < Len(calls), Reply, UNCHANGED calls
    PROVE  RoundInv'
<1>1. /\ ToolReply(Current) \in Message /\ history \in Seq(Message)
      /\ answered \in Nat
  BY CurrentIsIndex, MessageTypes, CallListsAreSeqs DEF TypeOK
<1>2. /\ Len(history') = Len(history) + 1 /\ Asked' = Asked
      /\ history' \in Seq(Message)
      /\ \A j \in 1..Len(history) : history'[j] = history[j]
      /\ history'[Len(history) + 1] = ToolReply(Current)
  BY <1>1 DEF Reply, Asked
<1>3. \A i \in 1..(Asked - 1) : RepliesFollow(history', i)
  <2>. SUFFICES ASSUME NEW i \in 1..(Asked - 1) PROVE RepliesFollow(history', i)
    OBVIOUS
  <2>1. i \in DOMAIN history /\ RepliesFollow(history, i)
    BY <1>1 DEF RoundInv, Asked
  <2>. QED  BY <2>1, <1>1, AppendKeepsReplies DEF Reply
<1>4. \A k \in 1..answered' : history'[Asked' + k] = ToolReply(calls'[k])
  <2>. SUFFICES ASSUME NEW k \in 1..answered' PROVE history'[Asked' + k] = ToolReply(calls'[k])
    OBVIOUS
  <2>1. CASE k = answered + 1
    BY <2>1, <1>1, <1>2 DEF Reply, Asked, Current
  <2>2. CASE k \in 1..answered
    BY <2>2, <1>1, <1>2 DEF Reply, Asked, RoundInv
  <2>3. answered' = answered + 1
    BY DEF Reply
  <2>4. k = answered + 1 \/ k \in 1..answered
    BY <1>1, <2>3
  <2>. QED  BY <2>1, <2>2, <2>4
<1>5. Asked' \in DOMAIN history'
  <2>1. Asked \in 1..Len(history)
    BY <1>1 DEF RoundInv
  <2>2. DOMAIN history' = 1..(Len(history) + 1)
    BY <1>2
  <2>. QED  BY <1>1, <1>2, <2>1, <2>2
<1>6. history'[Asked'].calls = calls'
  <2>1. Asked \in 1..Len(history)
    BY <1>1 DEF RoundInv
  <2>2. history'[Asked] = history[Asked]
    BY <1>2, <2>1
  <2>. QED  BY <1>2, <2>2 DEF RoundInv
<1>7. \A i \in 1..(Asked' - 1) : RepliesFollow(history', i)
  BY <1>2, <1>3
<1>. QED  BY <1>4, <1>5, <1>6, <1>7 DEF RoundInv

\* Once every call of the round has its reply, the whole history has.
LEMMA RoundDone ==
    ASSUME TypeOK, RoundInv, answered = Len(calls)
    PROVE  WellFormed(history)
<1>1. history \in Seq(Message) /\ answered \in Nat /\ DOMAIN calls = 1..Len(calls)
  BY CallListsAreSeqs DEF TypeOK
<1>. SUFFICES ASSUME NEW i \in DOMAIN history PROVE RepliesFollow(history, i)
  BY DEF WellFormed
<1>2. CASE i < Asked
  BY <1>2, <1>1 DEF RoundInv, Asked
<1>3. CASE i = Asked
  <2>1. \A k \in DOMAIN calls : i + k <= Len(history) /\ history[i + k] = ToolReply(calls[k])
    BY <1>3, <1>1 DEF RoundInv, Asked
  <2>2. history[i].calls = calls
    BY <1>3 DEF RoundInv
  <2>3. \A id : ToolReply(id).role = "tool" /\ ToolReply(id).reply = id
    BY DEF ToolReply
  <2>. QED  BY <2>1, <2>2, <2>3 DEF RepliesFollow
<1>4. CASE i > Asked
  <2>1. i - Asked \in 1..answered /\ Asked + (i - Asked) = i
    BY <1>4, <1>1 DEF Asked
  <2>2. history[i] = ToolReply(calls[i - Asked])
    BY <2>1 DEF RoundInv
  <2>3. history[i].calls = <<>>
    BY <2>2 DEF ToolReply
  <2>. QED  BY <2>3 DEF RepliesFollow
<1>. QED  BY <1>1, <1>2, <1>3, <1>4 DEF Asked

\* A step of the turn keeps the history as it must be.
LEMMA HistoryStep ==
    ASSUME TypeOK, PendingInv, HistoryInv, [Next]_vars
    PROVE  HistoryInv'
<1>. USE DEF roundVars, confirmVars, lateVars
<1>0. ASSUME UNCHANGED <<history, calls, answered>> PROVE RoundInv' <=> RoundInv
  BY <1>0 DEF RoundInv, Asked
<1>1. CASE OpenRound
  <2>1. WellFormed(history)  BY <1>1 DEF OpenRound, HistoryInv
  <2>2. Notice.calls = <<>>  BY DEF Notice
  <2>3. WellFormed(history')
    BY <1>1, <2>1, <2>2, MessageTypes, AppendQuiet DEF OpenRound, TypeOK
  <2>. QED  BY <1>1, <2>3 DEF OpenRound, HistoryInv
<1>2. CASE EngineFails
  BY <1>2 DEF EngineFails, HistoryInv
<1>3. ASSUME NEW i \in Index, NEW k \in CallKinds, Delta(i, k) PROVE HistoryInv'
  BY <1>3 DEF Delta, HistoryInv
<1>4. ASSUME NEW r \in EngineReasons, NEW ids \in CallLists, StreamEnds(r, ids)
      PROVE HistoryInv'
  <2>1. /\ WellFormed(history) /\ history \in Seq(Message)
        /\ Assistant(ids) \in Message /\ Assistant(ids).calls = ids
    BY <1>4, MessageTypes DEF StreamEnds, HistoryInv, TypeOK, Assistant
  <2>2. \A i \in 1..Len(history) : RepliesFollow(history', i)
    BY <1>4, <2>1, AppendKeepsReplies DEF StreamEnds, WellFormed
  <2>3. /\ Len(history') = Len(history) + 1 /\ Asked' = Len(history) + 1
        /\ history'[Len(history) + 1] = Assistant(ids)
        /\ answered' = 0 /\ calls' = ids
    BY <1>4, <2>1 DEF StreamEnds, Asked
  <2>4. RoundInv'
    BY <1>4, <2>1, <2>2, <2>3 DEF RoundInv, StreamEnds
  <2>. QED  BY <1>4, <2>4 DEF StreamEnds, HistoryInv
<1>5. ASSUME Reply, UNCHANGED calls, answered < Len(calls), RoundInv PROVE HistoryInv'
  BY <1>5, ReplyKeepsRound DEF Reply, HistoryInv
<1>6. CASE SkipCancelled
  BY <1>5, <1>6 DEF SkipCancelled, CallWaits, HistoryInv
<1>7. CASE RejectCall
  BY <1>5, <1>7 DEF RejectCall, CallWaits, HistoryInv
<1>8. CASE StartAllowed
  BY <1>0, <1>8 DEF StartAllowed, CallWaits, Invoke, HistoryInv
<1>9. CASE StartPreview
  BY <1>0, <1>9 DEF StartPreview, CallWaits, HistoryInv
<1>10. CASE DenyCall
  BY <1>5, <1>10 DEF DenyCall, PendingInv, HistoryInv
<1>11. CASE AskPerson
  BY <1>0, <1>11 DEF AskPerson, HistoryInv
<1>12. ASSUME NEW id \in 1..prompts, NEW allow \in BOOLEAN, Resolve(id, allow)
       PROVE HistoryInv'
  <2>1. CASE allow
    BY <1>0, <1>12, <2>1 DEF Resolve, Invoke, HistoryInv
  <2>2. CASE ~allow
    BY <1>5, <1>12, <2>2 DEF Resolve, PendingInv, HistoryInv
  <2>. QED  BY <2>1, <2>2
<1>13. CASE ToolReturns
  BY <1>5, <1>13 DEF ToolReturns, PendingInv, HistoryInv
<1>14. CASE Tick
  BY <1>0, <1>14 DEF Tick, HistoryInv
<1>15. CASE ToolTimesOut
  BY <1>5, <1>15 DEF ToolTimesOut, PendingInv, HistoryInv
<1>16. CASE CloseRound
  BY <1>16, RoundDone DEF CloseRound, HistoryInv
<1>17. CASE Cancel
  BY <1>0, <1>17 DEF Cancel, HistoryInv
<1>18. CASE UNCHANGED vars
  BY <1>0, <1>18 DEF vars, HistoryInv
<1>. QED
  BY <1>1, <1>2, <1>3, <1>4, <1>6, <1>7, <1>8, <1>9, <1>10, <1>11, <1>12, <1>13,
     <1>14, <1>15, <1>16, <1>17, <1>18
     DEF Next, LoopStep, EngineStep, CallStep, ToolStep, PersonStep

\* The history is well formed between rounds, whatever the model, the
\* policy, the person and the tools do with the calls.
THEOREM HistoryCorrect == Spec => []HistoryWellFormed
<1>1. Init => HistoryInv
  BY DEF Init, HistoryInv, WellFormed
<1>2. TypeOK /\ PendingInv /\ HistoryInv /\ [Next]_vars => HistoryInv'
  BY HistoryStep
<1>3. HistoryInv => HistoryWellFormed
  BY DEF HistoryInv, HistoryWellFormed
<1>. QED  BY <1>1, <1>2, <1>3, TypeInvariant, PTL DEF Spec
-----------------------------------------------------------------------------
(* The turn implements ChatTemplate.                                       *)

Owed == SubSeq(calls, answered + 1, Len(calls))

\* What is owed: nothing between rounds, else the waiting call comes first.
LEMMA OwedCalls ==
    ASSUME TypeOK
    PROVE  /\ answered = Len(calls) => Owed = <<>>
           /\ answered < Len(calls) =>
                /\ Owed # <<>> /\ Head(Owed) = Current
                /\ Tail(Owed) = SubSeq(calls, answered + 2, Len(calls))
<1>1. /\ calls \in Seq(Index) /\ Len(calls) \in Nat /\ answered \in 0..Len(calls)
  BY CallListsAreSeqs DEF TypeOK
<1>2. CASE answered = Len(calls)
  BY <1>1, <1>2 DEF Owed
<1>3. CASE answered < Len(calls)
  <2>1. /\ Owed \in Seq(Index) /\ Len(Owed) = Len(calls) - answered
        /\ \A k \in 1..(Len(calls) - answered) : Owed[k] = calls[answered + k]
    BY <1>1, <1>3 DEF Owed
  <2>2. Owed # <<>> /\ Head(Owed) = Current
    BY <1>1, <1>3, <2>1 DEF Current
  <2>. DEFINE rest == SubSeq(calls, answered + 2, Len(calls))
  <2>3. /\ rest \in Seq(Index) /\ Len(rest) = Len(calls) - answered - 1
        /\ \A k \in 1..(Len(calls) - answered - 1) : rest[k] = calls[answered + 1 + k]
    BY <1>1, <1>3
  <2>4. /\ Tail(Owed) \in Seq(Index) /\ Len(Tail(Owed)) = Len(calls) - answered - 1
        /\ \A k \in 1..(Len(calls) - answered - 1) : Tail(Owed)[k] = Owed[k + 1]
    BY <1>1, <2>1, <1>3
  <2>5. \A k \in 1..(Len(calls) - answered - 1) : Tail(Owed)[k] = rest[k]
    BY <1>1, <2>1, <2>3, <2>4
  <2>6. Tail(Owed) = rest
    BY <2>3, <2>4, <2>5, SeqEqual
  <2>. QED  BY <1>1, <1>3, <2>2, <2>6
<1>. QED  BY <1>1, <1>2, <1>3

\* A reply of the loop is an answer of the template.
LEMMA ReplyAnswers ==
    ASSUME TypeOK, answered < Len(calls), Reply, UNCHANGED calls,
           pc \in {"answering", "previewing", "confirming", "invoking"}
    PROVE  Template!Next
<1>1. Owed # <<>> /\ history' = Append(history, ToolReply(Head(Owed)))
  BY OwedCalls DEF Reply
<1>2. Owed' = Tail(Owed)
  <2>1. Owed' = SubSeq(calls, answered + 2, Len(calls))
    BY CallListsAreSeqs DEF Owed, Reply, TypeOK
  <2>. QED  BY <2>1, OwedCalls
<1>3. Over = FALSE /\ Over' = FALSE
  BY DEF Over, Reply
<1>4. Template!Answer
  BY <1>1, <1>2, <1>3
     DEF Owed, Template!Answer, Template!ToolReply, ToolReply
<1>. QED  BY <1>3, <1>4 DEF Template!Next

\* The turn keeps the template: the log only grows, each call is answered in
\* order before anything else is said, and no turn ends owing a reply.
THEOREM TemplateImplemented == Spec => TemplateKept
<1>1. Init => Template!Init
  BY DEF Init, Template!Init, Over
<1>2. TypeOK /\ PendingInv /\ [Next]_vars => [Template!Next]_(Template!vars)
  <2>. SUFFICES ASSUME TypeOK, PendingInv, [Next]_vars
                PROVE  Template!Next \/ UNCHANGED <<history, Owed, Over>>
    BY DEF Template!vars, Owed
  <2>. USE DEF roundVars, confirmVars, lateVars
  <2>0. ASSUME UNCHANGED <<history, calls, answered, Over>>
        PROVE  UNCHANGED <<history, Owed, Over>>
    BY <2>0 DEF Owed
  <2>1. CASE OpenRound
    <3>1. Owed = <<>> /\ UNCHANGED Owed /\ Over = FALSE /\ Over' = FALSE
      BY <2>1, OwedCalls DEF OpenRound, PendingInv, Owed, Over
    <3>2. history' = history \/ history' = Append(history, Notice)
      BY <2>1 DEF OpenRound
    <3>3. CASE history' = Append(history, Notice)
      <4>1. Template!Announce
        BY <3>1, <3>3 DEF Owed, Template!Announce, Template!Notice, Notice,
                          Template!NoReply, NoReply
      <4>. QED  BY <4>1, <3>1 DEF Template!Next
    <3>. QED  BY <3>1, <3>2, <3>3
  <2>2. CASE EngineFails
    <3>1. Owed = <<>> /\ UNCHANGED <<history, Owed>> /\ Over = FALSE /\ Over' = TRUE
      BY <2>2, OwedCalls DEF EngineFails, PendingInv, Owed, Over
    <3>. QED  BY <3>1 DEF Owed, Template!Next, Template!Close
  <2>3. ASSUME NEW i \in Index, NEW k \in CallKinds, Delta(i, k)
        PROVE  UNCHANGED <<history, Owed, Over>>
    BY <2>3, <2>0 DEF Delta, Over
  <2>4. ASSUME NEW r \in EngineReasons, NEW ids \in CallLists, StreamEnds(r, ids)
        PROVE  Template!Next
    <3>1. Owed = <<>> /\ Over = FALSE /\ Over' = FALSE
      BY <2>4, OwedCalls DEF StreamEnds, PendingInv, Over
    <3>2. Owed' = ids
      <4>1. Owed' = SubSeq(ids, 1, Len(ids))  BY <2>4 DEF StreamEnds, Owed
      <4>. QED  BY <4>1, CallListsAreSeqs
    <3>3. history' = Append(history, Assistant(ids))
      BY <2>4 DEF StreamEnds
    <3>4. Template!Ask(ids)
      BY <3>1, <3>2, <3>3 DEF Owed, Template!Ask, Template!Assistant, Assistant,
                              Template!NoReply, NoReply
    <3>5. ids \in Template!CallLists
      BY DEF Template!CallLists, CallLists, Template!Index, Index
    <3>. QED  BY <3>1, <3>4, <3>5 DEF Template!Next
  <2>5. CASE SkipCancelled
    BY <2>5, ReplyAnswers DEF SkipCancelled, CallWaits
  <2>6. CASE RejectCall
    BY <2>6, ReplyAnswers DEF RejectCall, CallWaits
  <2>7. CASE StartAllowed
    BY <2>7, <2>0 DEF StartAllowed, CallWaits, Invoke, Over
  <2>8. CASE StartPreview
    BY <2>8, <2>0 DEF StartPreview, CallWaits, Over
  <2>9. CASE DenyCall
    BY <2>9, ReplyAnswers DEF DenyCall, PendingInv
  <2>10. CASE AskPerson
    BY <2>10, <2>0 DEF AskPerson, Over
  <2>11. ASSUME NEW id \in 1..prompts, NEW allow \in BOOLEAN, Resolve(id, allow)
         PROVE  Template!Next \/ UNCHANGED <<history, Owed, Over>>
    <3>1. CASE allow
      BY <2>11, <3>1, <2>0 DEF Resolve, Invoke, Over
    <3>2. CASE ~allow
      BY <2>11, <3>2, ReplyAnswers DEF Resolve, PendingInv
    <3>. QED  BY <3>1, <3>2
  <2>12. CASE ToolReturns
    BY <2>12, ReplyAnswers DEF ToolReturns, PendingInv
  <2>13. CASE Tick
    BY <2>13, <2>0 DEF Tick, Over
  <2>14. CASE ToolTimesOut
    BY <2>14, ReplyAnswers DEF ToolTimesOut, PendingInv
  <2>15. CASE CloseRound
    <3>1. Owed = <<>> /\ UNCHANGED <<history, Owed>> /\ Over = FALSE
      BY <2>15, OwedCalls DEF CloseRound, Owed, Over
    <3>2. Over' = TRUE \/ Over' = FALSE
      BY DEF Over
    <3>3. CASE Over' = TRUE
      BY <3>1, <3>3 DEF Owed, Template!Next, Template!Close
    <3>4. CASE Over' = FALSE
      BY <3>1, <3>4
    <3>. QED  BY <3>2, <3>3, <3>4
  <2>16. CASE Cancel
    BY <2>16, <2>0 DEF Cancel, Over
  <2>17. CASE UNCHANGED vars
    BY <2>17, <2>0 DEF vars, Over
  <2>. QED
    BY <2>1, <2>2, <2>3, <2>4, <2>5, <2>6, <2>7, <2>8, <2>9, <2>10, <2>11, <2>12,
       <2>13, <2>14, <2>15, <2>16, <2>17
       DEF Next, LoopStep, EngineStep, CallStep, ToolStep, PersonStep
<1>. QED  BY <1>1, <1>2, TypeInvariant, PTL DEF Spec, TemplateKept, Template!Spec
-----------------------------------------------------------------------------
(* Cancellation and permission.                                            *)

\* Once something ran late the token stays cancelled, so no call is asked
\* about again, and a round opened late ends the turn.
LateInv ==
    /\ lateRuns <= 1 /\ lateRounds <= 1
    /\ lateRuns > 0 => Cancelled /\ pc \notin {"previewing", "confirming"}
    /\ lateRounds > 0 =>
         /\ Cancelled
         /\ pc \in {"streaming", "ended", "failed"} \/ (pc = "answering" /\ stopping)

\* After a cancellation at most one tool still starts, the one that waited
\* on the person, and at most one more round is requested.
THEOREM CancelBounded == Spec => []CancelStopsSoon
<1>1. Init => LateInv
  BY DEF Init, LateInv
<1>2. TypeOK /\ PendingInv /\ LateInv /\ [Next]_vars => LateInv'
  <2>. SUFFICES ASSUME TypeOK, PendingInv, LateInv, [Next]_vars PROVE LateInv'
    OBVIOUS
  <2>. USE DEF roundVars, confirmVars, lateVars, LateInv, Cancelled, One, TypeOK
  <2>1. CASE OpenRound
    BY <2>1 DEF OpenRound
  <2>2. CASE EngineFails
    BY <2>2 DEF EngineFails
  <2>3. ASSUME NEW i \in Index, NEW k \in CallKinds, Delta(i, k) PROVE LateInv'
    BY <2>3 DEF Delta
  <2>4. ASSUME NEW r \in EngineReasons, NEW ids \in CallLists, StreamEnds(r, ids)
        PROVE LateInv'
    BY <2>4 DEF StreamEnds, FinishReason, AfterDrop
  <2>5. CASE SkipCancelled
    BY <2>5 DEF SkipCancelled, CallWaits, Reply
  <2>6. CASE RejectCall
    BY <2>6 DEF RejectCall, CallWaits, Reply, MayRun
  <2>7. CASE StartAllowed
    BY <2>7 DEF StartAllowed, CallWaits, Invoke, MayRun
  <2>8. CASE StartPreview
    BY <2>8 DEF StartPreview, CallWaits, MayRun
  <2>9. CASE DenyCall
    BY <2>9 DEF DenyCall, Reply
  <2>10. CASE AskPerson
    BY <2>10 DEF AskPerson
  <2>11. ASSUME NEW id \in 1..prompts, NEW allow \in BOOLEAN, Resolve(id, allow)
         PROVE LateInv'
    <3>1. CASE allow
      BY <2>11, <3>1 DEF Resolve, Invoke
    <3>2. CASE ~allow
      BY <2>11, <3>2 DEF Resolve, Reply
    <3>. QED  BY <3>1, <3>2
  <2>12. CASE ToolReturns
    BY <2>12 DEF ToolReturns, Reply
  <2>13. CASE Tick
    BY <2>13 DEF Tick
  <2>14. CASE ToolTimesOut
    BY <2>14 DEF ToolTimesOut, Reply
  <2>15. CASE CloseRound
    <3>1. stopping => Verdict = "Cancelled"
      BY DEF Verdict
    <3>2. pc' \in {"request", "ended"} /\ (stopping => pc' = "ended")
      BY <2>15, <3>1 DEF CloseRound
    <3>. QED  BY <2>15, <3>2 DEF CloseRound
  <2>16. CASE Cancel
    BY <2>16 DEF Cancel
  <2>17. CASE UNCHANGED vars
    BY <2>17 DEF vars
  <2>. QED
    BY <2>1, <2>2, <2>3, <2>4, <2>5, <2>6, <2>7, <2>8, <2>9, <2>10, <2>11, <2>12,
       <2>13, <2>14, <2>15, <2>16, <2>17
       DEF Next, LoopStep, EngineStep, CallStep, ToolStep, PersonStep
<1>3. LateInv => CancelStopsSoon
  BY DEF LateInv, CancelStopsSoon
<1>. QED  BY <1>1, <1>2, <1>3, TypeInvariant, PTL DEF Spec

\* A call that reaches the preview or the prompt has parsed, names a tool, is
\* not allowed outright, and waits in a round that was not cancelled.
GateInv ==
    /\ pc \in {"previewing", "confirming"} => Kind \in Actions /\ ~stopping
    /\ pc = "confirming" => Classify(Kind) = "ask"

\* No tool starts without the policy's leave, or the person's where the
\* policy asks for it, nor in a round cancelled before its calls came.
THEOREM PermissionKept == Spec => OnlyPermittedRun
<1>. DEFINE Permitted ==
       (pc # "invoking" /\ pc' = "invoking")
        => /\ Kind \in Actions /\ ~stopping
           /\ \/ Policy[Kind] = "allow"
              \/ /\ Policy[Kind] = "confirm"
                 /\ Mode = "headless_yes" \/ (Mode = "interactive" /\ pc = "confirming")
<1>0. \A k \in Actions : /\ Classify(k) = "allow" =>
                             Policy[k] = "allow" \/ (Policy[k] = "confirm" /\ Mode = "headless_yes")
                         /\ Classify(k) = "ask" => Policy[k] = "confirm" /\ Mode = "interactive"
  <2>. SUFFICES ASSUME NEW k \in Actions
       PROVE /\ Classify(k) = "allow" =>
                  Policy[k] = "allow" \/ (Policy[k] = "confirm" /\ Mode = "headless_yes")
             /\ Classify(k) = "ask" => Policy[k] = "confirm" /\ Mode = "interactive"
    OBVIOUS
  <2>1. CASE Policy[k] # "confirm"
    <3>1. Classify(k) = Policy[k] /\ Policy[k] \in {"allow", "deny"}
      BY <2>1, ConfigAssumption DEF Classify
    <3>. QED  BY <3>1
  <2>2. CASE Policy[k] = "confirm" /\ Mode = "headless_yes"
    BY <2>2 DEF Classify
  <2>3. CASE Policy[k] = "confirm" /\ Mode = "headless_no"
    BY <2>3 DEF Classify
  <2>4. CASE Policy[k] = "confirm" /\ Mode = "interactive"
    BY <2>4 DEF Classify
  <2>. QED  BY <2>1, <2>2, <2>3, <2>4, ConfigAssumption
<1>1. Init => GateInv
  BY DEF Init, GateInv
<1>2. TypeOK /\ PendingInv /\ GateInv /\ [Next]_vars => GateInv' /\ [Permitted]_vars
  <2>. SUFFICES ASSUME TypeOK, PendingInv, GateInv, [Next]_vars
                PROVE  GateInv' /\ (Permitted \/ UNCHANGED vars)
    OBVIOUS
  <2>. USE DEF roundVars, confirmVars, lateVars
  <2>0. ASSUME pc' \notin {"previewing", "confirming", "invoking"}
        PROVE  GateInv' /\ Permitted
    BY <2>0 DEF GateInv
  <2>1. CASE OpenRound
    BY <2>0, <2>1 DEF OpenRound
  <2>2. CASE EngineFails
    BY <2>0, <2>2 DEF EngineFails
  <2>3. ASSUME NEW i \in Index, NEW k \in CallKinds, Delta(i, k) PROVE GateInv' /\ Permitted
    BY <2>0, <2>3 DEF Delta
  <2>4. ASSUME NEW r \in EngineReasons, NEW ids \in CallLists, StreamEnds(r, ids)
        PROVE GateInv' /\ Permitted
    BY <2>0, <2>4 DEF StreamEnds
  <2>5. CASE SkipCancelled \/ RejectCall \/ DenyCall \/ ToolReturns \/ ToolTimesOut
    BY <2>0, <2>5 DEF SkipCancelled, RejectCall, DenyCall, ToolReturns, ToolTimesOut, Reply
  <2>6. CASE StartAllowed
    BY <2>6, <1>0 DEF StartAllowed, CallWaits, Invoke, MayRun, GateInv
  <2>7. CASE StartPreview
    BY <2>7 DEF StartPreview, CallWaits, MayRun, GateInv, Kind, Current
  <2>8. CASE AskPerson
    BY <2>8 DEF AskPerson, GateInv, Kind, Current
  <2>9. ASSUME NEW id \in 1..prompts, NEW allow \in BOOLEAN, Resolve(id, allow)
        PROVE GateInv' /\ Permitted
    <3>1. CASE allow
      BY <2>9, <3>1, <1>0 DEF Resolve, Invoke, GateInv
    <3>2. CASE ~allow
      BY <2>0, <2>9, <3>2 DEF Resolve, Reply
    <3>. QED  BY <3>1, <3>2
  <2>10. CASE Tick
    BY <2>10 DEF Tick, GateInv
  <2>11. CASE CloseRound
    BY <2>0, <2>11 DEF CloseRound
  <2>12. CASE Cancel
    BY <2>12 DEF Cancel, GateInv, Kind, Current
  <2>13. CASE UNCHANGED vars
    BY <2>13 DEF vars, GateInv, Kind, Current
  <2>. QED
    BY <2>1, <2>2, <2>3, <2>4, <2>5, <2>6, <2>7, <2>8, <2>9, <2>10, <2>11, <2>12, <2>13
       DEF Next, LoopStep, EngineStep, CallStep, ToolStep, PersonStep
<1>. QED  BY <1>1, <1>2, TypeInvariant, PTL DEF Spec, OnlyPermittedRun
-----------------------------------------------------------------------------
(* The wind-up.  The loop announces it in the request of the round past    *)
(* the limit, and no verdict opens a round after that one.                 *)

SystemAt(h) == {i \in DOMAIN h : h[i].role = "system"}
Announced   == roundTrips > RoundTripLimit \/ (pc = "streaming" /\ AtLimit)

WindUpInv ==
    /\ roundTrips <= RoundTripLimit + 1
    /\ pc \in {"request", "streaming"} => roundTrips <= RoundTripLimit
    /\ pc # "failed" => /\ ~Announced => SystemAt(history) = {}
                        /\ Announced  => \E i \in DOMAIN history : SystemAt(history) = {i}

\* A message at the end of the log changes no earlier place, so the system
\* messages are the old ones and, if it is one, the last.
LEMMA AppendSystem ==
    ASSUME NEW h \in Seq(Message), NEW m \in Message
    PROVE  /\ m.role # "system" => SystemAt(Append(h, m)) = SystemAt(h)
           /\ m.role = "system" => SystemAt(Append(h, m)) = SystemAt(h) \cup {Len(h) + 1}
           /\ DOMAIN h \subseteq DOMAIN Append(h, m)
<1>1. /\ DOMAIN Append(h, m) = 1..(Len(h) + 1) /\ DOMAIN h = 1..Len(h) /\ Len(h) \in Nat
      /\ Append(h, m)[Len(h) + 1] = m
      /\ \A i \in 1..Len(h) : Append(h, m)[i] = h[i]
  OBVIOUS
<1>2. \A i \in 1..(Len(h) + 1) : i \in 1..Len(h) \/ i = Len(h) + 1
  BY <1>1
<1>3. Len(h) + 1 \notin 1..Len(h) /\ 1..Len(h) \subseteq 1..(Len(h) + 1)
  BY <1>1
<1>. QED  BY <1>1, <1>2, <1>3 DEF SystemAt

\* A reply leaves the announcement as it was.
LEMMA ReplyKeepsWindUp ==
    ASSUME TypeOK, WindUpInv, answered < Len(calls), Reply, UNCHANGED roundVars,
           pc \in {"answering", "previewing", "confirming", "invoking"}
    PROVE  WindUpInv'
<1>1. history \in Seq(Message) /\ ToolReply(Current) \in Message
      /\ ToolReply(Current).role # "system"
  BY CurrentIsIndex, MessageTypes DEF TypeOK, ToolReply
<1>2. SystemAt(history') = SystemAt(history) /\ DOMAIN history \subseteq DOMAIN history'
  BY <1>1, AppendSystem DEF Reply
<1>3. Announced' <=> Announced
  BY DEF Announced, Reply, roundVars
<1>. QED  BY <1>2, <1>3 DEF WindUpInv, Reply, roundVars

\* The loop takes one round past the limit and announces it once, whatever
\* the limit is and whatever the model keeps asking for.
THEOREM OneWindUpAnnounced == Spec => []OneWindUp
<1>1. Init => WindUpInv
  <2>. SUFFICES ASSUME Init PROVE WindUpInv
    OBVIOUS
  <2>1. DOMAIN history = {}  BY DEF Init
  <2>. QED  BY <2>1, ConfigAssumption DEF Init, WindUpInv, Announced, SystemAt
<1>2. TypeOK /\ PendingInv /\ WindUpInv /\ [Next]_vars => WindUpInv'
  <2>. SUFFICES ASSUME TypeOK, PendingInv, WindUpInv, [Next]_vars PROVE WindUpInv'
    OBVIOUS
  <2>. USE DEF roundVars, confirmVars, lateVars
  <2>0. ASSUME UNCHANGED <<history, roundTrips>>, pc \notin {"request", "streaming", "failed"},
               pc' \notin {"request", "streaming", "failed"}
        PROVE  WindUpInv'
    BY <2>0 DEF WindUpInv, Announced
  <2>1. CASE OpenRound
    <3>1. history \in Seq(Message) /\ Notice \in Message /\ Notice.role = "system"
      BY MessageTypes DEF TypeOK, Notice
    <3>2. SystemAt(history) = {} /\ roundTrips \in Nat
      BY <2>1, ConfigAssumption DEF OpenRound, WindUpInv, Announced, TypeOK
    <3>3. AtLimit => SystemAt(history') = {Len(history) + 1} /\ Len(history) + 1 \in DOMAIN history'
      BY <2>1, <3>1, <3>2, AppendSystem DEF OpenRound
    <3>4. ~AtLimit => SystemAt(history') = {}
      BY <2>1, <3>2 DEF OpenRound
    <3>5. Announced' <=> AtLimit
      BY <2>1, <3>2, ConfigAssumption DEF OpenRound, Announced, AtLimit, WindUpInv
    <3>. QED  BY <2>1, <3>3, <3>4, <3>5 DEF OpenRound, WindUpInv
  <2>2. CASE EngineFails
    BY <2>2 DEF EngineFails, WindUpInv
  <2>3. ASSUME NEW i \in Index, NEW k \in CallKinds, Delta(i, k) PROVE WindUpInv'
    BY <2>3 DEF Delta, WindUpInv, Announced, AtLimit
  <2>4. ASSUME NEW r \in EngineReasons, NEW ids \in CallLists, StreamEnds(r, ids)
        PROVE  WindUpInv'
    <3>1. history \in Seq(Message) /\ Assistant(ids) \in Message /\ Assistant(ids).role # "system"
      BY MessageTypes DEF TypeOK, Assistant
    <3>2. SystemAt(history') = SystemAt(history) /\ DOMAIN history \subseteq DOMAIN history'
      BY <2>4, <3>1, AppendSystem DEF StreamEnds
    <3>3. /\ roundTrips \in Nat /\ RoundTripLimit \in Nat /\ roundTrips <= RoundTripLimit
          /\ roundTrips' = roundTrips + 1 /\ pc = "streaming" /\ pc' = "answering"
      BY <2>4, ConfigAssumption DEF StreamEnds, WindUpInv, TypeOK
    <3>4. Announced' <=> Announced
      BY <3>3 DEF Announced, AtLimit
    <3>. QED  BY <3>2, <3>3, <3>4 DEF WindUpInv
  <2>5. CASE SkipCancelled \/ RejectCall
    BY <2>5, ReplyKeepsWindUp DEF SkipCancelled, RejectCall, CallWaits
  <2>6. CASE StartAllowed
    BY <2>0, <2>6 DEF StartAllowed, CallWaits, Invoke
  <2>7. CASE StartPreview
    BY <2>0, <2>7 DEF StartPreview, CallWaits
  <2>8. CASE DenyCall \/ ToolReturns \/ ToolTimesOut
    BY <2>8, ReplyKeepsWindUp DEF DenyCall, ToolReturns, ToolTimesOut, PendingInv
  <2>9. CASE AskPerson
    BY <2>0, <2>9 DEF AskPerson
  <2>10. ASSUME NEW id \in 1..prompts, NEW allow \in BOOLEAN, Resolve(id, allow)
         PROVE WindUpInv'
    <3>1. CASE allow
      BY <2>0, <2>10, <3>1 DEF Resolve, Invoke
    <3>2. CASE ~allow
      BY <2>10, <3>2, ReplyKeepsWindUp DEF Resolve, PendingInv
    <3>. QED  BY <3>1, <3>2
  <2>11. CASE Tick
    BY <2>0, <2>11 DEF Tick
  <2>12. CASE CloseRound
    <3>1. Verdict = "none" => ~(roundTrips > RoundTripLimit)
      BY DEF Verdict
    <3>2. roundTrips \in Nat /\ RoundTripLimit \in Nat
      BY ConfigAssumption DEF TypeOK
    <3>. QED  BY <2>12, <3>1, <3>2 DEF CloseRound, WindUpInv, Announced
  <2>13. CASE Cancel
    BY <2>13 DEF Cancel, WindUpInv, Announced, AtLimit
  <2>14. CASE UNCHANGED vars
    BY <2>14 DEF vars, WindUpInv, Announced, AtLimit
  <2>. QED
    BY <2>1, <2>2, <2>3, <2>4, <2>5, <2>6, <2>7, <2>8, <2>9, <2>10, <2>11, <2>12,
       <2>13, <2>14
       DEF Next, LoopStep, EngineStep, CallStep, ToolStep, PersonStep
<1>3. WindUpInv => OneWindUp
  <2>1. Cardinality({}) = 0 /\ \A i : Cardinality({i}) = 1
    BY FS_EmptySet, FS_Singleton
  <2>. QED  BY <2>1 DEF WindUpInv, OneWindUp, Announced, SystemAt, One
<1>. QED  BY <1>1, <1>2, <1>3, TypeInvariant, PTL DEF Spec
-----------------------------------------------------------------------------
(* What the model has seen.  An engine that reports calls itself says so   *)
(* in its reason, so a round that may stop the turn asked for nothing.     *)

QuietInv ==
    /\ pc # "ended" => end = "none"
    /\ pc \in {"answering", "previewing", "confirming", "invoking", "ended"} =>
        /\ finish # "none" /\ (finish = "Cancelled" => stopping)
        /\ finish \in {"Stop", "Length"} => calls = <<>>
        /\ calls = <<>> => history[Len(history)].role = "assistant"
        /\ end = "Stopped" => finish \in {"Stop", "Length", "Error"} \/ calls = <<>>

\* No reply is written in a round that asked for nothing.
LEMMA ReplyKeepsQuiet ==
    ASSUME TypeOK, QuietInv, answered < Len(calls), Reply, UNCHANGED <<roundVars, end>>,
           pc \in {"answering", "previewing", "confirming", "invoking"}
    PROVE  QuietInv'
<1>1. calls # <<>>
  BY CallListsAreSeqs DEF TypeOK
<1>. QED  BY <1>1 DEF QuietInv, Reply, roundVars

\* Where the engine reports calls itself, a turn that stops has shown the
\* model every result it asked for.
THEOREM ResultsShown == ASSUME NativeTools PROVE Spec => []ResultsReachModel
<1>1. Init => QuietInv
  BY DEF Init, QuietInv
<1>2. TypeOK /\ PendingInv /\ QuietInv /\ [Next]_vars => QuietInv'
  <2>. SUFFICES ASSUME TypeOK, PendingInv, QuietInv, [Next]_vars PROVE QuietInv'
    OBVIOUS
  <2>. USE DEF roundVars, confirmVars, lateVars
  <2>0. ASSUME UNCHANGED <<history, finish, calls, stopping, end>>,
               pc \in {"answering", "previewing", "confirming", "invoking"}
        PROVE  QuietInv'
    BY <2>0 DEF QuietInv
  <2>1. CASE OpenRound
    BY <2>1 DEF OpenRound, QuietInv
  <2>2. CASE EngineFails
    BY <2>2 DEF EngineFails, QuietInv
  <2>3. ASSUME NEW i \in Index, NEW k \in CallKinds, Delta(i, k) PROVE QuietInv'
    BY <2>3 DEF Delta, QuietInv
  <2>4. ASSUME NEW r \in EngineReasons, NEW ids \in CallLists, StreamEnds(r, ids)
        PROVE  QuietInv'
    <3>1. CASE \E i \in Index : acc[i] # Untouched
      <4>1. r \in {"Error", "ToolCalls"}
        BY <3>1 DEF EngineReasons
      <4>2. finish' \notin {"Stop", "Length"}
        BY <2>4, <4>1 DEF StreamEnds, FinishReason
      <4>3. calls' # <<>>
        BY <2>4, <3>1 DEF StreamEnds, Issued
      <4>. QED  BY <2>4, <4>1, <4>2, <4>3 DEF StreamEnds, FinishReason, QuietInv
    <3>2. CASE \A i \in Index : acc[i] = Untouched
      <4>1. ids = <<>>
        <5>1. ids \in Seq(Index) /\ DOMAIN ids = 1..Len(ids) /\ Len(ids) \in Nat
          BY CallListsAreSeqs
        <5>2. \A k \in DOMAIN ids : ids[k] \in Index
          BY <5>1
        <5>3. DOMAIN ids = {}
          BY <2>4, <3>2, <5>2 DEF StreamEnds, Issued
        <5>. QED  BY <5>1, <5>3
      <4>2. history'[Len(history')] = Assistant(ids)
        BY <2>4, MessageTypes DEF StreamEnds, TypeOK
      <4>3. Assistant(ids).role = "assistant"
        BY DEF Assistant
      <4>4. r # "none"
        BY DEF EngineReasons
      <4>. QED  BY <2>4, <4>1, <4>2, <4>3, <4>4 DEF StreamEnds, FinishReason, QuietInv
    <3>. QED  BY <3>1, <3>2
  <2>5. CASE SkipCancelled \/ RejectCall
    BY <2>5, ReplyKeepsQuiet DEF SkipCancelled, RejectCall, CallWaits
  <2>6. CASE StartAllowed
    BY <2>0, <2>6 DEF StartAllowed, CallWaits, Invoke
  <2>7. CASE StartPreview
    BY <2>0, <2>7 DEF StartPreview, CallWaits
  <2>8. CASE DenyCall \/ ToolReturns \/ ToolTimesOut
    BY <2>8, ReplyKeepsQuiet DEF DenyCall, ToolReturns, ToolTimesOut, PendingInv
  <2>9. CASE AskPerson
    BY <2>0, <2>9 DEF AskPerson
  <2>10. ASSUME NEW id \in 1..prompts, NEW allow \in BOOLEAN, Resolve(id, allow)
         PROVE QuietInv'
    <3>1. CASE allow
      BY <2>0, <2>10, <3>1 DEF Resolve, Invoke
    <3>2. CASE ~allow
      BY <2>10, <3>2, ReplyKeepsQuiet DEF Resolve, PendingInv
    <3>. QED  BY <3>1, <3>2
  <2>11. CASE Tick
    BY <2>0, <2>11 DEF Tick
  <2>12. CASE CloseRound
    <3>1. Verdict = "Stopped" => ~stopping /\ ~(finish = "ToolCalls" /\ calls # <<>>)
      BY DEF Verdict
    <3>. QED  BY <2>12, <3>1 DEF CloseRound, QuietInv, TypeOK
  <2>13. CASE Cancel
    BY <2>13 DEF Cancel, QuietInv
  <2>14. CASE UNCHANGED vars
    BY <2>14 DEF vars, QuietInv
  <2>. QED
    BY <2>1, <2>2, <2>3, <2>4, <2>5, <2>6, <2>7, <2>8, <2>9, <2>10, <2>11, <2>12,
       <2>13, <2>14
       DEF Next, LoopStep, EngineStep, CallStep, ToolStep, PersonStep
<1>3. PendingInv /\ QuietInv => ResultsReachModel
  BY DEF QuietInv, ResultsReachModel
<1>. QED  BY <1>1, <1>2, <1>3, TypeInvariant, PTL DEF Spec
-----------------------------------------------------------------------------
(* The session.  Whatever drive and the terminal do, the variables of the   *)
(* turn take a step of the turn, stay, or start over for the next turn, so  *)
(* what holds of a turn by itself holds of every turn of a session.         *)

\* What crosses the channel.
Intent == [kind : {"submit"}, text : Nat]
            \cup [kind : {"confirm"}, id : Nat \ {NoPrompt}, allow : BOOLEAN]
            \cup [kind : {"cancel"}, turn : Nat]
            \cup [kind : {"dark"}, on : BOOLEAN]
            \cup [kind : {"quit"}]

SessionTypes ==
    /\ intents \in Seq(Intent)
    /\ queued \in Seq(Nat) /\ exit.queued \in Seq(Nat)
    /\ exit \in [quit : BOOLEAN, queued : Seq(Nat)]
    /\ screen \in Seq(Nat \ {NoPrompt})
    /\ typed \in Seq(Texts)
    /\ taken \in Seq([text : Nat, as : {"turn", "refused", "command"}])
    /\ conversation \in Seq(Message)

\* A prompt is open only while the turn waits for its answer.
PromptInv == asked # NoPrompt => pc = "confirming"

\* Each intent is one, and carries what its kind says.
LEMMA IntentTypes ==
    /\ \A n \in Nat : [kind |-> "submit", text |-> n] \in Intent
    /\ \A n \in Nat \ {NoPrompt}, b \in BOOLEAN : [kind |-> "confirm", id |-> n, allow |-> b] \in Intent
    /\ \A n \in Nat : [kind |-> "cancel", turn |-> n] \in Intent
    /\ \A b \in BOOLEAN : [kind |-> "dark", on |-> b] \in Intent
    /\ [kind |-> "quit"] \in Intent
    /\ \A i \in Intent : i.kind = "submit" => i.text \in Nat
    /\ \A i \in Intent : i.kind = "confirm" => i.id \in Nat \ {NoPrompt} /\ i.allow \in BOOLEAN
BY DEF Intent

\* Taking the oldest intent leaves a channel of intents.
LEMMA PopTypes ==
    ASSUME intents \in Seq(Intent), NEW kind, Pop(kind)
    PROVE  /\ intents' \in Seq(Intent) /\ Head(intents) \in Intent /\ Head(intents).kind = kind
           /\ intents # <<>> /\ intents' = Tail(intents)
BY DEF Pop

\* What the person answers is one of the turn's two answers.
LEMMA ConfirmIsResolve ==
    ASSUME TypeOK, SessionTypes, ConfirmTurn
    PROVE  [Next]_vars
<1>1. Head(intents).id \in Nat \ {NoPrompt} /\ Head(intents).allow \in BOOLEAN
  BY PopTypes, IntentTypes DEF ConfirmTurn, SessionTypes
<1>2. CASE Answers(Head(intents).id)
  <2>1. Head(intents).id \in 1..prompts
    BY <1>1, <1>2 DEF Answers, TypeOK, NoPrompt
  <2>2. Resolve(Head(intents).id, Head(intents).allow)
    BY <1>2 DEF ConfirmTurn
  <2>. QED  BY <1>1, <2>1, <2>2 DEF Next, PersonStep
<1>3. CASE ~Answers(Head(intents).id)
  BY <1>3 DEF ConfirmTurn, turnVars
<1>. QED  BY <1>2, <1>3

\* A step of the session is one of the turn, or starts the next turn.
LEMMA SessionStepsTurn ==
    ASSUME TypeOK, SessionTypes, [SessionNext]_sessionVars
    PROVE  [Next]_vars \/ FreshTurn
<1>1. CASE Person
  BY <1>1 DEF Person, Type, AnswerPrompt, PressCancel, PressDark, PressQuit, TerminalFails, turnVars
<1>2. CASE RunQueued
  BY <1>2 DEF RunQueued, RunPrompt, StartLocalTurn, StartAgentTurn, RefusePrompt, turnVars
<1>3. CASE ReadIntent
  <2>1. CASE ReadSubmission
    BY <2>1 DEF ReadSubmission, RunPrompt, StartLocalTurn, StartAgentTurn, RefusePrompt,
                RunCommand, turnVars
  <2>. QED  BY <1>3, <2>1 DEF ReadIntent, ReadDark, ReadQuit, ReadStale, turnVars
<1>4. CASE RunTurn
  BY <1>4 DEF RunTurn, TurnStep, Next
<1>5. CASE ReadDuringTurn
  <2>1. CASE Cancel
    BY <1>5, <2>1 DEF ReadDuringTurn, Over, Next, PersonStep
  <2>. QED  BY <1>5, <2>1, ConfirmIsResolve DEF ReadDuringTurn, CancelTurn, QuitTurn, turnVars
<1>6. CASE FinishTurn \/ FailTurn \/ ReadDuringAgent \/ AgentEnds
  BY <1>6 DEF FinishTurn, FailTurn, ReadDuringAgent, AgentEnds, turnVars
<1>7. CASE UNCHANGED sessionVars
  BY <1>7 DEF sessionVars, turnVars
<1>. QED  BY <1>1, <1>2, <1>3, <1>4, <1>5, <1>6, <1>7 DEF SessionNext

\* The turn begins with nothing said and nothing asked.
LEMMA FreshTurnCorrect ==
    ASSUME TypeOK, FreshTurn
    PROVE  TypeOK' /\ PendingInv' /\ HistoryInv' /\ PromptInv'
<1>1. <<>> \in CallLists
  BY NoCalls
<1>2. Len(calls') = 0 /\ calls' \in CallLists /\ answered' \in 0..Len(calls')
  BY <1>1 DEF FreshTurn
<1>3. acc' \in [Index -> CallKinds \cup {Untouched}] /\ history' \in Seq(Message)
  BY DEF FreshTurn
<1>4. clock' \in [ran : 0..ToolTimeout, sinceCancel : 0..ToolTimeout] /\ clock'.sinceCancel <= clock'.ran
  BY ConfigAssumption DEF FreshTurn
<1>5. prompts' \in Nat /\ asked' \in 0..prompts'
  BY DEF FreshTurn, TypeOK, NoPrompt
<1>6. TypeOK'
  BY <1>2, <1>3, <1>4, <1>5 DEF FreshTurn, TypeOK
<1>7. PendingInv'
  BY <1>2, <1>4 DEF FreshTurn, PendingInv
<1>8. HistoryInv' /\ PromptInv'
  BY DEF FreshTurn, HistoryInv, WellFormed, PromptInv
<1>. QED  BY <1>6, <1>7, <1>8

\* The session begins between two turns.
LEMMA SessionBegins ==
    ASSUME SessionInit
    PROVE  TypeOK /\ PendingInv /\ HistoryInv /\ PromptInv /\ SessionTypes
<1>1. <<>> \in CallLists
  BY NoCalls
<1>2. Len(calls) = 0 /\ calls \in CallLists /\ answered \in 0..Len(calls)
  BY <1>1 DEF SessionInit
<1>3. acc \in [Index -> CallKinds \cup {Untouched}] /\ history \in Seq(Message)
  BY DEF SessionInit
<1>4. clock \in [ran : 0..ToolTimeout, sinceCancel : 0..ToolTimeout] /\ clock.sinceCancel <= clock.ran
  BY ConfigAssumption DEF SessionInit
<1>5. TypeOK
  BY <1>2, <1>3, <1>4 DEF SessionInit, TypeOK, NoPrompt
<1>6. PendingInv
  BY <1>2, <1>4 DEF SessionInit, PendingInv
<1>7. HistoryInv /\ PromptInv
  BY DEF SessionInit, HistoryInv, WellFormed, PromptInv
<1>8. SessionTypes
  BY DEF SessionInit, SessionTypes, NoExit
<1>. QED  BY <1>5, <1>6, <1>7, <1>8

\* Only a turn that previews a call opens a prompt, under the next identifier.
LEMMA LoopPrompts ==
    ASSUME TypeOK, LoopStep
    PROVE  \/ prompts' = prompts /\ asked' = asked
           \/ prompts' = prompts + 1 /\ asked' = prompts + 1
BY DEF LoopStep, EngineStep, CallStep, ToolStep, OpenRound, EngineFails, Delta, StreamEnds,
       SkipCancelled, RejectCall, StartAllowed, StartPreview, DenyCall, AskPerson,
       ToolReturns, Tick, ToolTimesOut, CloseRound, confirmVars

\* A step of the turn opens a prompt only to wait for its answer.
LEMMA PromptStep ==
    ASSUME TypeOK, PromptInv, [Next]_vars
    PROVE  PromptInv'
<1>. USE DEF PromptInv, confirmVars
<1>1. CASE EngineStep
  BY <1>1 DEF EngineStep, OpenRound, EngineFails, Delta, StreamEnds
<1>2. CASE CallStep
  BY <1>2 DEF CallStep, SkipCancelled, RejectCall, StartAllowed, StartPreview, DenyCall,
              AskPerson, CallWaits
<1>3. CASE ToolStep
  BY <1>3 DEF ToolStep, ToolReturns, Tick, ToolTimesOut
<1>4. CASE CloseRound
  BY <1>4 DEF CloseRound
<1>5. CASE PersonStep
  BY <1>5 DEF PersonStep, Cancel, Resolve
<1>6. CASE UNCHANGED vars
  BY <1>6 DEF vars
<1>. QED  BY <1>1, <1>2, <1>3, <1>4, <1>5, <1>6 DEF Next, LoopStep

\* What the person sends is an intent, and joins the channel last.
LEMMA SendTypes ==
    ASSUME intents \in Seq(Intent), NEW i \in Intent, Send(i)
    PROVE  intents' \in Seq(Intent) /\ intents' = Append(intents, i)
BY DEF Send

\* Taking a submission, by whatever way, keeps the record of it.
LEMMA TakeTypes ==
    ASSUME SessionTypes, NEW n \in Nat, RunPrompt(n) \/ RunCommand(n)
    PROVE  /\ taken' \in Seq([text : Nat, as : {"turn", "refused", "command"}])
           /\ \E as \in {"turn", "refused", "command"} : taken' = Append(taken, [text |-> n, as |-> as])
<1>1. \E as \in {"turn", "refused", "command"} : Take(n, as)
  BY DEF RunPrompt, RunCommand, StartLocalTurn, StartAgentTurn, RefusePrompt
<1>2. PICK as \in {"turn", "refused", "command"} : Take(n, as)
  BY <1>1
<1>3. [text |-> n, as |-> as] \in [text : Nat, as : {"turn", "refused", "command"}]
  OBVIOUS
<1>4. taken' = Append(taken, [text |-> n, as |-> as])
  BY <1>2 DEF Take
<1>5. taken \in Seq([text : Nat, as : {"turn", "refused", "command"}])
  BY DEF SessionTypes
<1>. HIDE DEF Take
<1>6. taken' \in Seq([text : Nat, as : {"turn", "refused", "command"}])
  BY <1>3, <1>4, <1>5, AppendProperties
<1>. QED  BY <1>4, <1>6

\* What waited for the turn joins what waited before it.
LEMMA LeaveTypes ==
    ASSUME SessionTypes, Leave
    PROVE  /\ queued' \in Seq(Nat) /\ exit'.queued \in Seq(Nat)
           /\ exit' \in [quit : BOOLEAN, queued : Seq(Nat)]
BY DEF SessionTypes, Leave, NoExit

\* The channel, the queues, the screen and the conversation keep their types.
LEMMA SessionTypesStep ==
    ASSUME TypeOK, SessionTypes, [SessionNext]_sessionVars
    PROVE  SessionTypes'
<1>1. CASE Person
  <2>1. ASSUME NEW text \in Texts, Type(text) PROVE SessionTypes'
    <3>1. Len(typed) + 1 \in Nat
      BY DEF SessionTypes
    <3>. QED  BY <2>1, <3>1, IntentTypes, SendTypes DEF Type, driveVars, SessionTypes
  <2>2. ASSUME NEW b \in BOOLEAN, AnswerPrompt(b) PROVE SessionTypes'
    <3>1. Head(screen) \in Nat \ {NoPrompt} /\ screen' \in Seq(Nat \ {NoPrompt})
      BY <2>2 DEF AnswerPrompt, SessionTypes
    <3>. QED  BY <2>2, <3>1, IntentTypes, SendTypes DEF AnswerPrompt, driveVars, SessionTypes
  <2>3. ASSUME NEW b \in BOOLEAN, PressDark(b) PROVE SessionTypes'
    BY <2>3, IntentTypes, SendTypes DEF PressDark, driveVars, appVars, SessionTypes
  <2>4. CASE PressCancel
    <3>1. Len(taken) \in Nat
      BY DEF SessionTypes
    <3>. QED  BY <2>4, <3>1, IntentTypes, SendTypes DEF PressCancel, driveVars, appVars, SessionTypes
  <2>5. CASE PressQuit
    BY <2>5, IntentTypes, SendTypes DEF PressQuit, driveVars, SessionTypes
  <2>6. CASE TerminalFails
    BY <2>6 DEF TerminalFails, driveVars, SessionTypes
  <2>. QED  BY <1>1, <2>1, <2>2, <2>3, <2>4, <2>5, <2>6 DEF Person
<1>2. CASE RunQueued
  <2>1. Head(queued) \in Nat /\ queued' \in Seq(Nat)
    BY <1>2 DEF RunQueued, SessionTypes
  <2>. QED  BY <1>2, <2>1, TakeTypes DEF RunQueued, appVars, SessionTypes
<1>3. CASE ReadIntent
  <2>1. CASE ReadSubmission
    <3>1. Head(intents).text \in Nat /\ intents' \in Seq(Intent)
      BY <2>1, PopTypes, IntentTypes DEF ReadSubmission, SessionTypes
    <3>2. RunPrompt(Head(intents).text) \/ RunCommand(Head(intents).text)
      BY <2>1 DEF ReadSubmission
    <3>. QED  BY <1>3, <3>1, <3>2, TakeTypes DEF ReadIntent, appVars, SessionTypes
  <2>2. CASE ReadDark \/ ReadQuit \/ ReadStale
    <3>1. intents' \in Seq(Intent) /\ UNCHANGED taken
      BY <2>2, PopTypes DEF ReadDark, ReadQuit, ReadStale, SessionTypes
    <3>. QED  BY <1>3, <3>1 DEF ReadIntent, appVars, SessionTypes
  <2>. QED  BY <1>3, <2>1, <2>2 DEF ReadIntent
<1>4. CASE RunTurn
  <2>1. prompts' = prompts \/ prompts' = prompts + 1
    BY <1>4, LoopPrompts DEF RunTurn, TurnStep
  <2>2. screen' \in Seq(Nat \ {NoPrompt})
    <3>1. CASE prompts' = prompts
      BY <1>4, <3>1 DEF RunTurn, TurnStep, ShowPrompt, SessionTypes
    <3>2. CASE prompts' # prompts
      <4>1. prompts' \in Nat \ {NoPrompt}
        BY <2>1, <3>2 DEF TypeOK, NoPrompt
      <4>. QED  BY <1>4, <3>2, <4>1 DEF RunTurn, TurnStep, ShowPrompt, SessionTypes
    <3>. QED  BY <3>1, <3>2
  <2>. QED  BY <1>4, <2>2 DEF RunTurn, TurnStep, driveVars, SessionTypes
<1>5. ASSUME QueueSubmission PROVE intents' \in Seq(Intent) /\ exit'.queued \in Seq(Nat)
                                   /\ exit' \in [quit : BOOLEAN, queued : Seq(Nat)]
  <2>1. Head(intents).text \in Nat /\ intents' \in Seq(Intent)
    BY <1>5, PopTypes, IntentTypes DEF QueueSubmission, SessionTypes
  <2>2. Append(exit.queued, Head(intents).text) \in Seq(Nat)
    BY <2>1 DEF SessionTypes
  <2>. QED  BY <1>5, <2>1, <2>2 DEF QueueSubmission, SessionTypes
<1>6. CASE ReadDuringTurn
  <2>1. intents' \in Seq(Intent) /\ exit'.queued \in Seq(Nat)
          /\ exit' \in [quit : BOOLEAN, queued : Seq(Nat)]
    <3>1. CASE QueueSubmission
      BY <3>1, <1>5
    <3>2. CASE DeferDark \/ CancelTurn \/ ConfirmTurn
      BY <3>2, PopTypes DEF DeferDark, CancelTurn, ConfirmTurn, SessionTypes
    <3>3. CASE QuitTurn
      BY <3>3, PopTypes DEF QuitTurn, SessionTypes
    <3>. QED  BY <1>6, <3>1, <3>2, <3>3 DEF ReadDuringTurn
  <2>. QED  BY <1>6, <2>1 DEF ReadDuringTurn, appVars, SessionTypes
<1>7. CASE FinishTurn
  <2>1. conversation' \in Seq(Message)
    BY <1>7 DEF FinishTurn, SessionTypes, TypeOK
  <2>. QED  BY <1>7, <2>1, LeaveTypes DEF FinishTurn, appVars, SessionTypes
<1>8. CASE FailTurn
  BY <1>8 DEF FailTurn, appVars, SessionTypes
<1>9. CASE ReadDuringAgent
  <2>1. intents' \in Seq(Intent) /\ exit'.queued \in Seq(Nat)
          /\ exit' \in [quit : BOOLEAN, queued : Seq(Nat)]
    <3>1. CASE QueueSubmission
      BY <3>1, <1>5
    <3>2. CASE DeferDark \/ IgnoreIntent
      BY <3>2, PopTypes DEF DeferDark, IgnoreIntent, SessionTypes
    <3>3. CASE QuitAgent
      BY <3>3, PopTypes DEF QuitAgent, SessionTypes
    <3>. QED  BY <1>9, <3>1, <3>2, <3>3 DEF ReadDuringAgent
  <2>. QED  BY <1>9, <2>1 DEF ReadDuringAgent, appVars, SessionTypes
<1>10. CASE AgentEnds
  <2>1. conversation' \in Seq(Message)
    <3>1. Assistant(<<>>) \in Message
      BY NoCalls, MessageTypes
    <3>2. <<>> \in Seq(Message) /\ <<Assistant(<<>>)>> \in Seq(Message)
      BY <3>1
    <3>3. PICK said \in {<<>>, <<Assistant(<<>>)>>} : conversation' = conversation \o said
      BY <1>10 DEF AgentEnds
    <3>4. conversation \in Seq(Message) /\ said \in Seq(Message)
      BY <3>2 DEF SessionTypes
    <3>. QED  BY <3>3, <3>4
  <2>. QED  BY <1>10, <2>1, LeaveTypes DEF AgentEnds, appVars, SessionTypes
<1>11. CASE UNCHANGED sessionVars
  BY <1>11 DEF sessionVars, appVars, driveVars, SessionTypes
<1>. QED  BY <1>1, <1>2, <1>3, <1>4, <1>6, <1>7, <1>8, <1>9, <1>10, <1>11 DEF SessionNext

\* A history, and a conversation, is well formed if its two parts are.
LEMMA JoinWellFormed ==
    ASSUME NEW g \in Seq(Message), NEW h \in Seq(Message), WellFormed(g), WellFormed(h)
    PROVE  WellFormed(g \o h)
<1>. DEFINE j == g \o h
<1>1. /\ Len(g) \in Nat /\ Len(h) \in Nat /\ Len(j) = Len(g) + Len(h)
      /\ \A i \in 1..Len(g) : j[i] = g[i]
      /\ \A i \in 1..Len(h) : j[Len(g) + i] = h[i]
      /\ DOMAIN j = 1..Len(j) /\ DOMAIN g = 1..Len(g) /\ DOMAIN h = 1..Len(h)
  OBVIOUS
<1>. HIDE DEF j
<1>2. \A m \in Message : DOMAIN m.calls \subseteq Nat
  BY CallListsAreSeqs DEF Message
<1>3. ASSUME NEW i \in 1..Len(g) PROVE RepliesFollow(j, i)
  <2>1. RepliesFollow(g, i) /\ g[i] \in Message
    BY <1>1 DEF WellFormed
  <2>. SUFFICES ASSUME NEW k \in DOMAIN j[i].calls
                PROVE  i + k <= Len(j) /\ j[i + k].role = "tool" /\ j[i + k].reply = j[i].calls[k]
    BY DEF RepliesFollow
  <2>2. j[i] = g[i] /\ k \in DOMAIN g[i].calls /\ k \in Nat
    BY <1>1, <1>2, <2>1
  <2>3. i + k <= Len(g) /\ g[i + k].role = "tool" /\ g[i + k].reply = g[i].calls[k]
    BY <2>1, <2>2 DEF RepliesFollow
  <2>4. j[i + k] = g[i + k]
    BY <1>1, <2>2, <2>3
  <2>. QED  BY <1>1, <2>2, <2>3, <2>4
<1>4. ASSUME NEW n \in 1..Len(h) PROVE RepliesFollow(j, Len(g) + n)
  <2>1. RepliesFollow(h, n) /\ h[n] \in Message
    BY <1>1 DEF WellFormed
  <2>. SUFFICES ASSUME NEW k \in DOMAIN j[Len(g) + n].calls
                PROVE  /\ Len(g) + n + k <= Len(j) /\ j[Len(g) + n + k].role = "tool"
                       /\ j[Len(g) + n + k].reply = j[Len(g) + n].calls[k]
    BY DEF RepliesFollow
  <2>2. j[Len(g) + n] = h[n] /\ k \in DOMAIN h[n].calls /\ k \in Nat
    BY <1>1, <1>2, <2>1
  <2>3. n + k <= Len(h) /\ h[n + k].role = "tool" /\ h[n + k].reply = h[n].calls[k]
    BY <2>1, <2>2 DEF RepliesFollow
  <2>4. j[Len(g) + (n + k)] = h[n + k] /\ Len(g) + (n + k) = Len(g) + n + k
    BY <1>1, <2>2, <2>3
  <2>. QED  BY <1>1, <2>2, <2>3, <2>4
<1>5. \A i \in 1..Len(j) : i \in 1..Len(g) \/ \E n \in 1..Len(h) : i = Len(g) + n
  <2>. TAKE i \in 1..Len(j)
  <2>1. CASE i > Len(g)
    <3>1. i - Len(g) \in 1..Len(h) /\ i = Len(g) + (i - Len(g))
      BY <1>1, <2>1
    <3>. QED  BY <3>1
  <2>. QED  BY <1>1, <2>1
<1>6. WellFormed(j)
  BY <1>1, <1>3, <1>4, <1>5 DEF WellFormed
<1>. QED  BY <1>6 DEF j

\* The session's inductive invariant, without the properties it is for.
SessionInv == TypeOK /\ PendingInv /\ HistoryInv /\ PromptInv /\ SessionTypes

LEMMA SessionInvariant == SessionSpec => []SessionInv
<1>1. SessionInit => SessionInv
  BY SessionBegins DEF SessionInv
<1>2. SessionInv /\ [SessionNext]_sessionVars => SessionInv'
  <2>. SUFFICES ASSUME SessionInv, [SessionNext]_sessionVars PROVE SessionInv'
    OBVIOUS
  <2>1. SessionTypes'
    BY SessionTypesStep DEF SessionInv
  <2>2. CASE [Next]_vars
    BY <2>1, <2>2, TypeStep, HistoryStep, PromptStep DEF SessionInv
  <2>3. CASE FreshTurn
    BY <2>1, <2>3, FreshTurnCorrect DEF SessionInv
  <2>. QED  BY <2>2, <2>3, SessionStepsTurn DEF SessionInv
<1>. QED  BY <1>1, <1>2, PTL DEF SessionSpec

\* The turns of a session are turns: between two fresh starts the turn's
\* variables move as run_turn moves them, whatever is typed, answered,
\* cancelled or left meanwhile.
THEOREM SessionRunsTurns == SessionSpec => [][Next \/ FreshTurn]_vars
<1>1. SessionInv /\ [SessionNext]_sessionVars => [Next \/ FreshTurn]_vars
  BY SessionStepsTurn DEF SessionInv
<1>. QED  BY <1>1, SessionInvariant, PTL DEF SessionSpec

\* What the turns of a session leave in its conversation answers every call,
\* whatever ended them.
THEOREM ConversationCorrect == SessionSpec => []ConversationWellFormed
<1>1. SessionInit => ConversationWellFormed
  BY DEF SessionInit, ConversationWellFormed, WellFormed
<1>2. SessionInv /\ ConversationWellFormed /\ [SessionNext]_sessionVars => ConversationWellFormed'
  <2>. SUFFICES ASSUME SessionInv, ConversationWellFormed, [SessionNext]_sessionVars
                PROVE  ConversationWellFormed'
    OBVIOUS
  <2>. USE DEF ConversationWellFormed
  <2>1. conversation \in Seq(Message) /\ history \in Seq(Message)
    BY DEF SessionInv, SessionTypes, TypeOK
  <2>2. CASE FinishTurn
    <3>1. WellFormed(history) /\ conversation' = conversation \o history
      BY <2>2 DEF FinishTurn, SessionInv, HistoryInv
    <3>. QED  BY <2>1, <3>1, JoinWellFormed
  <2>3. CASE AgentEnds
    <3>1. PICK said \in {<<>>, <<Assistant(<<>>)>>} : conversation' = conversation \o said
      BY <2>3 DEF AgentEnds
    <3>2. said \in Seq(Message)
      <4>1. Assistant(<<>>) \in Message  BY NoCalls, MessageTypes
      <4>2. <<>> \in Seq(Message) /\ <<Assistant(<<>>)>> \in Seq(Message)  BY <4>1
      <4>. QED  BY <3>1, <4>2
    <3>3. WellFormed(said)
      BY DEF WellFormed, RepliesFollow, Assistant
    <3>. QED  BY <2>1, <3>1, <3>2, <3>3, JoinWellFormed
  <2>4. CASE UNCHANGED conversation
    BY <2>4
  <2>5. Person \/ RunTurn \/ UNCHANGED sessionVars => UNCHANGED conversation
    BY DEF Person, Type, AnswerPrompt, PressCancel, PressDark, PressQuit, TerminalFails,
           RunTurn, TurnStep, sessionVars, driveVars
  <2>6. RunQueued \/ ReadIntent \/ ReadDuringTurn \/ FailTurn \/ ReadDuringAgent
          => UNCHANGED conversation
    BY DEF RunQueued, ReadIntent, ReadDuringTurn, FailTurn, ReadDuringAgent
  <2>. QED  BY <2>2, <2>3, <2>4, <2>5, <2>6 DEF SessionNext
<1>. QED  BY <1>1, <1>2, SessionInvariant, PTL DEF SessionSpec

\* A prompt on the screen, or an answer to it on the way.
OnScreen(id) == \E i \in DOMAIN screen : screen[i] = id
OnItsWay(id) == \E i \in DOMAIN intents : intents[i].kind = "confirm" /\ intents[i].id = id

\* An intent joining the channel leaves the others in it.
LEMMA JoinKeepsAnswers ==
    ASSUME SessionTypes, NEW id, NEW i \in Intent, intents' = Append(intents, i)
    PROVE  /\ OnItsWay(id) => OnItsWay(id)'
           /\ i.kind = "confirm" => OnItsWay(i.id)'
<1>1. /\ \A k \in 1..Len(intents) : intents'[k] = intents[k]
      /\ intents'[Len(intents) + 1] = i
      /\ DOMAIN intents = 1..Len(intents) /\ DOMAIN intents' = 1..(Len(intents) + 1)
      /\ Len(intents) \in Nat
  BY DEF SessionTypes
<1>. QED  BY <1>1 DEF OnItsWay

\* Taking an intent that is not the answer to the prompt leaves the answer.
LEMMA PopKeepsAnswers ==
    ASSUME SessionTypes, NEW id, OnItsWay(id), intents # <<>>, intents' = Tail(intents),
           Head(intents).kind = "confirm" => Head(intents).id # id
    PROVE  OnItsWay(id)'
<1>1. PICK k \in 1..Len(intents) : intents[k].kind = "confirm" /\ intents[k].id = id
  BY DEF OnItsWay, SessionTypes
<1>2. Len(intents) \in Nat /\ Head(intents) = intents[1]
  BY DEF SessionTypes
<1>3. k - 1 \in 1..Len(intents')
  BY <1>1, <1>2 DEF SessionTypes
<1>4. intents'[k - 1] = intents[k]
  BY <1>1, <1>3 DEF SessionTypes
<1>5. DOMAIN intents' = 1..Len(intents')
  BY DEF SessionTypes
<1>. QED  BY <1>1, <1>3, <1>4, <1>5 DEF OnItsWay

\* While the terminal is open, a turn that waits for a person is on the
\* screen or its answer is in the channel, however many prompts, answers,
\* submissions and keys cross.
THEOREM PromptsReachPerson == SessionSpec => []PromptReachesPerson
<1>. DEFINE Reached == OnScreen(asked) \/ OnItsWay(asked)
<1>0. PromptReachesPerson <=> ((drive = "turn" /\ asked # NoPrompt /\ app = "open") => Reached)
  BY DEF PromptReachesPerson, OnScreen, OnItsWay
<1>1. SessionInit => PromptReachesPerson
  BY DEF SessionInit, PromptReachesPerson
<1>2. SessionInv /\ PromptReachesPerson /\ [SessionNext]_sessionVars => PromptReachesPerson'
  <2>. SUFFICES ASSUME SessionInv, PromptReachesPerson, [SessionNext]_sessionVars,
                       drive' = "turn", asked' # NoPrompt, app' = "open"
                PROVE  Reached'
    BY DEF PromptReachesPerson, OnScreen, OnItsWay
  <2>0. TypeOK /\ SessionTypes
    BY DEF SessionInv
  <2>1. ASSUME drive = "turn", asked # NoPrompt, app = "open" PROVE Reached
    BY <2>1, <1>0
  <2>2. CASE Person
    <3>1. Reached /\ UNCHANGED asked
      <4>1. drive = "turn" /\ asked # NoPrompt /\ app = "open" /\ UNCHANGED asked
        BY <2>2 DEF Person, Type, AnswerPrompt, PressCancel, PressDark, PressQuit, TerminalFails,
                    Send, turnVars, vars, confirmVars, appVars, driveVars
      <4>. QED  BY <4>1, <2>1
    <3>2. ASSUME NEW i \in Intent, Send(i), UNCHANGED screen PROVE Reached'
      BY <2>0, <3>1, <3>2, SendTypes, JoinKeepsAnswers DEF SessionTypes, OnScreen
    <3>3. ASSUME NEW b \in BOOLEAN, AnswerPrompt(b) PROVE Reached'
      <4>1. PICK first \in Nat \ {NoPrompt} : first = Head(screen)
        BY <2>0, <3>3 DEF AnswerPrompt, SessionTypes
      <4>. DEFINE i == [kind |-> "confirm", id |-> first, allow |-> b]
      <4>2. i \in Intent /\ i.kind = "confirm" /\ i.id = first
        BY <4>1, IntentTypes
      <4>3. Send(i) /\ screen' = Tail(screen) /\ screen # <<>>
        BY <3>3, <4>1 DEF AnswerPrompt
      <4>. HIDE DEF i
      <4>4. (OnItsWay(asked) => OnItsWay(asked)') /\ OnItsWay(first)'
        <5>1. intents' = Append(intents, i)
          BY <2>0, <4>2, <4>3, SendTypes DEF SessionTypes
        <5>. QED  BY <2>0, <4>2, <5>1, JoinKeepsAnswers, <3>1
      <4>5. CASE Head(screen) = asked
        BY <3>1, <4>1, <4>4, <4>5
      <4>6. CASE Head(screen) # asked /\ OnScreen(asked)
        <5>1. PICK k \in 1..Len(screen) : screen[k] = asked
          BY <2>0, <4>6 DEF OnScreen, SessionTypes
        <5>2. Len(screen) \in Nat /\ Head(screen) = screen[1] /\ DOMAIN screen' = 1..Len(screen')
          BY <2>0, <4>3 DEF SessionTypes
        <5>3. k - 1 \in 1..Len(screen')
          BY <2>0, <4>3, <4>6, <5>1, <5>2 DEF SessionTypes
        <5>4. screen'[k - 1] = screen[k]
          BY <2>0, <4>3, <5>1, <5>3 DEF SessionTypes
        <5>. QED  BY <3>1, <5>1, <5>2, <5>3, <5>4 DEF OnScreen
      <4>. QED  BY <3>1, <4>4, <4>5, <4>6
    <3>4. ASSUME NEW text \in Texts, Type(text) PROVE Reached'
      <4>1. Len(typed) + 1 \in Nat
        BY <2>0 DEF SessionTypes
      <4>. QED  BY <3>2, <3>4, <4>1, IntentTypes DEF Type
    <3>5. ASSUME NEW b \in BOOLEAN, PressDark(b) PROVE Reached'
      BY <3>2, <3>5, IntentTypes DEF PressDark, appVars
    <3>6. CASE PressCancel
      <4>1. Len(taken) \in Nat
        BY <2>0 DEF SessionTypes
      <4>. QED  BY <3>2, <3>6, <4>1, IntentTypes DEF PressCancel, appVars
    <3>. QED  BY <2>2, <3>3, <3>4, <3>5, <3>6 DEF Person, PressQuit, TerminalFails
  <2>3. CASE RunTurn
    <3>1. drive = "turn" /\ app = "open" /\ UNCHANGED intents
      BY <2>3 DEF RunTurn, TurnStep
    <3>2. CASE prompts' = prompts /\ asked' = asked
      <4>1. UNCHANGED screen
        BY <2>3, <3>2 DEF RunTurn, TurnStep, ShowPrompt
      <4>. QED  BY <2>1, <3>1, <3>2, <4>1 DEF OnScreen, OnItsWay
    <3>3. CASE prompts' = prompts + 1 /\ asked' = prompts + 1
      <4>1. screen' = Append(screen, asked')
        BY <2>0, <2>3, <3>3 DEF RunTurn, TurnStep, ShowPrompt, TypeOK
      <4>2. Len(screen) + 1 \in DOMAIN screen' /\ screen'[Len(screen) + 1] = asked'
        BY <2>0, <4>1 DEF SessionTypes
      <4>. QED  BY <4>2 DEF OnScreen
    <3>. QED  BY <2>0, <2>3, <3>2, <3>3, LoopPrompts DEF RunTurn, TurnStep
  <2>4. CASE ReadDuringTurn
    <3>1. drive = "turn" /\ app = "open" /\ UNCHANGED screen
      BY <2>4 DEF ReadDuringTurn, appVars
    <3>2. ASSUME UNCHANGED asked, UNCHANGED intents PROVE Reached'
      BY <2>1, <3>1, <3>2 DEF OnScreen, OnItsWay
    <3>3. ASSUME UNCHANGED asked, intents # <<>>, intents' = Tail(intents),
                 Head(intents).kind = "confirm" => Head(intents).id # asked
          PROVE  Reached'
      <4>1. Reached
        BY <2>1, <3>1, <3>3
      <4>2. OnScreen(asked) => OnScreen(asked)'
        BY <3>1, <3>3 DEF OnScreen
      <4>. QED  BY <2>0, <3>3, <4>1, <4>2, PopKeepsAnswers
    <3>4. CASE (QueueSubmission \/ DeferDark) /\ UNCHANGED turnVars
      BY <3>3, <3>4 DEF QueueSubmission, DeferDark, Pop, turnVars, vars, confirmVars
    <3>5. CASE CancelTurn \/ QuitTurn
      BY <3>2, <3>3, <3>5 DEF CancelTurn, QuitTurn, Pop, Cancel, confirmVars
    <3>6. CASE ConfirmTurn
      <4>1. CASE Answers(Head(intents).id)
        BY <3>6, <4>1 DEF ConfirmTurn, Resolve
      <4>2. CASE ~Answers(Head(intents).id)
        BY <3>3, <3>6, <4>2 DEF ConfirmTurn, Answers, Pop, turnVars, vars, confirmVars
      <4>. QED  BY <4>1, <4>2
    <3>. QED  BY <2>4, <3>4, <3>5, <3>6 DEF ReadDuringTurn
  <2>5. CASE RunQueued \/ ReadIntent
    <3>1. drive = "reading" /\ drive' # drive
      BY <2>5 DEF RunQueued, ReadIntent
    <3>2. RunQueued \/ ReadSubmission \/ UNCHANGED drive \/ drive' = "returned"
      BY <2>5 DEF ReadIntent, ReadDark, ReadQuit, ReadStale
    <3>3. FreshTurn
      BY <3>1, <3>2 DEF RunQueued, ReadSubmission, RunCommand, RunPrompt, StartLocalTurn,
                        StartAgentTurn, RefusePrompt
    <3>. QED  BY <3>3 DEF FreshTurn
  <2>6. FinishTurn \/ FailTurn \/ ReadDuringAgent \/ AgentEnds => FALSE
    BY DEF FinishTurn, FailTurn, ReadDuringAgent, AgentEnds, Leave
  <2>7. CASE UNCHANGED sessionVars
    BY <2>1, <2>7 DEF sessionVars, turnVars, vars, confirmVars, appVars, driveVars, OnScreen, OnItsWay
  <2>. QED  BY <2>2, <2>3, <2>4, <2>5, <2>6, <2>7 DEF SessionNext
<1>. QED  BY <1>1, <1>2, SessionInvariant, PTL DEF SessionSpec

\* The channel, element by element: what is submitted in it was typed after
\* the first `left`, all of that is in it, and each comes after the one before.
OnlyNew(seq, left, last) ==
    \A i \in 1..Len(seq) : seq[i].kind = "submit" => seq[i].text \in (left + 1)..last
AllNew(seq, left, last) ==
    \A n \in (left + 1)..last : \E i \in 1..Len(seq) : seq[i].kind = "submit" /\ seq[i].text = n
Rising(seq) ==
    \A i, j \in 1..Len(seq) : (seq[i].kind = "submit" /\ seq[j].kind = "submit" /\ i < j)
                                 => seq[i].text < seq[j].text

LEMMA CarriesMeans ==
    ASSUME NEW seq \in Seq(Intent), NEW left \in Nat, NEW last \in Nat
    PROVE  Carries(seq, left, last) <=> OnlyNew(seq, left, last) /\ AllNew(seq, left, last) /\ Rising(seq)
<1>. DEFINE sent == {i \in DOMAIN seq : seq[i].kind = "submit"}
<1>1. DOMAIN seq = 1..Len(seq)
  OBVIOUS
<1>2. \A i : i \in sent <=> i \in 1..Len(seq) /\ seq[i].kind = "submit"
  BY <1>1
<1>3. Carries(seq, left, last) <=>
        /\ {seq[i].text : i \in sent} = (left + 1)..last
        /\ \A i, j \in sent : i < j => seq[i].text < seq[j].text
  BY DEF Carries
<1>. HIDE DEF sent
<1>4. {seq[i].text : i \in sent} = (left + 1)..last <=>
        /\ \A i \in sent : seq[i].text \in (left + 1)..last
        /\ \A n \in (left + 1)..last : \E i \in sent : seq[i].text = n
  OBVIOUS
<1>. QED  BY <1>2, <1>3, <1>4 DEF OnlyNew, AllNew, Rising

\* Taking anything but a submission.
LEMMA CarriesRest ==
    ASSUME NEW seq \in Seq(Intent), NEW left \in Nat, NEW last \in Nat, seq # <<>>,
           Head(seq).kind # "submit", Carries(seq, left, last)
    PROVE  Carries(Tail(seq), left, last)
<1>0. OnlyNew(seq, left, last) /\ AllNew(seq, left, last) /\ Rising(seq)
  BY CarriesMeans
<1>1. /\ Len(seq) \in Nat \ {0} /\ Len(Tail(seq)) = Len(seq) - 1 /\ Head(seq) = seq[1]
      /\ Tail(seq) \in Seq(Intent) /\ \A i \in 1..Len(Tail(seq)) : Tail(seq)[i] = seq[i + 1]
  OBVIOUS
<1>. DEFINE rest == Tail(seq)
<1>2. /\ Len(rest) = Len(seq) - 1 /\ rest \in Seq(Intent)
      /\ \A i \in 1..Len(rest) : i + 1 \in 1..Len(seq) /\ rest[i] = seq[i + 1]
  BY <1>1
<1>. HIDE DEF rest
<1>3. \A n \in (left + 1)..last :
         \E i \in 1..Len(rest) : rest[i].kind = "submit" /\ rest[i].text = n
  <2>. TAKE n \in (left + 1)..last
  <2>1. PICK k \in 1..Len(seq) : seq[k].kind = "submit" /\ seq[k].text = n
    BY <1>0 DEF OnlyNew, AllNew, Rising
  <2>2. k # 1
    BY <1>1, <2>1
  <2>3. k - 1 \in 1..Len(rest) /\ (k - 1) + 1 = k
    BY <1>1, <1>2, <2>1, <2>2
  <2>4. rest[k - 1] = seq[k]
    BY <1>2, <2>3
  <2>. QED  BY <2>1, <2>3, <2>4
<1>4. \A i \in 1..Len(rest) : rest[i].kind = "submit" => rest[i].text \in (left + 1)..last
  BY <1>0, <1>2 DEF OnlyNew
<1>5. \A i, j \in 1..Len(rest) :
         (rest[i].kind = "submit" /\ rest[j].kind = "submit" /\ i < j) => rest[i].text < rest[j].text
  <2>. TAKE i, j \in 1..Len(rest)
  <2>. HAVE rest[i].kind = "submit" /\ rest[j].kind = "submit" /\ i < j
  <2>1. /\ i + 1 \in 1..Len(seq) /\ j + 1 \in 1..Len(seq) /\ i + 1 < j + 1
        /\ rest[i] = seq[i + 1] /\ rest[j] = seq[j + 1]
    BY <1>2
  <2>2. seq[i + 1].text < seq[j + 1].text
    BY <1>0, <2>1 DEF Rising
  <2>. QED  BY <2>1, <2>2
<1>6. Carries(rest, left, last)
  BY <1>2, <1>3, <1>4, <1>5, CarriesMeans DEF OnlyNew, AllNew, Rising
<1>. QED  BY <1>6 DEF rest

\* The first submission in the channel is the first typed after `left`.
LEMMA CarriesFirst ==
    ASSUME NEW seq \in Seq(Intent), NEW left \in Nat, NEW last \in Nat, seq # <<>>,
           Head(seq).kind = "submit", Carries(seq, left, last)
    PROVE  /\ Head(seq).text = left + 1 /\ left + 1 <= last
           /\ Carries(Tail(seq), left + 1, last)
<1>0. OnlyNew(seq, left, last) /\ AllNew(seq, left, last) /\ Rising(seq)
  BY CarriesMeans
<1>. DEFINE rest == Tail(seq)
<1>1. /\ Len(seq) \in Nat \ {0} /\ Len(rest) = Len(seq) - 1 /\ Head(seq) = seq[1]
      /\ rest \in Seq(Intent) /\ Head(seq) \in Intent
      /\ \A i \in 1..Len(rest) : rest[i] = seq[i + 1]
  OBVIOUS
<1>2. Head(seq).text \in Nat /\ \A i \in 1..Len(seq) : seq[i].kind = "submit" => seq[i].text \in Nat
  BY <1>1, IntentTypes, ElementOfSeq
<1>. HIDE DEF rest
<1>3. Head(seq).text \in (left + 1)..last
  BY <1>1, <1>0 DEF OnlyNew, AllNew, Rising
<1>4. Head(seq).text = left + 1
  <2>1. left + 1 \in (left + 1)..last
    BY <1>3
  <2>2. PICK k \in 1..Len(seq) : seq[k].kind = "submit" /\ seq[k].text = left + 1
    BY <2>1, <1>0 DEF OnlyNew, AllNew, Rising
  <2>3. CASE k = 1
    BY <1>1, <2>2, <2>3
  <2>4. CASE 1 < k
    <3>1. seq[1].text < seq[k].text
      BY <1>1, <2>2, <2>4, <1>0 DEF OnlyNew, AllNew, Rising
    <3>. QED  BY <1>1, <1>2, <1>3, <2>2, <3>1
  <2>. QED  BY <2>2, <2>3, <2>4
<1>5. \A i \in 1..Len(rest) : i + 1 \in 1..Len(seq) /\ rest[i] = seq[i + 1] /\ 1 < i + 1
  BY <1>1
<1>6. \A i \in 1..Len(rest) : rest[i].kind = "submit" => rest[i].text \in (left + 1 + 1)..last
  <2>. TAKE i \in 1..Len(rest)
  <2>. HAVE rest[i].kind = "submit"
  <2>1. rest[i].text \in (left + 1)..last /\ seq[1].text < rest[i].text
    <3>1. i + 1 \in 1..Len(seq) /\ rest[i] = seq[i + 1] /\ 1 \in 1..Len(seq) /\ 1 < i + 1
      BY <1>1, <1>5
    <3>2. seq[1].kind = "submit"
      BY <1>1
    <3>. QED  BY <1>0, <3>1, <3>2 DEF OnlyNew, Rising
  <2>2. seq[1].text = left + 1
    BY <1>1, <1>4
  <2>. QED  BY <2>1, <2>2
<1>7. \A n \in (left + 1 + 1)..last :
         \E i \in 1..Len(rest) : rest[i].kind = "submit" /\ rest[i].text = n
  <2>. TAKE n \in (left + 1 + 1)..last
  <2>1. n \in (left + 1)..last /\ n # left + 1
    OBVIOUS
  <2>2. PICK k \in 1..Len(seq) : seq[k].kind = "submit" /\ seq[k].text = n
    BY <2>1, <1>0 DEF OnlyNew, AllNew, Rising
  <2>3. k # 1
    BY <1>1, <1>4, <2>1, <2>2
  <2>4. k - 1 \in 1..Len(rest) /\ (k - 1) + 1 = k
    BY <1>1, <2>2, <2>3
  <2>5. rest[k - 1] = seq[k]
    BY <1>5, <2>4
  <2>. QED  BY <2>2, <2>4, <2>5
<1>8. \A i, j \in 1..Len(rest) :
         (rest[i].kind = "submit" /\ rest[j].kind = "submit" /\ i < j) => rest[i].text < rest[j].text
  <2>. TAKE i, j \in 1..Len(rest)
  <2>. HAVE rest[i].kind = "submit" /\ rest[j].kind = "submit" /\ i < j
  <2>1. /\ i + 1 \in 1..Len(seq) /\ j + 1 \in 1..Len(seq) /\ i + 1 < j + 1
        /\ rest[i] = seq[i + 1] /\ rest[j] = seq[j + 1]
    BY <1>5
  <2>2. seq[i + 1].text < seq[j + 1].text
    BY <1>0, <2>1 DEF Rising
  <2>. QED  BY <2>1, <2>2
<1>9. Carries(rest, left + 1, last)
  <2>1. OnlyNew(rest, left + 1, last) /\ AllNew(rest, left + 1, last) /\ Rising(rest)
    BY <1>6, <1>7, <1>8 DEF OnlyNew, AllNew, Rising
  <2>2. left + 1 \in Nat
    OBVIOUS
  <2>. QED  BY <1>1, <2>1, <2>2, CarriesMeans
<1>. QED  BY <1>3, <1>4, <1>9 DEF rest

\* An intent joins the channel: the next submission, or anything else.
LEMMA CarriesMore ==
    ASSUME NEW seq \in Seq(Intent), NEW left \in Nat, NEW last \in Nat, NEW i \in Intent,
           Carries(seq, left, last), left <= last
    PROVE  /\ i.kind # "submit" => Carries(Append(seq, i), left, last)
           /\ (i.kind = "submit" /\ i.text = last + 1) => Carries(Append(seq, i), left, last + 1)
<1>0. OnlyNew(seq, left, last) /\ AllNew(seq, left, last) /\ Rising(seq)
  BY CarriesMeans
<1>. DEFINE more == Append(seq, i)
<1>1. /\ Len(seq) \in Nat /\ Len(more) = Len(seq) + 1 /\ more \in Seq(Intent)
      /\ more[Len(more)] = i /\ \A k \in 1..Len(seq) : more[k] = seq[k]
  OBVIOUS
<1>. HIDE DEF more
<1>2. \A k \in 1..Len(more) : k \in 1..Len(seq) \/ k = Len(more)
  BY <1>1
<1>3. \A k \in 1..Len(seq) : k \in 1..Len(more)
  BY <1>1
<1>4. ASSUME i.kind # "submit" PROVE Carries(more, left, last)
  <2>1. \A k \in 1..Len(more) : more[k].kind = "submit" => more[k].text \in (left + 1)..last
    BY <1>1, <1>2, <1>4, <1>0 DEF OnlyNew, AllNew, Rising
  <2>2. \A n \in (left + 1)..last :
           \E k \in 1..Len(more) : more[k].kind = "submit" /\ more[k].text = n
    BY <1>1, <1>3, <1>0 DEF OnlyNew, AllNew, Rising
  <2>3. \A j, k \in 1..Len(more) :
           (more[j].kind = "submit" /\ more[k].kind = "submit" /\ j < k) => more[j].text < more[k].text
    BY <1>1, <1>2, <1>4, <1>0 DEF OnlyNew, AllNew, Rising
  <2>. QED  BY <1>1, <2>1, <2>2, <2>3, CarriesMeans DEF OnlyNew, AllNew, Rising
<1>5. ASSUME i.kind = "submit", i.text = last + 1 PROVE Carries(more, left, last + 1)
  <2>0. \A k \in 1..Len(seq) : seq[k].kind = "submit" => seq[k].text \in (left + 1)..last
    BY <1>0 DEF OnlyNew, AllNew, Rising
  <2>1. \A k \in 1..Len(more) : more[k].kind = "submit" => more[k].text \in (left + 1)..(last + 1)
    BY <1>1, <1>2, <1>5, <2>0
  <2>2. ASSUME NEW n \in (left + 1)..(last + 1)
        PROVE  \E k \in 1..Len(more) : more[k].kind = "submit" /\ more[k].text = n
    <3>1. CASE n = last + 1
      BY <1>1, <1>5, <3>1
    <3>2. CASE n \in (left + 1)..last
      BY <1>1, <1>3, <3>2, <1>0 DEF OnlyNew, AllNew, Rising
    <3>. QED  BY <3>1, <3>2
  <2>3. ASSUME NEW j \in 1..Len(more), NEW k \in 1..Len(more),
               more[j].kind = "submit", more[k].kind = "submit", j < k
        PROVE  more[j].text < more[k].text
    <3>1. j \in 1..Len(seq) /\ more[j].text \in (left + 1)..last
      BY <1>1, <1>2, <2>0, <2>3
    <3>2. CASE k \in 1..Len(seq)
      BY <1>1, <2>3, <3>1, <3>2, <1>0 DEF OnlyNew, AllNew, Rising
    <3>3. CASE k = Len(more)
      BY <1>1, <1>5, <3>1, <3>3
    <3>. QED  BY <1>2, <3>2, <3>3
  <2>4. OnlyNew(more, left, last + 1) /\ AllNew(more, left, last + 1) /\ Rising(more)
    BY <2>1, <2>2, <2>3 DEF OnlyNew, AllNew, Rising
  <2>5. last + 1 \in Nat
    OBVIOUS
  <2>. QED  BY <1>1, <2>4, <2>5, CarriesMeans
<1>. QED  BY <1>4, <1>5 DEF more

\* What left the channel, as texts.
Record == [text : Nat, as : {"turn", "refused", "command"}]

\* The texts of what was taken, and one more.
LEMMA TextsOfTypes ==
    ASSUME NEW t \in Seq(Record), NEW rec \in Record
    PROVE  /\ TextsOf(t) \in Seq(Nat)
           /\ TextsOf(Append(t, rec)) = Append(TextsOf(t), rec.text)
<1>1. \A i \in 1..Len(t) : t[i] \in Record /\ t[i].text \in Nat
  <2>1. \A r \in Record : r.text \in Nat
    BY DEF Record
  <2>2. \A i \in 1..Len(t) : t[i] \in Record
    OBVIOUS
  <2>. QED  BY <2>1, <2>2
<1>2. rec.text \in Nat
  BY DEF Record
<1>3. /\ DOMAIN t = 1..Len(t) /\ Len(t) \in Nat
      /\ DOMAIN Append(t, rec) = 1..(Len(t) + 1)
      /\ \A i \in 1..Len(t) : Append(t, rec)[i] = t[i]
      /\ Append(t, rec)[Len(t) + 1] = rec
  OBVIOUS
<1>4. TextsOf(t) = [i \in 1..Len(t) |-> t[i].text]
  BY <1>3 DEF TextsOf
<1>5. TextsOf(t) \in Seq(Nat) /\ Len(TextsOf(t)) = Len(t)
  BY <1>1, <1>3, <1>4
<1>6. TextsOf(Append(t, rec)) = [i \in 1..(Len(t) + 1) |-> Append(t, rec)[i].text]
  BY <1>3 DEF TextsOf
<1>7. /\ Append(TextsOf(t), rec.text) \in [1..(Len(t) + 1) -> Nat]
      /\ \A i \in 1..Len(t) : Append(TextsOf(t), rec.text)[i] = t[i].text
      /\ Append(TextsOf(t), rec.text)[Len(t) + 1] = rec.text
  <2>. DEFINE u == TextsOf(t)
              n == rec.text
  <2>1. u \in Seq(Nat) /\ Len(u) = Len(t) /\ n \in Nat /\ Len(t) \in Nat
    BY <1>2, <1>3, <1>5
  <2>2. \A i \in 1..Len(t) : u[i] = t[i].text
    BY <1>4
  <2>. HIDE DEF u, n
  <2>3. /\ Append(u, n) \in Seq(Nat) /\ Len(Append(u, n)) = Len(t) + 1
        /\ \A i \in 1..Len(t) : Append(u, n)[i] = u[i]
        /\ Append(u, n)[Len(t) + 1] = n
    <3>1. /\ Append(u, n) \in Seq(Nat) /\ Len(Append(u, n)) = Len(u) + 1
          /\ \A i \in 1..Len(u) : Append(u, n)[i] = u[i]
          /\ Append(u, n)[Len(u) + 1] = n
      BY <2>1, AppendProperties
    <3>. QED  BY <2>1, <3>1
  <2>4. Append(u, n) \in [1..(Len(t) + 1) -> Nat]
    <3>1. \A v \in Seq(Nat) : v \in [1..Len(v) -> Nat]
      BY LenProperties
    <3>2. Append(u, n) \in [1..Len(Append(u, n)) -> Nat]
      BY <2>3, <3>1
    <3>. QED  BY <2>3, <3>2
  <2>. QED  BY <2>2, <2>3, <2>4 DEF u, n
<1>8. \A i \in 1..(Len(t) + 1) : i \in 1..Len(t) \/ i = Len(t) + 1
  BY <1>3
<1>9. \A i \in 1..(Len(t) + 1) : Append(TextsOf(t), rec.text)[i] = Append(t, rec)[i].text
  BY <1>3, <1>7, <1>8
<1>. QED  BY <1>5, <1>6, <1>7, <1>9

\* The parts of what left the channel are sequences of texts.
LEMMA LeftChannelTypes ==
    ASSUME SessionTypes
    PROVE  /\ TextsOf(taken) \in Seq(Nat) /\ queued \in Seq(Nat) /\ exit.queued \in Seq(Nat)
           /\ LeftChannel \in Seq(Nat) /\ Len(LeftChannel) \in Nat /\ Len(typed) \in Nat
<1>1. [text |-> 0, as |-> "turn"] \in Record
  BY DEF Record
<1>2. TextsOf(taken) \in Seq(Nat)
  BY <1>1, TextsOfTypes DEF SessionTypes, Record
<1>. QED  BY <1>2 DEF SessionTypes, LeftChannel

\* Joining texts is associative, with a sequence or a last text.
LEMMA JoinAssociative ==
    ASSUME NEW r \in Seq(Nat), NEW s \in Seq(Nat), NEW t \in Seq(Nat)
    PROVE  (r \o s) \o t = r \o (s \o t)
OBVIOUS

LEMMA JoinAppend ==
    ASSUME NEW r \in Seq(Nat), NEW s \in Seq(Nat), NEW n \in Nat
    PROVE  r \o Append(s, n) = Append(r \o s, n)
OBVIOUS

\* Nothing waits for a turn when no turn runs.
IdleInv == drive \in {"reading", "returned"} => exit.queued = <<>>

\* One more text leaves the channel, or none does.
Moves(n)   == LeftChannel' = Append(LeftChannel, n)
NoneMoves  == LeftChannel' = LeftChannel

\* Taking the head of the queue, or a submission when nothing is queued.
LEMMA TakingMoves ==
    ASSUME SessionTypes, NEW n \in Nat, RunPrompt(n) \/ RunCommand(n), UNCHANGED exit,
           exit.queued = <<>>
    PROVE  /\ (queued # <<>> /\ Head(queued) = n /\ queued' = Tail(queued)) => NoneMoves
           /\ (queued = <<>> /\ queued' = <<>>) => Moves(n)
<1>1. PICK as \in {"turn", "refused", "command"} : taken' = Append(taken, [text |-> n, as |-> as])
  BY TakeTypes
<1>. DEFINE rec == [text |-> n, as |-> as]
            t   == TextsOf(taken)
<1>2. rec \in Record /\ rec.text = n
  BY DEF Record
<1>3. taken \in Seq(Record)
  BY DEF SessionTypes, Record
<1>. HIDE DEF rec
<1>4. TextsOf(taken') = Append(t, n) /\ t \in Seq(Nat) /\ queued \in Seq(Nat)
  <2>1. taken' = Append(taken, rec)
    BY <1>1 DEF rec
  <2>. QED  BY <1>2, <1>3, <2>1, TextsOfTypes DEF SessionTypes
<1>. HIDE DEF t
<1>5. LeftChannel = t \o queued
  BY <1>4, ConcatEmptySeq DEF LeftChannel, t
<1>6. ASSUME queued' \in Seq(Nat) PROVE LeftChannel' = Append(t, n) \o queued'
  <2>1. Append(t, n) \o queued' \in Seq(Nat)
    BY <1>4, <1>6
  <2>. QED  BY <1>4, <2>1, ConcatEmptySeq DEF LeftChannel
<1>7. ASSUME queued # <<>>, Head(queued) = n, queued' = Tail(queued) PROVE NoneMoves
  <2>1. queued' \in Seq(Nat)
    BY <1>4, <1>7
  <2>2. Append(t, n) \o Tail(queued) = t \o queued
    <3>1. Append(t, n) = t \o <<n>>
      BY <1>4, AppendIsConcat
    <3>2. queued = <<n>> \o Tail(queued) /\ <<n>> \in Seq(Nat)
      BY <1>4, <1>7
    <3>3. Tail(queued) \in Seq(Nat)
      BY <1>7, <2>1
    <3>4. (t \o <<n>>) \o Tail(queued) = t \o (<<n>> \o Tail(queued))
      <4>. DEFINE rest == Tail(queued)
                  one  == <<n>>
      <4>1. t \in Seq(Nat) /\ one \in Seq(Nat) /\ rest \in Seq(Nat)
        BY <1>4, <3>2, <3>3
      <4>. HIDE DEF rest, one
      <4>2. (t \o one) \o rest = t \o (one \o rest)
        BY <4>1, JoinAssociative
      <4>. QED  BY <4>2 DEF rest, one
    <3>. QED  BY <3>1, <3>2, <3>4
  <2>. QED  BY <1>5, <1>6, <1>7, <2>1, <2>2 DEF NoneMoves
<1>8. ASSUME queued = <<>>, queued' = <<>> PROVE Moves(n)
  <2>1. t \o <<>> = t /\ Append(t, n) \o <<>> = Append(t, n)
    BY <1>4, ConcatEmptySeq
  <2>. QED  BY <1>5, <1>6, <1>8, <2>1 DEF Moves
<1>. QED  BY <1>7, <1>8

\* A submission that waits for the turn joins the end of what left.
LEMMA QueueingMoves ==
    ASSUME SessionTypes, NEW n \in Nat, UNCHANGED <<taken, queued>>,
           exit'.queued = Append(exit.queued, n)
    PROVE  Moves(n)
<1>1. TextsOf(taken) \in Seq(Nat) /\ queued \in Seq(Nat) /\ exit.queued \in Seq(Nat)
  BY LeftChannelTypes
<1>. DEFINE front == TextsOf(taken) \o queued
<1>2. front \in Seq(Nat)
  BY <1>1
<1>. HIDE DEF front
<1>3. front \o Append(exit.queued, n) = Append(front \o exit.queued, n)
  BY <1>1, <1>2, JoinAppend
<1>. QED  BY <1>3 DEF Moves, LeftChannel, front

\* The end of a turn moves what waited for it into the queue.
LEMMA LeavingMoves ==
    ASSUME SessionTypes, Leave, UNCHANGED taken
    PROVE  NoneMoves /\ exit'.queued = <<>>
<1>. DEFINE a == TextsOf(taken)
            b == queued
            c == exit.queued
<1>1. a \in Seq(Nat) /\ b \in Seq(Nat) /\ c \in Seq(Nat)
  BY LeftChannelTypes
<1>2. exit'.queued = <<>>
  BY DEF Leave, NoExit
<1>3. LeftChannel = (a \o b) \o c /\ LeftChannel' = (a \o (b \o c)) \o <<>>
  BY <1>2 DEF LeftChannel, Leave
<1>. HIDE DEF a, b, c
<1>4. (a \o b) \o c = a \o (b \o c)
  BY <1>1, JoinAssociative
<1>5. a \o (b \o c) \in Seq(Nat)
  BY <1>1
<1>6. (a \o (b \o c)) \o <<>> = a \o (b \o c)
  BY <1>5, ConcatEmptySeq
<1>. QED  BY <1>2, <1>3, <1>4, <1>6 DEF NoneMoves

OrderInv == InTypedOrder /\ IdleInv

\* What left the channel is numbered from one.
Numbered == LeftChannel = [n \in 1..Len(LeftChannel) |-> n]

\* A step that moves nothing out of the channel keeps the order, if what it
\* does to the channel keeps the submissions in it.
LEMMA NoneMovesKeepsOrder ==
    ASSUME SessionTypes, SessionTypes', InTypedOrder, NoneMoves, Len(typed') >= Len(typed),
           Carries(intents', Len(LeftChannel), Len(typed'))
    PROVE  InTypedOrder'
<1>1. /\ Len(LeftChannel) \in Nat /\ Len(typed) \in Nat /\ Len(typed') \in Nat
      /\ Len(LeftChannel') = Len(LeftChannel)
  BY LeftChannelTypes DEF NoneMoves, SessionTypes
<1>. QED  BY <1>1 DEF InTypedOrder, NoneMoves

\* The first submission in the channel may leave it.
LEMMA FirstMovesKeepsOrder ==
    ASSUME SessionTypes, InTypedOrder, intents # <<>>, Head(intents).kind = "submit",
           Moves(Head(intents).text), intents' = Tail(intents), typed' = typed
    PROVE  InTypedOrder'
<1>. DEFINE left == LeftChannel
            n    == Head(intents).text
<1>1. left \in Seq(Nat) /\ Len(left) \in Nat /\ Len(typed) \in Nat /\ intents \in Seq(Intent)
  BY LeftChannelTypes DEF SessionTypes
<1>2. n = Len(left) + 1 /\ Len(left) + 1 <= Len(typed) /\ Carries(intents', Len(left) + 1, Len(typed))
  BY <1>1, CarriesFirst DEF InTypedOrder
<1>3. LeftChannel' = Append(left, n) /\ \A k \in 1..Len(left) : left[k] = k
  BY <1>1 DEF InTypedOrder, Moves
<1>. HIDE DEF left, n
<1>4. Len(LeftChannel') = Len(left) + 1
  BY <1>1, <1>2, <1>3
<1>5. LeftChannel' = [k \in 1..(Len(left) + 1) |-> k]
  <2>1. /\ LeftChannel' = [k \in 1..(Len(left) + 1) |-> LeftChannel'[k]]
        /\ LeftChannel'[Len(left) + 1] = n
        /\ \A k \in 1..Len(left) : LeftChannel'[k] = left[k]
    BY <1>1, <1>2, <1>3
  <2>2. \A k \in 1..(Len(left) + 1) : k \in 1..Len(left) \/ k = Len(left) + 1
    BY <1>1
  <2>3. \A k \in 1..(Len(left) + 1) : LeftChannel'[k] = k
    BY <1>2, <1>3, <2>1, <2>2
  <2>. QED  BY <2>1, <2>3
<1>. QED  BY <1>2, <1>4, <1>5 DEF InTypedOrder

\* What was typed in a session runs, is refused or is dispatched in the
\* order it was typed, once each, whether it waited in the channel or for
\* the turns that ran meanwhile.
THEOREM SubmissionsInOrder == SessionSpec => []InTypedOrder
<1>1. SessionInit => OrderInv
  <2>. SUFFICES ASSUME SessionInit PROVE OrderInv
    OBVIOUS
  <2>1. LeftChannel = <<>>
    BY DEF SessionInit, LeftChannel, TextsOf, NoExit
  <2>2. Carries(<<>>, 0, 0)
    BY DEF Carries
  <2>. QED  BY <2>1, <2>2 DEF SessionInit, OrderInv, InTypedOrder, IdleInv, NoExit
<1>2. SessionInv /\ OrderInv /\ [SessionNext]_sessionVars => OrderInv'
  <2>. SUFFICES ASSUME SessionInv, OrderInv, [SessionNext]_sessionVars PROVE OrderInv'
    OBVIOUS
  <2>0. /\ SessionTypes /\ SessionTypes' /\ TypeOK /\ InTypedOrder /\ IdleInv
        /\ Len(LeftChannel) \in Nat /\ Len(typed) \in Nat /\ intents \in Seq(Intent)
        /\ Len(LeftChannel) <= Len(typed) /\ Carries(intents, Len(LeftChannel), Len(typed))
    BY SessionTypesStep, LeftChannelTypes DEF SessionInv, OrderInv, SessionTypes, InTypedOrder
  <2>1. ASSUME UNCHANGED <<taken, queued, exit.queued>> PROVE NoneMoves
    BY <2>1 DEF NoneMoves, LeftChannel
  <2>2. ASSUME NoneMoves, UNCHANGED typed, UNCHANGED intents PROVE InTypedOrder'
    BY <2>0, <2>2, NoneMovesKeepsOrder
  <2>3. ASSUME NoneMoves, UNCHANGED typed, intents # <<>>, Head(intents).kind # "submit",
               intents' = Tail(intents)
        PROVE  InTypedOrder'
    BY <2>0, <2>3, NoneMovesKeepsOrder, CarriesRest
  <2>4. ASSUME NoneMoves, UNCHANGED typed, NEW i \in Intent, i.kind # "submit", Send(i)
        PROVE  InTypedOrder'
    <3>1. Carries(intents', Len(LeftChannel), Len(typed))
      BY <2>0, <2>4, SendTypes, CarriesMore
    <3>. QED  BY <2>0, <2>4, <3>1, NoneMovesKeepsOrder
  <2>5. ASSUME QueueSubmission, UNCHANGED <<typed, taken, queued>> PROVE InTypedOrder'
    <3>1. /\ intents # <<>> /\ Head(intents).kind = "submit" /\ intents' = Tail(intents)
          /\ Head(intents).text \in Nat /\ exit'.queued = Append(exit.queued, Head(intents).text)
      BY <2>0, <2>5, PopTypes, IntentTypes DEF QueueSubmission, SessionTypes
    <3>2. Moves(Head(intents).text)
      BY <2>0, <2>5, <3>1, QueueingMoves
    <3>. QED  BY <2>0, <2>5, <3>1, <3>2, FirstMovesKeepsOrder
  <2>6. CASE Person
    <3>1. UNCHANGED <<taken, queued, exit, drive>>
      BY <2>6 DEF Person, Type, AnswerPrompt, PressCancel, PressDark, PressQuit, TerminalFails,
                  driveVars
    <3>2. NoneMoves /\ IdleInv'
      BY <2>0, <2>1, <3>1 DEF IdleInv
    <3>3. ASSUME NEW text \in Texts, Type(text) PROVE InTypedOrder'
      <4>. DEFINE i == [kind |-> "submit", text |-> Len(typed) + 1]
      <4>1. i \in Intent /\ i.kind = "submit" /\ i.text = Len(typed) + 1
        <5>1. Len(typed) + 1 \in Nat
          BY <2>0
        <5>. QED  BY <5>1, IntentTypes
      <4>2. Send(i) /\ Len(typed') = Len(typed) + 1
        BY <2>0, <3>3 DEF Type, SessionTypes
      <4>. HIDE DEF i
      <4>3. Carries(intents', Len(LeftChannel), Len(typed) + 1)
        BY <2>0, <4>1, <4>2, SendTypes, CarriesMore
      <4>. QED  BY <2>0, <3>2, <4>2, <4>3, NoneMovesKeepsOrder
    <3>4. ASSUME NEW b \in BOOLEAN, AnswerPrompt(b) PROVE InTypedOrder'
      <4>1. Head(screen) \in Nat \ {NoPrompt}
        BY <2>0, <3>4 DEF AnswerPrompt, SessionTypes
      <4>. QED  BY <2>4, <3>2, <3>4, <4>1, IntentTypes DEF AnswerPrompt
    <3>5. ASSUME NEW b \in BOOLEAN, PressDark(b) PROVE InTypedOrder'
      BY <2>4, <3>2, <3>5, IntentTypes DEF PressDark, appVars
    <3>6. ASSUME PressCancel PROVE InTypedOrder'
      <4>1. Len(taken) \in Nat
        BY <2>0 DEF SessionTypes
      <4>. QED  BY <2>4, <3>2, <3>6, <4>1, IntentTypes DEF PressCancel, appVars
    <3>7. ASSUME PressQuit PROVE InTypedOrder'
      BY <2>4, <3>2, <3>7, IntentTypes DEF PressQuit
    <3>8. ASSUME TerminalFails PROVE InTypedOrder'
      BY <2>2, <3>2, <3>8 DEF TerminalFails
    <3>9. InTypedOrder'
      BY <2>6, <3>3, <3>4, <3>5, <3>6, <3>7, <3>8 DEF Person
    <3>. QED  BY <3>2, <3>9 DEF OrderInv
  <2>7. CASE RunQueued
    <3>1. Head(queued) \in Nat /\ queued # <<>> /\ exit.queued = <<>>
      <4>1. queued # <<>> /\ queued \in Seq(Nat)
        BY <2>0, <2>7 DEF RunQueued, SessionTypes
      <4>2. exit.queued = <<>>
        BY <2>0, <2>7 DEF RunQueued, IdleInv
      <4>. QED  BY <4>1, <4>2
    <3>2. NoneMoves
      BY <2>0, <2>7, <3>1, TakingMoves DEF RunQueued
    <3>. QED  BY <2>2, <2>7, <3>1, <3>2 DEF RunQueued, appVars, OrderInv, IdleInv
  <2>8. CASE ReadIntent
    <3>1. UNCHANGED <<typed, exit, queued>> /\ queued = <<>> /\ exit.queued = <<>>
      BY <2>0, <2>8 DEF ReadIntent, appVars, IdleInv
    <3>2. CASE ReadSubmission
      <4>1. /\ intents # <<>> /\ Head(intents).kind = "submit" /\ intents' = Tail(intents)
            /\ Head(intents).text \in Nat
        BY <2>0, <3>2, PopTypes, IntentTypes DEF ReadSubmission
      <4>2. Moves(Head(intents).text)
        BY <2>0, <3>1, <3>2, <4>1, TakingMoves DEF ReadSubmission
      <4>. QED  BY <2>0, <3>1, <4>1, <4>2, FirstMovesKeepsOrder DEF OrderInv, IdleInv
    <3>3. CASE ReadDark \/ ReadQuit \/ ReadStale
      <4>1. NoneMoves
        BY <2>1, <3>1, <3>3 DEF ReadDark, ReadQuit, ReadStale
      <4>. QED  BY <2>2, <2>3, <3>1, <3>3, <4>1 DEF ReadDark, ReadQuit, ReadStale, Pop, OrderInv, IdleInv
    <3>. QED  BY <2>8, <3>2, <3>3 DEF ReadIntent
  <2>9. CASE RunTurn
    <3>1. UNCHANGED <<taken, queued, exit, drive, typed, intents>>
      BY <2>9 DEF RunTurn, TurnStep, driveVars
    <3>. QED  BY <2>0, <2>1, <2>2, <3>1 DEF OrderInv, IdleInv
  <2>10. ASSUME UNCHANGED <<taken, queued, typed>>, exit'.queued = exit.queued,
                \/ intents # <<>> /\ Head(intents).kind # "submit" /\ intents' = Tail(intents)
                \/ UNCHANGED intents
         PROVE  InTypedOrder'
    BY <2>1, <2>2, <2>3, <2>10
  <2>11. CASE ReadDuringTurn
    <3>1. UNCHANGED <<taken, queued, typed, drive>> /\ drive = "turn"
      BY <2>11 DEF ReadDuringTurn, appVars
    <3>2. CASE QueueSubmission
      BY <2>5, <3>1, <3>2 DEF OrderInv, IdleInv
    <3>3. CASE DeferDark \/ CancelTurn \/ ConfirmTurn
      BY <2>10, <3>1, <3>3 DEF DeferDark, CancelTurn, ConfirmTurn, Pop, OrderInv, IdleInv
    <3>4. CASE QuitTurn
      <4>1. exit'.queued = exit.queued
        BY <2>0, <3>4 DEF QuitTurn, SessionTypes
      <4>. QED  BY <2>10, <3>1, <3>4, <4>1 DEF QuitTurn, Pop, OrderInv, IdleInv
    <3>. QED  BY <2>11, <3>2, <3>3, <3>4 DEF ReadDuringTurn
  <2>12. CASE ReadDuringAgent
    <3>1. UNCHANGED <<taken, queued, typed, drive>> /\ drive = "agent"
      BY <2>12 DEF ReadDuringAgent, appVars
    <3>2. CASE QueueSubmission
      BY <2>5, <3>1, <3>2 DEF OrderInv, IdleInv
    <3>3. CASE DeferDark \/ IgnoreIntent
      BY <2>10, <3>1, <3>3 DEF DeferDark, IgnoreIntent, Pop, OrderInv, IdleInv
    <3>4. CASE QuitAgent
      <4>1. exit'.queued = exit.queued
        BY <2>0, <3>4 DEF QuitAgent, SessionTypes
      <4>. QED  BY <2>10, <3>1, <3>4, <4>1 DEF QuitAgent, Pop, OrderInv, IdleInv
    <3>. QED  BY <2>12, <3>2, <3>3, <3>4 DEF ReadDuringAgent
  <2>13. CASE FinishTurn \/ AgentEnds
    <3>1. Leave /\ UNCHANGED <<taken, typed, intents>>
      BY <2>13 DEF FinishTurn, AgentEnds, appVars
    <3>2. NoneMoves /\ exit'.queued = <<>>
      BY <2>0, <3>1, LeavingMoves
    <3>. QED  BY <2>2, <3>1, <3>2 DEF OrderInv, IdleInv
  <2>14. CASE FailTurn
    BY <2>0, <2>1, <2>2, <2>14 DEF FailTurn, appVars, OrderInv, IdleInv
  <2>15. CASE UNCHANGED sessionVars
    BY <2>0, <2>1, <2>2, <2>15 DEF sessionVars, appVars, driveVars, OrderInv, IdleInv
  <2>. QED  BY <2>6, <2>7, <2>8, <2>9, <2>11, <2>12, <2>13, <2>14, <2>15 DEF SessionNext
<1>3. OrderInv => InTypedOrder
  BY DEF OrderInv
<1>. QED  BY <1>1, <1>2, <1>3, SessionInvariant, PTL DEF SessionSpec
=============================================================================
