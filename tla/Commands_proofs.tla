--------------------------- MODULE Commands_proofs ---------------------------
(***************************************************************************)
(* Proofs about Commands, for every tree of processes, every timeout and   *)
(* every grace: what a kill leaves alive, which lines a reply may lack,    *)
(* and why the drain does not cost a command its answer.                   *)
(***************************************************************************)
EXTENDS Commands, TLAPS

\* The lines an answer may carry.
LEMMA LinesBounded ==
    ASSUME TypeOK
    PROVE  collected \in 0 .. MaxLines /\ 0 \in 0 .. MaxLines
BY CommandsAssumption DEF TypeOK

\* A reply's type, and the replies the code makes.
LEMMA ReplyTypes ==
    ASSUME reply \in Replies
    PROVE  /\ reply.outcome \in {"none", "exited", "timed out", "cancelled", "dropped"}
           /\ reply.open \in BOOLEAN /\ reply.at \in 0 .. Horizon
           /\ \A n \in 0 .. MaxLines :
                 LET r == [reply EXCEPT !.lines = n]
                 IN  /\ r \in Replies /\ r.lines = n
                     /\ r.outcome = reply.outcome /\ r.open = reply.open /\ r.at = reply.at
BY DEF Replies

\* An answer changes the call's stage and the lines of its reply alone.
LEMMA RepliedKeeps ==
    ASSUME reply \in Replies, NEW n \in 0 .. MaxLines, Replied(n)
    PROVE  /\ reply' \in Replies /\ reply'.lines = n /\ reply'.outcome = reply.outcome
           /\ reply'.open = reply.open /\ reply'.at = reply.at
           /\ UNCHANGED <<clock, turnTimer, timer, cancelled, alive, group, holders,
                          written, collected>>
           /\ stage' = "over"
BY ReplyTypes DEF Replied, world

\* Type correctness of run_command's state.
THEOREM TypeCorrect == Spec => []TypeOK
<1>1. Init => TypeOK
  <2>. SUFFICES ASSUME Init PROVE TypeOK
    OBVIOUS
  <2>1. reply \in Replies
    BY CommandsAssumption DEF Init, Replies
  <2>2. /\ stage = "asked" /\ clock = 0 /\ turnTimer = ToolTimeout /\ timer = 0
        /\ cancelled = FALSE /\ alive = {} /\ group = {} /\ holders = {}
        /\ written = 0 /\ collected = 0
    BY DEF Init
  <2>3. clock \in 0 .. Horizon /\ turnTimer \in Nat /\ timer \in Nat
    BY <2>2, CommandsAssumption
  <2>4. written \in 0 .. MaxLines /\ collected \in 0 .. written
    BY <2>2, CommandsAssumption
  <2>5. alive \subseteq Processes /\ group \subseteq Processes /\ holders \subseteq alive
    BY <2>2
  <2>. QED  BY <2>1, <2>2, <2>3, <2>4, <2>5 DEF TypeOK
<1>2. TypeOK /\ [Next]_vars => TypeOK'
  <2>. SUFFICES ASSUME TypeOK, [Next]_vars PROVE TypeOK'
    OBVIOUS
  <2>. USE CommandsAssumption DEF TypeOK
  <2>1. ASSUME NEW parent \in Processes, NEW new \in Descendants, Fork(parent, new)
        PROVE  TypeOK'
    BY <2>1 DEF Fork, Processes
  <2>2. ASSUME NEW p \in Processes, LeaveGroup(p) PROVE TypeOK'
    BY <2>2 DEF LeaveGroup
  <2>3. ASSUME NEW p \in Processes, Write(p) PROVE TypeOK'
    BY <2>3 DEF Write
  <2>4. ASSUME NEW p \in Processes, CloseOutput(p) PROVE TypeOK'
    BY <2>4 DEF CloseOutput
  <2>5. ASSUME NEW p \in Processes, Exit(p) PROVE TypeOK'
    BY <2>5 DEF Exit
  <2>6. CASE Spawn
    BY <2>6 DEF Spawn, Processes
  <2>7. CASE Collect
    BY <2>7 DEF Collect, world
  <2>8. CASE StopWaiting
    <3>1. Outcome \in {"cancelled", "timed out", "exited"}
      BY <2>8 DEF StopWaiting, Outcome
    <3>2. /\ alive' \subseteq Processes /\ group' \subseteq Processes /\ holders' \subseteq alive'
          /\ written' = written
      BY <2>8 DEF StopWaiting, KillTree, Killed, world
    <3>3. reply' \in Replies
      <4>1. clock \in 0 .. Horizon /\ 0 \in 0 .. MaxLines
        OBVIOUS
      <4>. HIDE DEF TypeOK
      <4>. QED  BY <2>8, <3>1, <4>1 DEF StopWaiting, Replies
    <3>. QED  BY <2>8, <3>2, <3>3 DEF StopWaiting, DrainDeadline
  <2>9. CASE Answer
    <3>1. collected \in 0 .. MaxLines
      OBVIOUS
    <3>. QED  BY <2>9, <3>1, RepliedKeeps DEF Answer
  <2>10. CASE DrainTimesOut
    <3>1. 0 \in 0 .. MaxLines
      OBVIOUS
    <3>. QED  BY <2>10, <3>1, RepliedKeeps DEF DrainTimesOut
  <2>11. CASE TurnTimesOut
    <3>1. reply' \in Replies
      <4>1. 0 \in 0 .. Horizon /\ 0 \in 0 .. MaxLines
        OBVIOUS
      <4>. HIDE DEF TypeOK
      <4>. QED  BY <2>11, <4>1 DEF TurnTimesOut, Replies
    <3>. QED  BY <2>11, <3>1 DEF TurnTimesOut, Killed
  <2>12. CASE Cancel
    BY <2>12 DEF Cancel, world
  <2>13. CASE Tick
    BY <2>13 DEF Tick, world
  <2>14. CASE UNCHANGED vars
    BY <2>14 DEF vars
  <2>. QED
    BY <2>1, <2>2, <2>3, <2>4, <2>5, <2>6, <2>7, <2>8, <2>9, <2>10, <2>11, <2>12,
       <2>13, <2>14 DEF Next, Call
<1>. QED  BY <1>1, <1>2, PTL DEF Spec
-----------------------------------------------------------------------------
(* The drain.  Its deadline is one grace after the wait ended, and it      *)
(* waits for lines only while a process may still write them.              *)

Concluded == reply.outcome \notin {"none", "dropped"}

DrainInv ==
    /\ stage \in {"asked", "waiting"} => reply.outcome = "none"
    /\ stage = "draining" => /\ Concluded
                             /\ timer = reply.at + Grace /\ clock <= timer
    /\ Concluded /\ ~reply.open =>
         /\ holders = {}
         /\ stage = "draining" => collected = written \/ clock < timer
         /\ stage = "over" => reply.lines = written

\* A tick passes in the drain only short of its deadline, with every line
\* the processes have written collected.
LEMMA TickInDrain ==
    ASSUME Tick, stage = "draining"
    PROVE  ~(clock >= timer) /\ ~(collected < written)
BY DEF Tick, Due

LEMMA DrainInvariant == Spec => [](TypeOK /\ DrainInv)
<1>1. Init => DrainInv
  BY DEF Init, DrainInv, Concluded
<1>2. TypeOK /\ DrainInv /\ [Next]_vars => DrainInv'
  <2>. SUFFICES ASSUME TypeOK, DrainInv, [Next]_vars PROVE DrainInv'
    OBVIOUS
  <2>. USE CommandsAssumption DEF DrainInv, Concluded, TypeOK
  <2>1. ASSUME NEW parent \in Processes, NEW new \in Descendants, Fork(parent, new)
        PROVE  DrainInv'
    BY <2>1 DEF Fork, Processes
  <2>2. ASSUME NEW p \in Processes, LeaveGroup(p) PROVE DrainInv'
    BY <2>2 DEF LeaveGroup
  <2>3. ASSUME NEW p \in Processes, Write(p) PROVE DrainInv'
    BY <2>3 DEF Write
  <2>4. ASSUME NEW p \in Processes, CloseOutput(p) PROVE DrainInv'
    BY <2>4 DEF CloseOutput
  <2>5. ASSUME NEW p \in Processes, Exit(p) PROVE DrainInv'
    BY <2>5 DEF Exit
  <2>6. CASE Spawn
    BY <2>6 DEF Spawn, Processes
  <2>7. CASE Collect
    BY <2>7 DEF Collect, world
  <2>8. CASE StopWaiting
    <3>1. Outcome \in {"cancelled", "timed out", "exited"}
      BY <2>8 DEF StopWaiting, Outcome
    <3>2. /\ reply' = [outcome |-> Outcome, open |-> holders' # {}, at |-> clock, lines |-> 0]
          /\ stage' = "draining" /\ timer' = clock + Grace /\ clock' = clock
      BY <2>8 DEF StopWaiting, DrainDeadline
    <3>3. /\ reply'.outcome = Outcome /\ reply'.at = clock /\ (reply'.open <=> holders' # {})
      BY <3>2
    <3>4. clock' <= timer' /\ (~reply'.open => clock' < timer')
      BY <3>2
    <3>. QED  BY <3>1, <3>2, <3>3, <3>4
  <2>9. CASE Answer
    <3>1. collected \in 0 .. MaxLines /\ collected = written /\ stage = "draining"
      BY <2>9 DEF Answer, Drained, EndOfFile
    <3>. QED  BY <2>9, <3>1, RepliedKeeps DEF Answer
  <2>10. CASE DrainTimesOut
    <3>1. reply.open /\ 0 \in 0 .. MaxLines /\ stage = "draining"
      BY <2>10 DEF DrainTimesOut, EndOfFile
    <3>. QED  BY <2>10, <3>1, RepliedKeeps DEF DrainTimesOut
  <2>11. CASE TurnTimesOut
    BY <2>11 DEF TurnTimesOut
  <2>12. CASE Cancel
    BY <2>12 DEF Cancel, world
  <2>13. CASE Tick
    BY <2>13, TickInDrain DEF Tick, world
  <2>14. CASE UNCHANGED vars
    BY <2>14 DEF vars
  <2>. QED
    BY <2>1, <2>2, <2>3, <2>4, <2>5, <2>6, <2>7, <2>8, <2>9, <2>10, <2>11, <2>12,
       <2>13, <2>14 DEF Next, Call
<1>. QED  BY <1>1, <1>2, TypeCorrect, PTL DEF Spec

\* No process joins a group from outside it, so a group that was killed
\* stays dead: what a survivor starts later is in no group of the command.
THEOREM KillsTheGroup == Spec => []KilledGroupGone
<1>1. Init => KilledGroupGone
  BY DEF Init, KilledGroupGone
<1>2. TypeOK /\ DrainInv /\ KilledGroupGone /\ [Next]_vars => KilledGroupGone'
  <2>. SUFFICES ASSUME TypeOK, DrainInv, KilledGroupGone, [Next]_vars PROVE KilledGroupGone'
    OBVIOUS
  <2>. USE DEF KilledGroupGone
  <2>1. ASSUME NEW parent \in Processes, NEW new \in Descendants, Fork(parent, new)
        PROVE  KilledGroupGone'
    <3>1. CASE reply.outcome \in {"timed out", "cancelled"}
      <4>1. parent \notin group /\ new \notin group
        BY <2>1, <3>1 DEF Fork
      <4>. QED  BY <2>1, <3>1, <4>1 DEF Fork
    <3>2. CASE reply.outcome \notin {"timed out", "cancelled"}
      BY <2>1, <3>2 DEF Fork
    <3>. QED  BY <3>1, <3>2
  <2>2. ASSUME NEW p \in Processes, LeaveGroup(p) PROVE KilledGroupGone'
    BY <2>2 DEF LeaveGroup
  <2>3. ASSUME NEW p \in Processes, Write(p) PROVE KilledGroupGone'
    BY <2>3 DEF Write
  <2>4. ASSUME NEW p \in Processes, CloseOutput(p) PROVE KilledGroupGone'
    BY <2>4 DEF CloseOutput
  <2>5. ASSUME NEW p \in Processes, Exit(p) PROVE KilledGroupGone'
    BY <2>5 DEF Exit
  <2>6. CASE Spawn
    BY <2>6 DEF Spawn, DrainInv
  <2>7. CASE Collect
    BY <2>7 DEF Collect, world
  <2>8. CASE StopWaiting
    <3>1. reply'.outcome = Outcome
      BY <2>8 DEF StopWaiting
    <3>2. Outcome # "exited" => alive' = alive \ group /\ group' = group
      BY <2>8 DEF StopWaiting, KillTree, Killed
    <3>. QED  BY <3>1, <3>2
  <2>9. ASSUME NEW n \in 0 .. MaxLines, Replied(n), reply \in Replies PROVE KilledGroupGone'
    BY <2>9, RepliedKeeps
  <2>10. CASE Answer \/ DrainTimesOut
    <3>1. collected \in 0 .. MaxLines /\ 0 \in 0 .. MaxLines /\ reply \in Replies
      BY LinesBounded DEF TypeOK
    <3>. QED  BY <2>9, <2>10, <3>1 DEF Answer, DrainTimesOut
  <2>11. CASE TurnTimesOut
    BY <2>11 DEF TurnTimesOut
  <2>12. CASE Cancel
    BY <2>12 DEF Cancel, world
  <2>13. CASE Tick
    BY <2>13 DEF Tick, world
  <2>14. CASE UNCHANGED vars
    BY <2>14 DEF vars
  <2>. QED
    BY <2>1, <2>2, <2>3, <2>4, <2>5, <2>6, <2>7, <2>8, <2>10, <2>11, <2>12,
       <2>13, <2>14 DEF Next, Call
<1>. QED  BY <1>1, <1>2, DrainInvariant, PTL DEF Spec

\* A reply that lacks a line lacks it because some process still had the pipe
\* open when the wait ended, whatever was written, forked or killed meanwhile.
THEOREM LinesLostOnlyToHolder == Spec => []LostOnlyToHolder
<1>1. DrainInv => LostOnlyToHolder
  BY DEF DrainInv, Concluded, LostOnlyToHolder
<1>. QED  BY <1>1, DrainInvariant, PTL

\* The drain adds one grace to the wait and no more, so a command that ended
\* its wait a grace before the tool timeout is answered by run_command itself.
THEOREM DrainEndsInTime == Spec => DrainInTime
<1>. DEFINE InTime == stage = "draining" /\ reply'.outcome = "dropped" =>
                        reply.at + Grace >= turnTimer
<1>1. TypeOK /\ DrainInv /\ [Next]_vars => [InTime]_vars
  <2>. SUFFICES ASSUME TypeOK, DrainInv, Next, stage = "draining", reply'.outcome = "dropped"
                PROVE  reply.at + Grace >= turnTimer
    OBVIOUS
  <2>1. reply.outcome # "dropped" /\ timer = reply.at + Grace /\ clock <= timer
    BY DEF DrainInv, Concluded
  <2>2. reply' # reply
    BY <2>1
  <2>3. TurnTimesOut
    <3>1. collected \in 0 .. MaxLines /\ 0 \in 0 .. MaxLines /\ reply \in Replies
      BY CommandsAssumption DEF TypeOK
    <3>2. ~Answer /\ ~DrainTimesOut
      BY <2>1, <3>1, RepliedKeeps DEF Answer, DrainTimesOut
    <3>. QED
      BY <2>2, <3>2 DEF Next, Call, Fork, LeaveGroup, Write, CloseOutput, Exit, Spawn,
                        Collect, StopWaiting, Cancel, Tick
  <2>. QED  BY <2>1, <2>3, CommandsAssumption DEF TurnTimesOut, TypeOK
<1>. QED  BY <1>1, DrainInvariant, PTL DEF Spec, DrainInTime
=============================================================================
