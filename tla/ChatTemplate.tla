---------------------------- MODULE ChatTemplate ----------------------------
(***************************************************************************)
(* What a turn promises a chat template (crates/dark-core/src/turn/mod.rs, *)
(* "The rule this module exists to keep"): the log only grows, each call   *)
(* an assistant message asks for is answered once, in order and before     *)
(* anything else is said, and a turn does not close owing a reply.         *)
(***************************************************************************)
EXTENDS Messages

VARIABLES log,      \* the messages produced
          owed,     \* the calls of the last assistant message still unanswered
          closed    \* the turn is over

vars == <<log, owed, closed>>

Init == log = <<>> /\ owed = <<>> /\ closed = FALSE

Announce == /\ owed = <<>>
            /\ log' = Append(log, Notice)
            /\ UNCHANGED <<owed, closed>>

Ask(ids) == /\ owed = <<>>
            /\ log' = Append(log, Assistant(ids))
            /\ owed' = ids
            /\ UNCHANGED closed

Answer == /\ owed # <<>>
          /\ log' = Append(log, ToolReply(Head(owed)))
          /\ owed' = Tail(owed)
          /\ UNCHANGED closed

Close == owed = <<>> /\ closed' = TRUE /\ UNCHANGED <<log, owed>>

Next == /\ ~closed
        /\ \/ Announce
           \/ \E ids \in CallLists : Ask(ids)
           \/ Answer
           \/ Close

Spec == Init /\ [][Next]_vars
=============================================================================
