------------------------------ MODULE Messages ------------------------------
(***************************************************************************)
(* The messages a turn adds to a conversation, reduced to what a chat      *)
(* template reads: the role, the calls an assistant message asks for, and  *)
(* the call a tool message answers.  Call identifiers are the positions    *)
(* the engine indexed the calls by (1 for the code's "call-0").            *)
(***************************************************************************)
EXTENDS Naturals, Sequences

CONSTANT MaxCalls              \* bound: the calls one round may issue

ASSUME MaxCallsAssumption == MaxCalls \in Nat

Index == 1..MaxCalls

\* The call lists an assistant message may carry.
CallLists == UNION { [1..n -> Index] : n \in 0..MaxCalls }

NoReply == 0

Notice         == [role |-> "system",    calls |-> <<>>, reply |-> NoReply]
Assistant(ids) == [role |-> "assistant", calls |-> ids,  reply |-> NoReply]
ToolReply(id)  == [role |-> "tool",      calls |-> <<>>, reply |-> id]

Message == [role : {"system", "assistant", "tool"}, calls : CallLists,
            reply : Index \cup {NoReply}]

\* The n messages after message i answer its n calls, in order.
RepliesFollow(h, i) ==
    \A k \in DOMAIN h[i].calls : /\ i + k <= Len(h)
                                 /\ h[i + k].role = "tool"
                                 /\ h[i + k].reply = h[i].calls[k]

\* TurnOutcome::history_is_well_formed.
WellFormed(h) == \A i \in DOMAIN h : RepliesFollow(h, i)
=============================================================================
