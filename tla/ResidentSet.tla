----------------------------- MODULE ResidentSet -----------------------------
(***************************************************************************)
(* The resident set manager of dark-engine: which models are in memory.   *)
(* Source: crates/dark-engine/src/resident/{set,degrade,estimate}.rs.      *)
(*                                                                         *)
(* One action per method of ResidentSet that changes its fields.  The      *)
(* callers are the most general client: any call, in any order, for any    *)
(* request of Requests.  Module Engine composes these actions with the     *)
(* code that really calls them.                                            *)
(*                                                                         *)
(* The memory estimate is the code's integer arithmetic over abstract      *)
(* units.  A quantisation is its rank in the request: 1 is the one asked   *)
(* for, 2, 3, ... the smaller ones on disk, in the order the ladder tries  *)
(* them.  The LRU deque holds no key twice (touch_lru removes before it    *)
(* pushes), so it is modelled as the order its keys stand in.              *)
(***************************************************************************)
EXTENDS Integers, Sequences, FiniteSetsExt

CONSTANTS
    Keys,       \* the models (ModelKey)
    Classes,    \* the role classes
    Turns,      \* the turns that may hold a lease (TurnId)
    NoKey,      \* what lease_of answers for a turn with no lease
    NoAlias,    \* a request with no class to alias to
    Budget,     \* budget_bytes
    MinContext, \* the narrowest context the ladder grants
    Weights,    \* weight bytes of each model at each quantisation rank
    PerToken,   \* key-value cache bytes per token of context
    Requests,   \* the load requests the callers make
    Measured,   \* the sizes a finished load may report
    LoadsAtOnce \* how many loads the callers keep in flight

Request == [key : Keys, classes : SUBSET Classes, context : Nat,
            alias : Classes \union {NoAlias}]

ASSUME ResidentSetAssumption ==
    /\ Budget \in Nat /\ MinContext \in Nat /\ LoadsAtOnce \in Nat
    /\ Weights \in [Keys -> Seq(Nat)]
    /\ \A k \in Keys : Weights[k] # << >>
    /\ PerToken \in [Keys -> Nat \ {0}]
    /\ Requests \subseteq Request
    /\ Measured \subseteq Nat
    /\ NoKey \notin Keys
    /\ NoAlias \notin Classes

VARIABLES
    slots,   \* the slot of each key; "absent" when the map has none
    pinned,  \* the pinned keys
    lru,     \* <<a, b>> : a stands at or before b in the deque
    leases   \* the key each turn holds a lease on, or NoKey

vars == <<slots, pinned, lru, leases>>

Slot == [state : {"absent", "loading", "loaded", "evicted"},
         classes : SUBSET Classes, quant : Nat, context : Nat, bytes : Nat]

NoSlot == [state |-> "absent", classes |-> {}, quant |-> 0, context |-> 0,
           bytes |-> 0]

-----------------------------------------------------------------------------
(* The estimate.                                                           *)

\* saturating_sub.
Monus(a, b) == IF b \in 0..a THEN a - b ELSE 0

WithHeadroom(bytes) == bytes + bytes \div 10

TotalBytes(key, quant, context) ==
    WithHeadroom(Weights[key][quant] + PerToken[key] * context)

Allowance(free) == (free * 10) \div 11

\* Mutant of GrantedContext: the headroom is left out of the search.
GrantedWithoutHeadroom(key, quant, free, context) ==
    Min({(free - Weights[key][quant]) \div PerToken[key], context})

\* What granted_context answers when the weights themselves fit.
GrantedContext(key, quant, free, context) ==
    Min({(Allowance(free) - Weights[key][quant]) \div PerToken[key], context})

\* Mutant of FitsAt: the weights are not compared with the allowance.
FitsRequestOnly(key, quant, free, context) == MinContext <= context

\* largest_fitting_context finds a context at this quantisation.
FitsAt(key, quant, free, context) ==
    /\ MinContext <= context
    /\ Weights[key][quant] <= Allowance(free)
    /\ GrantedContext(key, quant, free, context) >= MinContext

-----------------------------------------------------------------------------
(* What the fields say.                                                    *)

Occupied(key) == slots[key].state \in {"loading", "loaded"}

Queued == {key \in Keys : <<key, key>> \in lru}

Leased(key) == \E turn \in Turns : leases[turn] = key

\* Mutant of Held: the lease is not consulted.
PinnedOnly(key) == key \in pinned

\* Never evicted while this holds.
Held(key) == key \in pinned \/ Leased(key)

UsedBy(table) ==
    MapThenSumSet(LAMBDA key : table[key].bytes,
                  {key \in Keys : table[key].state \notin {"absent", "evicted"}})

FreeIn(table) == Monus(Budget, UsedBy(table))

\* evict, for every key of gone.
Evicting(gone) ==
    [key \in Keys |-> IF key \in gone
                      THEN [slots[key] EXCEPT !.state = "evicted", !.bytes = 0]
                      ELSE slots[key]]

\* Mutant of Evictable: a pinned model is a candidate too.
EvictableUnleased ==
    {key \in Queued : ~Leased(key) /\ slots[key].state = "loaded"}

\* Mutant of Evictable: a load in progress is a candidate too.
EvictableLoading ==
    {key \in Queued : ~Held(key) /\ slots[key].state \in {"loaded", "loading"}}

Evictable == {key \in Queued : ~Held(key) /\ slots[key].state = "loaded"}

\* The candidates that stand in the deque no later than last.
OldestUpTo(last) == {key \in Evictable : <<key, last>> \in lru}

\* The keys the loop of begin_load evicts, oldest first, to free needed bytes;
\* all of them when even that is not enough.
Victims(needed) ==
    LET enough == {last \in Evictable :
                      FreeIn(Evicting(OldestUpTo(last))) >= needed}
    IN  CASE FreeIn(slots) >= needed -> {}
          [] FreeIn(slots) < needed /\ enough = {} -> Evictable
          [] OTHER -> OldestUpTo(CHOOSE last \in enough :
                                    OldestUpTo(last) \intersect enough = {last})

Removed(order, gone) == {pair \in order : pair[1] \notin gone /\ pair[2] \notin gone}

\* touch_lru: key moves to the most recently used end.
Touched(order, key) ==
    Removed(order, {key}) \union
    (({other \in Keys : <<other, other>> \in order} \union {key}) \X {key})

-----------------------------------------------------------------------------
(* What begin_load decides.                                                *)

\* Bytes no eviction can free for this key: what the held slots use.
ReservedElsewhere(key) ==
    MapThenSumSet(LAMBDA other : slots[other].bytes,
                  {other \in Keys \ {key} : Occupied(other) /\ Held(other)})

Ladder(req, free) ==
    LET fitting == {quant \in DOMAIN Weights[req.key] :
                       FitsAt(req.key, quant, free, req.context)}
    IN  CASE fitting # {} ->
                 [kind |-> "fits", quant |-> Min(fitting), evicted |-> Evictable,
                  context |-> GrantedContext(req.key, Min(fitting), free, req.context)]
          [] fitting = {} /\ req.alias # NoAlias ->
                 [kind |-> "alias", quant |-> 0, context |-> 0, evicted |-> Evictable]
          [] OTHER ->
                 [kind |-> "refused", quant |-> 0, context |-> 0, evicted |-> Evictable]

Plan(req) ==
    LET full == TotalBytes(req.key, 1, req.context)
    IN  CASE Occupied(req.key) ->
                 [kind |-> "present", quant |-> 0, context |-> 0, evicted |-> {}]
          [] ~Occupied(req.key) /\ full <= Monus(Budget, ReservedElsewhere(req.key)) ->
                 [kind |-> "fits", quant |-> 1, context |-> req.context,
                  evicted |-> Victims(full)]
          [] OTHER -> Ladder(req, FreeIn(Evicting(Evictable)))

LoadingSlot(req, plan) ==
    [state |-> "loading", classes |-> req.classes, quant |-> plan.quant,
     context |-> plan.context,
     bytes |-> TotalBytes(req.key, plan.quant, plan.context)]

-----------------------------------------------------------------------------
(* The methods.                                                            *)

Init ==
    /\ slots = [key \in Keys |-> NoSlot]
    /\ pinned = {}
    /\ lru = {}
    /\ leases = [turn \in Turns |-> NoKey]

Pin(key) ==
    /\ pinned' = pinned \union {key}
    /\ UNCHANGED <<slots, lru, leases>>

JoinSlot(req) ==
    /\ slots' = [slots EXCEPT ![req.key].classes = @ \union req.classes]
    /\ lru' = Touched(lru, req.key)

\* Mutant of EnterSlot: the key is not queued, so nothing can evict it later.
EnterUnqueued(req, plan) ==
    /\ slots' = [Evicting(plan.evicted) EXCEPT ![req.key] = LoadingSlot(req, plan)]
    /\ lru' = Removed(lru, plan.evicted)

EnterSlot(req, plan) ==
    /\ slots' = [Evicting(plan.evicted) EXCEPT ![req.key] = LoadingSlot(req, plan)]
    /\ lru' = Touched(Removed(lru, plan.evicted), req.key)

OnlyEvict(plan) ==
    /\ slots' = Evicting(plan.evicted)
    /\ lru' = Removed(lru, plan.evicted)

BeginLoad(req, plan) ==
    /\ plan = Plan(req)
    /\ \/ plan.kind = "present" /\ JoinSlot(req)
       \/ plan.kind = "fits" /\ EnterSlot(req, plan)
       \/ plan.kind \in {"alias", "refused"} /\ OnlyEvict(plan)
    /\ UNCHANGED <<pinned, leases>>

\* bytes is what the load measured, or the estimate when it measured nothing.
FinishLoad(key, bytes) ==
    /\ slots[key].state = "loading"
    /\ slots' = [slots EXCEPT ![key].state = "loaded", ![key].bytes = bytes]
    /\ UNCHANGED <<pinned, lru, leases>>

\* Mutant of FailLoad: the reservation outlives the load that failed.
FailKeepsSlot(key) ==
    /\ slots[key].state = "loading"
    /\ lru' = Removed(lru, {key})
    /\ UNCHANGED <<slots, pinned, leases>>

FailLoad(key) ==
    /\ slots[key].state = "loading"
    /\ slots' = [slots EXCEPT ![key] = NoSlot]
    /\ lru' = Removed(lru, {key})
    /\ UNCHANGED <<pinned, leases>>

\* Mutant of AcquireTurnLease: a load in progress may be leased.
LeaseAnySlot(turn, key) ==
    /\ Occupied(key)
    /\ lru' = Touched(lru, key)
    /\ leases' = [leases EXCEPT ![turn] = key]
    /\ UNCHANGED <<slots, pinned>>

\* Inserting replaces the lease the turn held before, if it held one.
AcquireTurnLease(turn, key) ==
    /\ slots[key].state = "loaded"
    /\ lru' = Touched(lru, key)
    /\ leases' = [leases EXCEPT ![turn] = key]
    /\ UNCHANGED <<slots, pinned>>

ReleaseTurn(turn) ==
    /\ leases' = [leases EXCEPT ![turn] = NoKey]
    /\ UNCHANGED <<slots, pinned, lru>>

InFlight == {key \in Keys : slots[key].state = "loading"}

MayBegin == Cardinality(InFlight) < LoadsAtOnce

Next ==
    \/ \E key \in Keys : Pin(key)
    \/ \E req \in Requests : MayBegin /\ BeginLoad(req, Plan(req))
    \/ \E key \in Keys : \E bytes \in Measured \union {slots[key].bytes} :
          FinishLoad(key, bytes)
    \/ \E key \in Keys : FailLoad(key)
    \/ \E turn \in Turns, key \in Keys : AcquireTurnLease(turn, key)
    \/ \E turn \in Turns : ReleaseTurn(turn)

Spec == Init /\ [][Next]_vars

-----------------------------------------------------------------------------
(* Properties.                                                             *)

\* Every field holds a value of its type.
TypeOK ==
    /\ slots \in [Keys -> Slot]
    /\ pinned \subseteq Keys
    /\ lru \subseteq Keys \X Keys
    /\ leases \in [Turns -> Keys \union {NoKey}]

\* A model a turn holds a lease on is loaded: the turn never generates on a
\* model whose memory was given to another (begin_load, acquire_turn_lease).
LeasedIsLoaded ==
    \A turn \in Turns : leases[turn] # NoKey => slots[leases[turn]].state = "loaded"

\* The deque holds exactly the slots that use memory, in one order: a slot that
\* fell out of it could never be evicted again, one that stayed would be twice.
QueueMatchesSlots ==
    /\ Queued = {key \in Keys : Occupied(key)}
    /\ lru \subseteq Queued \X Queued
    /\ \A a, b \in Queued : <<a, b>> \in lru \/ <<b, a>> \in lru
    /\ \A a, b \in Queued : <<a, b>> \in lru /\ <<b, a>> \in lru => a = b
    /\ \A a, b, c \in Queued : <<a, b>> \in lru /\ <<b, c>> \in lru => <<a, c>> \in lru

\* No call moves a held, loaded model: not its state, its quantisation, its
\* granted context or its bytes, however many other models ask for room.
HeldUndisturbed ==
    [][\A key \in Keys :
          Held(key) /\ slots[key].state = "loaded" =>
              slots'[key] = [slots[key] EXCEPT !.classes = slots'[key].classes]]_vars

\* A load in flight keeps its slot and its reservation while another load
\* begins: the memory it was promised is not evicted to make room (begin_load,
\* pop_lru_evictable).
ReservationKept ==
    [][\A key \in InFlight :
          (\E other \in Keys \ InFlight : slots'[other].state = "loading") =>
              slots'[key] = slots[key]]_vars

\* A load that begins while no other is in flight, from a set within its budget,
\* leaves it within its budget whatever the estimate's divisions round away
\* (begin_load, climb, granted_context).
SoleLoadFits ==
    [][InFlight = {} /\ UsedBy(slots) <= Budget => UsedBy(slots)' <= Budget]_vars

\* What set.rs says of a reservation: it counts at once, so that a second load
\* cannot also claim its room and the slots never exceed the budget (begin_load).
WithinBudget == UsedBy(slots) <= Budget
=============================================================================
