----------------------------- MODULE Engine_proofs -----------------------------
(***************************************************************************)
(* Theorems about ResidentSet, for every set of models, budget and request *)
(* set, and about Engine, which extends it, for every number of installs   *)
(* and streams, every channel and every limiter.                           *)
(*                                                                         *)
(* The resident set: its type invariant is inductive by itself; together   *)
(* with it, so are "a lease is on a loaded slot" and "the deque lists the  *)
(* used slots".  The bytes in use are a sum over a finite set: the lemmas  *)
(* on BytesOf say how it grows by one slot, and SoleLoadWithinBudget that  *)
(* a load fits.                                                            *)
(*                                                                         *)
(* The engine uses the resident set by its methods, so what holds of the   *)
(* resident set holds in the engine; a stream's guard is alive exactly     *)
(* while its turn has a lease; and a stream says once that it ended.       *)
(***************************************************************************)
EXTENDS Engine, SequenceTheorems, FiniteSetTheorems, WellFoundedInduction, TLAPS

(* The order of the naturals as a well-founded relation, with no operator in it. *)
LEMMA NaturalsWellFounded ==
  \E less : /\ IsWellFoundedOn(less, Nat)
            /\ \A a, b \in Nat : a < b => <<a, b>> \in less
<1>1. \A a, b \in Nat : a < b => <<a, b>> \in OpToRel(<, Nat)
  BY DEF OpToRel
<1> WITNESS OpToRel(<, Nat)
<1> QED
  BY <1>1, NatLessThanWellFounded

(* The least of a set of naturals is one of them. *)
LEMMA MinIsMember ==
  ASSUME NEW S, S \subseteq Nat, S # {}
  PROVE  Min(S) \in S /\ \A x \in S : Min(S) <= x
<1>1. PICK less : /\ IsWellFoundedOn(less, Nat)
                  /\ \A a, b \in Nat : a < b => <<a, b>> \in less
  BY NaturalsWellFounded
<1>2. PICK x \in S : \A y \in S : ~ (<<y, x>> \in less)
  <2>1. IsWellFoundedOn(less, Nat) /\ S \subseteq Nat /\ S # {}
    BY <1>1
  <2> QED
    BY ONLY <2>1, WFMin, Zenon
<1>3. ASSUME NEW y \in S
      PROVE  x <= y
  <2>1. x \in Nat /\ y \in Nat
    OBVIOUS
  <2>2. ~ (y < x)
    BY <1>1, <1>2, <2>1
  <2> QED
    BY <2>1, <2>2
<1> QED
  BY <1>3 DEF Min

(* The estimate of a model at a context is a number of bytes. *)
LEMMA TotalBytesType ==
  ASSUME NEW key \in Keys, NEW quant \in DOMAIN Weights[key], NEW context \in Nat
  PROVE  TotalBytes(key, quant, context) \in Nat
<1>1. Weights[key][quant] \in Nat /\ PerToken[key] \in Nat
  BY ResidentSetAssumption
<1>2. PerToken[key] * context \in Nat
  BY <1>1
<1>3. \A b \in Nat : b + b \div 10 \in Nat
  OBVIOUS
<1> QED
  BY <1>1, <1>2, <1>3 DEF TotalBytes, WithHeadroom

LEMMA MonusType ==
  ASSUME NEW a \in Nat, NEW b
  PROVE  Monus(a, b) \in Nat
BY DEF Monus

LEMMA DivideDown ==
  ASSUME NEW a \in Nat, NEW b \in Nat \ {0}
  PROVE  /\ a \div b \in Nat
         /\ b * (a \div b) <= a
OBVIOUS

(* The context the ladder grants is no longer than the one asked for, and the *)
(* estimate of the model at that context fits the memory that was free.       *)
LEMMA GrantedContextFits ==
  ASSUME NEW key \in Keys, NEW quant \in DOMAIN Weights[key],
         NEW free \in Nat, NEW context \in Nat,
         FitsAt(key, quant, free, context)
  PROVE  /\ GrantedContext(key, quant, free, context) \in Nat
         /\ GrantedContext(key, quant, free, context) \in MinContext..context
         /\ TotalBytes(key, quant, GrantedContext(key, quant, free, context)) <= free
<1> DEFINE w == Weights[key][quant]
           p == PerToken[key]
           g == GrantedContext(key, quant, free, context)
           room == Allowance(free) - w
<1>1. w \in Nat /\ p \in Nat \ {0} /\ MinContext \in Nat
  BY ResidentSetAssumption
<1>2. Allowance(free) \in Nat /\ 11 * Allowance(free) <= 10 * free
  BY DEF Allowance
<1>3. room \in Nat
  BY <1>1, <1>2 DEF FitsAt
<1>4. room \div p \in Nat /\ p * (room \div p) <= room
  <2> HIDE DEF room, p
  <2> QED
    BY <1>1, <1>3, DivideDown
<1>5. /\ g \in {room \div p, context}
      /\ g <= room \div p /\ g <= context
  <2> {room \div p, context} \subseteq Nat
    BY <1>4
  <2> QED
    BY MinIsMember DEF GrantedContext
<1>6. g \in Nat /\ g >= MinContext
  BY <1>4, <1>5 DEF FitsAt
<1>7. p * g <= p * (room \div p)
  BY <1>1, <1>4, <1>5, <1>6
<1>8. p * g \in Nat /\ w + p * g <= Allowance(free)
  BY <1>1, <1>2, <1>3, <1>4, <1>6, <1>7
<1>9. \A b, a \in Nat : b <= a /\ 11 * a <= 10 * free => b + b \div 10 <= free
  OBVIOUS
<1>10. w + p * g \in Nat
  BY <1>1, <1>8
<1> QED
  BY <1>1, <1>2, <1>5, <1>6, <1>8, <1>9, <1>10 DEF TotalBytes, WithHeadroom
-----------------------------------------------------------------------------
(* What begin_load may decide.                                             *)

LEMMA VictimsEvictable ==
  ASSUME NEW needed
  PROVE  Victims(needed) \subseteq Evictable
<1>1. \A last : OldestUpTo(last) \subseteq Evictable
  BY DEF OldestUpTo
<1> QED
  BY <1>1 DEF Victims

(* Only candidates are evicted, a slot in use is joined and never replaced, *)
(* and what is loaded has a size the request offered.                       *)
LEMMA PlanShape ==
  ASSUME NEW req \in Requests
  PROVE  /\ Plan(req).evicted \subseteq Evictable
         /\ Plan(req).kind \in {"present", "fits", "alias", "refused"}
         /\ Plan(req).kind = "present" <=> Occupied(req.key)
         /\ Plan(req).kind = "fits" =>
               /\ Plan(req).quant \in DOMAIN Weights[req.key]
               /\ Plan(req).context \in Nat
<1> DEFINE key == req.key
           context == req.context
           full == TotalBytes(key, 1, context)
           room == Monus(Budget, ReservedElsewhere(key))
           free == FreeIn(Evicting(Evictable))
           fitting == {quant \in DOMAIN Weights[key] :
                          FitsAt(key, quant, free, context)}
<1>1. key \in Keys /\ context \in Nat
  BY ResidentSetAssumption DEF Request
<1>2. free \in Nat
  BY MonusType, ResidentSetAssumption DEF FreeIn
<1>3. DOMAIN Weights[key] \subseteq Nat /\ 1 \in DOMAIN Weights[key]
  BY <1>1, ResidentSetAssumption
<1>4. CASE Occupied(key)
  BY <1>4 DEF Plan
<1>5. CASE ~Occupied(key) /\ full <= room
  <2>1. Plan(req) = [kind |-> "fits", quant |-> 1, context |-> context,
                     evicted |-> Victims(full)]
    BY <1>5 DEF Plan
  <2> QED
    BY <1>1, <1>3, <1>5, <2>1, VictimsEvictable
<1>6. CASE ~Occupied(key) /\ ~(full <= room)
  <2>1. Plan(req) = Ladder(req, free)
    BY <1>6 DEF Plan
  <2>2. CASE fitting # {}
    <3>1. Min(fitting) \in fitting
      BY <1>3, <2>2, MinIsMember
    <3>2. Plan(req) = [kind |-> "fits", quant |-> Min(fitting), evicted |-> Evictable,
                       context |-> GrantedContext(key, Min(fitting), free, context)]
      BY <2>1, <2>2 DEF Ladder
    <3>3. GrantedContext(key, Min(fitting), free, context) \in Nat
      <4> HIDE DEF key, context, free
      <4> QED
        BY <1>1, <1>2, <3>1, GrantedContextFits
    <3> QED
      BY <1>6, <3>1, <3>2, <3>3
  <2>3. CASE fitting = {}
    BY <1>6, <2>1, <2>3 DEF Ladder
  <2> QED
    BY <2>2, <2>3
<1> QED
  BY <1>4, <1>5, <1>6

(* Entering a slot gives the requested key a loading slot and evicts candidates. *)
LEMMA LoadingSlotType ==
  ASSUME NEW req \in Requests, Plan(req).kind = "fits"
  PROVE  LoadingSlot(req, Plan(req)) \in Slot
<1>1. req.key \in Keys /\ req.classes \subseteq Classes
  BY ResidentSetAssumption DEF Request
<1>2. Plan(req).quant \in DOMAIN Weights[req.key] /\ Plan(req).context \in Nat
  BY PlanShape
<1>3. TotalBytes(req.key, Plan(req).quant, Plan(req).context) \in Nat
  BY <1>1, <1>2, TotalBytesType
<1>4. Plan(req).quant \in Nat
  BY <1>1, <1>2, ResidentSetAssumption
<1> QED
  BY <1>1, <1>2, <1>3, <1>4 DEF LoadingSlot, Slot

LEMMA EvictingType ==
  ASSUME TypeOK, NEW gone
  PROVE  Evicting(gone) \in [Keys -> Slot]
BY DEF Evicting, TypeOK, Slot

LEMMA OrderType ==
  ASSUME TypeOK, NEW gone, NEW order, order \subseteq Keys \X Keys
  PROVE  /\ Removed(order, gone) \subseteq order
         /\ \A key \in Keys : Touched(order, key) \subseteq Keys \X Keys
BY DEF Removed, Touched
-----------------------------------------------------------------------------
(* Type correctness.                                                       *)

LEMMA InitType == Init => TypeOK
BY DEF Init, TypeOK, Slot, NoSlot

LEMMA StepType == TypeOK /\ [Next]_vars => TypeOK'
<1> SUFFICES ASSUME TypeOK, [Next]_vars
             PROVE  TypeOK'
  OBVIOUS
<1> USE DEF TypeOK
<1>1. ASSUME NEW key \in Keys, Pin(key)
      PROVE  TypeOK'
  BY <1>1 DEF Pin
<1>2. ASSUME NEW req \in Requests, BeginLoad(req, Plan(req))
      PROVE  TypeOK'
  <2> DEFINE plan == Plan(req)
  <2>1. req.key \in Keys /\ req.classes \subseteq Classes
    BY ResidentSetAssumption DEF Request
  <2>2. CASE plan.kind = "present" /\ JoinSlot(req)
    <3>1. slots' \in [Keys -> Slot]
      BY <2>1, <2>2 DEF JoinSlot, Slot
    <3>2. lru' \subseteq Keys \X Keys
      BY <2>1, <2>2, OrderType DEF JoinSlot
    <3> QED
      BY <1>2, <3>1, <3>2 DEF BeginLoad
  <2>3. CASE plan.kind = "fits" /\ EnterSlot(req, plan)
    <3>1. slots' \in [Keys -> Slot]
      BY <2>1, <2>3, EvictingType, LoadingSlotType DEF EnterSlot
    <3>2. Removed(lru, plan.evicted) \subseteq Keys \X Keys
      BY OrderType
    <3>3. lru' \subseteq Keys \X Keys
      BY <2>1, <2>3, <3>2, OrderType DEF EnterSlot
    <3> QED
      BY <1>2, <3>1, <3>3 DEF BeginLoad
  <2>4. CASE plan.kind \in {"alias", "refused"} /\ OnlyEvict(plan)
    <3>1. slots' \in [Keys -> Slot]
      BY <2>4, EvictingType DEF OnlyEvict
    <3>2. lru' \subseteq Keys \X Keys
      BY <2>4, OrderType DEF OnlyEvict
    <3> QED
      BY <1>2, <3>1, <3>2 DEF BeginLoad
  <2> QED
    BY <1>2, <2>2, <2>3, <2>4 DEF BeginLoad
<1>3. ASSUME NEW key \in Keys, NEW bytes \in Measured \union {slots[key].bytes},
             FinishLoad(key, bytes)
      PROVE  TypeOK'
  <2>1. bytes \in Nat
    BY ResidentSetAssumption DEF Slot
  <2>2. slots' \in [Keys -> Slot]
    <3> DEFINE slot == [slots[key] EXCEPT !.state = "loaded", !.bytes = bytes]
    <3>1. slot \in Slot
      <4>1. slots[key] \in Slot
        OBVIOUS
      <4> QED
        BY <2>1, <4>1 DEF Slot
    <3>2. slots' = [slots EXCEPT ![key] = slot]
      BY <1>3 DEF FinishLoad
    <3> HIDE DEF slot
    <3> QED
      BY <3>1, <3>2
  <2> QED
    BY <1>3, <2>2 DEF FinishLoad
<1>4. ASSUME NEW key \in Keys, FailLoad(key)
      PROVE  TypeOK'
  <2>1. NoSlot \in Slot
    BY DEF NoSlot, Slot
  <2> QED
    BY <1>4, <2>1, OrderType DEF FailLoad
<1>5. ASSUME NEW turn \in Turns, NEW key \in Keys, AcquireTurnLease(turn, key)
      PROVE  TypeOK'
  BY <1>5, OrderType DEF AcquireTurnLease
<1>6. ASSUME NEW turn \in Turns, ReleaseTurn(turn)
      PROVE  TypeOK'
  BY <1>6 DEF ReleaseTurn
<1>7. CASE UNCHANGED vars
  BY <1>7 DEF vars
<1> QED
  BY <1>1, <1>2, <1>3, <1>4, <1>5, <1>6, <1>7 DEF Next

(* Every field keeps its type, whatever is asked of the resident set. *)
THEOREM TypeCorrect == Spec => []TypeOK
BY InitType, StepType, PTL DEF Spec

-----------------------------------------------------------------------------
(* A lease only on a loaded slot.                                          *)

LEMMA EvictableIsFree ==
  ASSUME NEW key \in Evictable
  PROVE  key \in Keys /\ slots[key].state = "loaded" /\ ~Held(key)
BY DEF Evictable, Queued

LEMMA StepLeased == TypeOK /\ LeasedIsLoaded /\ [Next]_vars => LeasedIsLoaded'
<1> SUFFICES ASSUME TypeOK, LeasedIsLoaded, [Next]_vars,
                    NEW holder \in Turns, leases'[holder] # NoKey
             PROVE  slots'[leases'[holder]].state = "loaded"
  BY DEF LeasedIsLoaded
<1> USE DEF TypeOK, LeasedIsLoaded
<1>1. ASSUME NEW key \in Keys, Pin(key)
      PROVE  slots'[leases'[holder]].state = "loaded"
  BY <1>1 DEF Pin
<1>2. ASSUME NEW req \in Requests, BeginLoad(req, Plan(req))
      PROVE  slots'[leases'[holder]].state = "loaded"
  <2> DEFINE plan == Plan(req)
             held == leases[holder]
  <2>1. leases' = leases
    BY <1>2 DEF BeginLoad
  <2>2. held \in Keys /\ slots[held].state = "loaded"
    BY <2>1
  <2>3. held \notin plan.evicted
    BY <2>2, PlanShape, EvictableIsFree DEF Held, Leased
  <2>4. Evicting(plan.evicted)[held] = slots[held]
    BY <2>2, <2>3 DEF Evicting
  <2>5. CASE plan.kind = "present" /\ JoinSlot(req)
    BY <2>1, <2>2, <2>5 DEF JoinSlot, Slot
  <2>6. CASE plan.kind = "fits" /\ EnterSlot(req, plan)
    <3>1. held # req.key
      BY <2>2, <2>6, PlanShape DEF Occupied
    <3> QED
      BY <2>1, <2>2, <2>4, <2>6, <3>1, EvictingType DEF EnterSlot
  <2>7. CASE plan.kind \in {"alias", "refused"} /\ OnlyEvict(plan)
    BY <2>1, <2>2, <2>4, <2>7 DEF OnlyEvict
  <2> QED
    BY <1>2, <2>5, <2>6, <2>7 DEF BeginLoad
<1>3. ASSUME NEW key \in Keys, NEW bytes \in Measured \union {slots[key].bytes},
             FinishLoad(key, bytes)
      PROVE  slots'[leases'[holder]].state = "loaded"
  BY <1>3 DEF FinishLoad, Slot
<1>4. ASSUME NEW key \in Keys, FailLoad(key)
      PROVE  slots'[leases'[holder]].state = "loaded"
  BY <1>4 DEF FailLoad
<1>5. ASSUME NEW turn \in Turns, NEW key \in Keys, AcquireTurnLease(turn, key)
      PROVE  slots'[leases'[holder]].state = "loaded"
  BY <1>5 DEF AcquireTurnLease
<1>6. ASSUME NEW turn \in Turns, ReleaseTurn(turn)
      PROVE  slots'[leases'[holder]].state = "loaded"
  BY <1>6 DEF ReleaseTurn
<1>7. CASE UNCHANGED vars
  BY <1>7 DEF vars
<1> QED
  BY <1>1, <1>2, <1>3, <1>4, <1>5, <1>6, <1>7 DEF Next

(* The model of a turn's lease is loaded at every instant of the lease: Rule 3. *)
THEOREM LeaseKeepsModel == Spec => []LeasedIsLoaded
<1>1. Init => LeasedIsLoaded
  BY DEF Init, LeasedIsLoaded
<1> QED
  BY <1>1, TypeCorrect, StepLeased, PTL DEF Spec

-----------------------------------------------------------------------------
(* Held models and reservations are left alone.                            *)

LEMMA StepHeld ==
  ASSUME TypeOK, [Next]_vars, NEW held \in Keys,
         Held(held), slots[held].state = "loaded"
  PROVE  slots'[held] = [slots[held] EXCEPT !.classes = slots'[held].classes]
<1> USE DEF TypeOK
<1>0. slots[held] = [slots[held] EXCEPT !.classes = slots[held].classes]
  BY DEF Slot
<1>1. CASE \E key \in Keys : Pin(key)
  BY <1>0, <1>1 DEF Pin
<1>2. ASSUME NEW req \in Requests, BeginLoad(req, Plan(req))
      PROVE  slots'[held] = [slots[held] EXCEPT !.classes = slots'[held].classes]
  <2> DEFINE plan == Plan(req)
  <2>1. req.key \in Keys
    BY ResidentSetAssumption DEF Request
  <2>2. held \notin plan.evicted
    BY PlanShape, EvictableIsFree
  <2>3. Evicting(plan.evicted)[held] = slots[held]
    BY <2>2 DEF Evicting
  <2>4. CASE plan.kind = "present" /\ JoinSlot(req)
    BY <1>0, <2>1, <2>4 DEF JoinSlot, Slot
  <2>5. CASE plan.kind = "fits" /\ EnterSlot(req, plan)
    <3>1. held # req.key
      BY <2>5, PlanShape DEF Occupied
    <3> QED
      BY <1>0, <2>3, <2>5, <3>1, EvictingType DEF EnterSlot
  <2>6. CASE plan.kind \in {"alias", "refused"} /\ OnlyEvict(plan)
    BY <1>0, <2>3, <2>6 DEF OnlyEvict
  <2> QED
    BY <1>2, <2>4, <2>5, <2>6 DEF BeginLoad
<1>3. ASSUME NEW key \in Keys, NEW bytes \in Measured \union {slots[key].bytes},
             FinishLoad(key, bytes)
      PROVE  slots'[held] = slots[held]
  BY <1>3 DEF FinishLoad
<1>4. CASE \E key \in Keys : FailLoad(key)
  BY <1>0, <1>4 DEF FailLoad
<1>5. CASE \E turn \in Turns, key \in Keys : AcquireTurnLease(turn, key)
  BY <1>0, <1>5 DEF AcquireTurnLease
<1>6. CASE \E turn \in Turns : ReleaseTurn(turn)
  BY <1>0, <1>6 DEF ReleaseTurn
<1>7. CASE UNCHANGED vars
  BY <1>0, <1>7 DEF vars
<1> QED
  BY <1>0, <1>1, <1>2, <1>3, <1>4, <1>5, <1>6, <1>7 DEF Next

(* No request for memory changes a pinned or leased model that is loaded: the *)
(* caps a turn read stay true until it releases its lease (Rules 2 and 3).    *)
THEOREM HeldModelsUndisturbed == Spec => HeldUndisturbed
<1> DEFINE Kept == \A key \in Keys :
              Held(key) /\ slots[key].state = "loaded" =>
                  slots'[key] = [slots[key] EXCEPT !.classes = slots'[key].classes]
<1>1. TypeOK /\ [Next]_vars => Kept
  BY StepHeld
<1>2. TypeOK /\ [Next]_vars => [Kept]_vars
  BY <1>1
<1>3. Spec => [][Kept]_vars
  BY <1>2, TypeCorrect, PTL DEF Spec
<1> QED
  BY <1>3 DEF HeldUndisturbed

LEMMA StepReservation ==
  ASSUME TypeOK, [Next]_vars, NEW loading \in InFlight,
         NEW other \in Keys \ InFlight, slots'[other].state = "loading"
  PROVE  slots'[loading] = slots[loading]
<1> USE DEF TypeOK
<1>0. loading \in Keys /\ slots[loading].state = "loading"
      /\ slots[other].state # "loading"
  BY DEF InFlight
<1>1. CASE \E key \in Keys : Pin(key)
  BY <1>1 DEF Pin
<1>2. ASSUME NEW req \in Requests, BeginLoad(req, Plan(req))
      PROVE  slots'[loading] = slots[loading]
  <2> DEFINE plan == Plan(req)
  <2>1. req.key \in Keys
    BY ResidentSetAssumption DEF Request
  <2>2. Evicting(plan.evicted)[loading] = slots[loading]
    BY <1>0, PlanShape, EvictableIsFree DEF Evicting
  <2>3. CASE plan.kind = "present" /\ JoinSlot(req)
    <3>1. slots'[other].state = slots[other].state
      BY <2>1, <2>3 DEF JoinSlot, Slot
    <3> QED
      BY <1>0, <3>1
  <2>4. CASE plan.kind = "fits" /\ EnterSlot(req, plan)
    <3>1. loading # req.key
      BY <1>0, <2>4, PlanShape DEF Occupied
    <3> QED
      BY <1>0, <2>2, <2>4, <3>1, EvictingType DEF EnterSlot
  <2>5. CASE plan.kind \in {"alias", "refused"} /\ OnlyEvict(plan)
    BY <2>2, <2>5 DEF OnlyEvict
  <2> QED
    BY <1>2, <2>3, <2>4, <2>5 DEF BeginLoad
<1>3. ASSUME NEW key \in Keys, NEW bytes \in Measured \union {slots[key].bytes},
             FinishLoad(key, bytes)
      PROVE  slots'[other].state # "loading"
  BY <1>0, <1>3 DEF FinishLoad, Slot
<1>4. ASSUME NEW key \in Keys, FailLoad(key)
      PROVE  slots'[other].state # "loading"
  BY <1>0, <1>4 DEF FailLoad, NoSlot
<1>5. CASE \E turn \in Turns, key \in Keys : AcquireTurnLease(turn, key)
  BY <1>5 DEF AcquireTurnLease
<1>6. CASE \E turn \in Turns : ReleaseTurn(turn)
  BY <1>6 DEF ReleaseTurn
<1>7. CASE UNCHANGED vars
  BY <1>7 DEF vars
<1> QED
  BY <1>1, <1>2, <1>3, <1>4, <1>5, <1>6, <1>7 DEF Next

(* While one load begins, every load already in flight keeps its slot and the *)
(* bytes reserved for it (begin_load never evicts a Loading slot).            *)
THEOREM ReservationsKept == Spec => ReservationKept
<1> DEFINE Kept == \A key \in InFlight :
              (\E other \in Keys \ InFlight : slots'[other].state = "loading") =>
                  slots'[key] = slots[key]
<1>1. TypeOK /\ [Next]_vars => [Kept]_vars
  BY StepReservation
<1>2. Spec => [][Kept]_vars
  BY <1>1, TypeCorrect, PTL DEF Spec
<1> QED
  BY <1>2 DEF ReservationKept

-----------------------------------------------------------------------------
(* The deque holds exactly the slots in use.                               *)

\* order lists the keys of S, each once.
Lists(order, S) ==
    /\ S \subseteq Keys
    /\ order \subseteq S \X S
    /\ \A a \in S : <<a, a>> \in order
    /\ \A a, b \in S : <<a, b>> \in order \/ <<b, a>> \in order
    /\ \A a, b \in S : <<a, b>> \in order /\ <<b, a>> \in order => a = b
    /\ \A a, b, c \in S : <<a, b>> \in order /\ <<b, c>> \in order => <<a, c>> \in order

InUse == {key \in Keys : Occupied(key)}

LEMMA QueueIsList == QueueMatchesSlots <=> Lists(lru, InUse)
<1>1. ASSUME QueueMatchesSlots PROVE Lists(lru, InUse)
  BY <1>1 DEF QueueMatchesSlots, Lists, InUse, Queued
<1>2. ASSUME Lists(lru, InUse) PROVE QueueMatchesSlots
  <2>1. Queued = InUse
    <3>1. ASSUME NEW key \in Queued PROVE key \in InUse
      BY <1>2, <3>1 DEF Lists, Queued
    <3>2. ASSUME NEW key \in InUse PROVE key \in Queued
      BY <1>2, <3>2 DEF Lists, Queued
    <3> QED
      BY <3>1, <3>2
  <2> QED
    BY <1>2, <2>1 DEF QueueMatchesSlots, Lists, InUse
<1> QED
  BY <1>1, <1>2

LEMMA RemovedLists ==
  ASSUME NEW order, NEW S, Lists(order, S), NEW gone
  PROVE  Lists(Removed(order, gone), S \ gone)
<1>1. \A a, b : <<a, b>> \in Removed(order, gone) <=>
                   <<a, b>> \in order /\ a \notin gone /\ b \notin gone
  BY DEF Removed
<1>2. Removed(order, gone) \subseteq (S \ gone) \X (S \ gone)
  BY DEF Removed, Lists
<1> QED
  BY <1>1, <1>2 DEF Lists

LEMMA TouchedLists ==
  ASSUME NEW order, NEW S, Lists(order, S), NEW key \in Keys
  PROVE  Lists(Touched(order, key), S \union {key})
<1> DEFINE T == S \union {key}
           rest == S \ {key}
<1>1. Lists(Removed(order, {key}), rest)
  BY RemovedLists
<1>2. {other \in Keys : <<other, other>> \in order} = S
  BY DEF Lists
<1>3. Touched(order, key) = Removed(order, {key}) \union (T \X {key})
  BY <1>2 DEF Touched
<1>4. \A a \in rest, b \in T :
         <<a, b>> \in Touched(order, key) <=>
             b = key \/ <<a, b>> \in Removed(order, {key})
  BY <1>3
<1>5. \A b \in T : <<key, b>> \in Touched(order, key) <=> b = key
  BY <1>1, <1>3 DEF Lists
<1>6. \A a \in T : <<a, key>> \in Touched(order, key)
  BY <1>3
<1>7. Touched(order, key) \subseteq T \X T
  BY <1>1, <1>3 DEF Lists
<1>8. \A a \in T : <<a, a>> \in Touched(order, key)
  BY <1>1, <1>4, <1>6 DEF Lists
<1>9. \A a, b \in T : <<a, b>> \in Touched(order, key) \/ <<b, a>> \in Touched(order, key)
  BY <1>1, <1>4, <1>6 DEF Lists
<1>10. \A a, b \in T : <<a, b>> \in Touched(order, key) /\ <<b, a>> \in Touched(order, key)
                          => a = b
  BY <1>1, <1>4, <1>5 DEF Lists
<1>11. \A a, b, c \in T : <<a, b>> \in Touched(order, key) /\ <<b, c>> \in Touched(order, key)
                             => <<a, c>> \in Touched(order, key)
  <2> SUFFICES ASSUME NEW a \in T, NEW b \in T, NEW c \in T,
                      <<a, b>> \in Touched(order, key), <<b, c>> \in Touched(order, key)
               PROVE  <<a, c>> \in Touched(order, key)
    OBVIOUS
  <2>1. CASE c = key
    BY <1>6, <2>1
  <2>2. CASE c # key
    <3>1. b # key
      BY <1>5, <2>2
    <3>2. a # key
      BY <1>5, <3>1
    <3>3. a \in rest /\ b \in rest /\ c \in rest
      BY <2>2, <3>1, <3>2
    <3> QED
      BY <1>1, <1>4, <2>2, <3>1, <3>3 DEF Lists
  <2> QED
    BY <2>1, <2>2
<1>12. T \subseteq Keys
  BY DEF Lists
<1> HIDE DEF T
<1> QED
  BY <1>7, <1>8, <1>9, <1>10, <1>11, <1>12 DEF Lists, T

LEMMA StepQueue == TypeOK /\ Lists(lru, InUse) /\ [Next]_vars => Lists(lru, InUse)'
<1> SUFFICES ASSUME TypeOK, Lists(lru, InUse), [Next]_vars
             PROVE  Lists(lru', InUse')
  BY DEF Lists
<1> USE DEF TypeOK
<1>0. Lists(lru, InUse)
  OBVIOUS
<1>1. ASSUME NEW key \in Keys, Pin(key)
      PROVE  Lists(lru', InUse')
  <2>1. InUse' = InUse
    BY <1>1 DEF Pin, InUse, Occupied
  <2> QED
    BY <1>0, <1>1, <2>1 DEF Pin
<1>2. ASSUME NEW req \in Requests, BeginLoad(req, Plan(req))
      PROVE  Lists(lru', InUse')
  <2> DEFINE plan == Plan(req)
  <2>1. req.key \in Keys
    BY ResidentSetAssumption DEF Request
  <2>2. \A key \in Keys : Evicting(plan.evicted)[key].state =
                             IF key \in plan.evicted THEN "evicted" ELSE slots[key].state
    BY DEF Evicting, Slot
  <2>3. CASE plan.kind = "present" /\ JoinSlot(req)
    <3>1. \A key \in Keys : slots'[key].state = slots[key].state
      BY <2>1, <2>3 DEF JoinSlot, Slot
    <3>2. InUse' = InUse
      BY <3>1 DEF InUse, Occupied
    <3>3. InUse \union {req.key} = InUse
      BY <2>1, <2>3, PlanShape DEF InUse
    <3> QED
      BY <1>0, <2>1, <2>3, <3>2, <3>3, TouchedLists DEF JoinSlot
  <2>4. CASE plan.kind = "fits" /\ EnterSlot(req, plan)
    <3>1. \A key \in Keys \ {req.key} : slots'[key] = Evicting(plan.evicted)[key]
      BY <2>4, EvictingType DEF EnterSlot
    <3>2. slots'[req.key].state = "loading"
      BY <2>1, <2>4, EvictingType DEF EnterSlot, LoadingSlot
    <3>3. InUse' = (InUse \ plan.evicted) \union {req.key}
      BY <2>1, <2>2, <3>1, <3>2 DEF InUse, Occupied
    <3>4. Lists(Removed(lru, plan.evicted), InUse \ plan.evicted)
      BY <1>0, RemovedLists
    <3> QED
      BY <2>1, <2>4, <3>3, <3>4, TouchedLists DEF EnterSlot
  <2>5. CASE plan.kind \in {"alias", "refused"} /\ OnlyEvict(plan)
    <3>1. InUse' = InUse \ plan.evicted
      BY <2>2, <2>5 DEF InUse, Occupied, OnlyEvict
    <3> QED
      BY <1>0, <2>5, <3>1, RemovedLists DEF OnlyEvict
  <2> QED
    BY <1>2, <2>3, <2>4, <2>5 DEF BeginLoad
<1>3. ASSUME NEW key \in Keys, NEW bytes \in Measured \union {slots[key].bytes},
             FinishLoad(key, bytes)
      PROVE  Lists(lru', InUse')
  <2>1. InUse' = InUse
    BY <1>3 DEF FinishLoad, InUse, Occupied, Slot
  <2> QED
    BY <1>0, <1>3, <2>1 DEF FinishLoad
<1>4. ASSUME NEW key \in Keys, FailLoad(key)
      PROVE  Lists(lru', InUse')
  <2>1. InUse' = InUse \ {key}
    BY <1>4 DEF FailLoad, InUse, Occupied, NoSlot
  <2> QED
    BY <1>0, <1>4, <2>1, RemovedLists DEF FailLoad
<1>5. ASSUME NEW turn \in Turns, NEW key \in Keys, AcquireTurnLease(turn, key)
      PROVE  Lists(lru', InUse')
  <2>1. InUse' = InUse
    BY <1>5 DEF AcquireTurnLease, InUse, Occupied
  <2>2. InUse \union {key} = InUse
    BY <1>5 DEF AcquireTurnLease, InUse, Occupied
  <2> QED
    BY <1>0, <1>5, <2>1, <2>2, TouchedLists DEF AcquireTurnLease
<1>6. ASSUME NEW turn \in Turns, ReleaseTurn(turn)
      PROVE  Lists(lru', InUse')
  <2>1. InUse' = InUse
    BY <1>6 DEF ReleaseTurn, InUse, Occupied
  <2> QED
    BY <1>0, <1>6, <2>1 DEF ReleaseTurn
<1>7. CASE UNCHANGED vars
  <2>1. InUse' = InUse
    BY <1>7 DEF vars, InUse, Occupied
  <2> QED
    BY <1>0, <1>7, <2>1 DEF vars
<1> QED
  BY <1>1, <1>2, <1>3, <1>4, <1>5, <1>6, <1>7 DEF Next

(* Every model that uses memory is in the eviction order once, and nothing else *)
(* is: no model is beyond the reach of eviction, and none is evicted twice.     *)
THEOREM QueueCorrect == Spec => []QueueMatchesSlots
<1>1. Init => Lists(lru, InUse)
  BY DEF Init, Lists, InUse, Occupied, NoSlot
<1> QED
  BY <1>1, TypeCorrect, StepQueue, QueueIsList, PTL DEF Spec

-----------------------------------------------------------------------------
(* The sum of the bytes of a finite set of slots.                          *)

BytesOf(table, S) == MapThenSumSet(LAMBDA key : table[key].bytes, S)

First(s) == CHOOSE x \in s : TRUE

\* g is the recursion that BytesOf unfolds, on the subsets of S.
Adds(table, S, g) ==
    g = [s \in SUBSET S |->
            IF s = {} THEN 0 ELSE table[First(s)].bytes + g[s \ {First(s)}]]

(* A collection of finite sets has a member no other member is part of. *)
LEMMA SmallestSet ==
  ASSUME NEW sets, sets # {}, \A T \in sets : IsFiniteSet(T)
  PROVE  \E T \in sets : \A s \in sets : s \subseteq T => s = T
<1> DEFINE all == UNION sets
<1>1. sets \subseteq FiniteSubsetsOf(all)
  BY DEF FiniteSubsetsOf
<1>2. IsWellFoundedOn(StrictSubsetOrdering(all), FiniteSubsetsOf(all))
  BY FS_StrictSubsetOrderingWellFounded
<1>3. PICK T \in sets : \A s \in sets : ~ (<<s, T>> \in StrictSubsetOrdering(all))
  <2> HIDE DEF all
  <2> QED
    BY ONLY <1>1, <1>2, sets # {}, WFMin, Zenon
<1>4. ASSUME NEW s \in sets, s \subseteq T
      PROVE  s = T
  BY <1>3, <1>4 DEF StrictSubsetOrdering
<1> QED
  BY <1>4

LEMMA SumUnfolds ==
  ASSUME NEW table, NEW S, NEW h, Adds(table, S, h)
  PROVE  \E g : Adds(table, S, g) /\ BytesOf(table, S) = g[S]
<1>1. BytesOf(table, S) = (CHOOSE g : Adds(table, S, g))[S]
  BY DEF BytesOf, MapThenSumSet, MapThenFoldSet, Adds, First
<1>2. Adds(table, S, CHOOSE g : Adds(table, S, g))
  OBVIOUS
<1> QED
  BY <1>1, <1>2

(* The recursion on S, seen on a part of S, is the recursion on the part. *)
LEMMA AddsOnPart ==
  ASSUME NEW table, NEW S, NEW g, Adds(table, S, g), NEW T, T \subseteq S
  PROVE  Adds(table, T, [s \in SUBSET T |-> g[s]])
<1> DEFINE h == [s \in SUBSET T |-> g[s]]
<1>1. ASSUME NEW s \in SUBSET T
      PROVE  h[s] = IF s = {} THEN 0 ELSE table[First(s)].bytes + h[s \ {First(s)}]
  <2>1. s \in SUBSET S /\ s \ {First(s)} \in SUBSET T
    OBVIOUS
  <2>2. g[s] = IF s = {} THEN 0 ELSE table[First(s)].bytes + g[s \ {First(s)}]
    BY <2>1 DEF Adds
  <2> QED
    BY <2>1, <2>2
<1>2. h = [s \in SUBSET T |-> IF s = {} THEN 0
                              ELSE table[First(s)].bytes + h[s \ {First(s)}]]
  <2>1. h = [s \in SUBSET T |-> h[s]]
    OBVIOUS
  <2> HIDE DEF h
  <2> QED
    BY <1>1, <2>1
<1> QED
  BY <1>2 DEF Adds

LEMMA AddsAt ==
  ASSUME NEW table, NEW S, NEW g, Adds(table, S, g), NEW s, s \subseteq S
  PROVE  g[s] = IF s = {} THEN 0 ELSE table[First(s)].bytes + g[s \ {First(s)}]
BY DEF Adds

(* Over a finite set there is one such recursion and no other. *)
LEMMA OneSum ==
  ASSUME NEW table, NEW S, IsFiniteSet(S)
  PROVE  /\ \E g : Adds(table, S, g)
         /\ \A g, h : Adds(table, S, g) /\ Adds(table, S, h) => g[S] = h[S]
<1> DEFINE Good(T) == /\ \E g : Adds(table, T, g)
                      /\ \A g, h : Adds(table, T, g) /\ Adds(table, T, h) => g[T] = h[T]
           bad == {T \in SUBSET S : ~ Good(T)}
<1>1. ASSUME NEW T \in SUBSET S, \A s \in SUBSET T : s # T => Good(s)
      PROVE  Good(T)
  <2> HIDE DEF bad
  <2> DEFINE A(s) == (CHOOSE g : Adds(table, s, g))[s]
             k == [s \in SUBSET T |-> IF s = {} THEN 0
                      ELSE table[First(s)].bytes + A(s \ {First(s)})]
  <2>1. ASSUME NEW g, NEW h, Adds(table, T, g), Adds(table, T, h),
               NEW s \in SUBSET T, s # T
        PROVE  g[s] = h[s]
    <3>1. Adds(table, s, [r \in SUBSET s |-> g[r]])
      BY <2>1, AddsOnPart
    <3>2. Adds(table, s, [r \in SUBSET s |-> h[r]])
      BY <2>1, AddsOnPart
    <3>3. [r \in SUBSET s |-> g[r]][s] = [r \in SUBSET s |-> h[r]][s]
      BY <1>1, <2>1, <3>1, <3>2
    <3> QED
      BY <3>3
  <2>2. ASSUME NEW g, NEW h, Adds(table, T, g), Adds(table, T, h)
        PROVE  g[T] = h[T]
    <3>1. CASE T = {}
      BY <2>2, <3>1, AddsAt
    <3>2. CASE T # {}
      <4>1. First(T) \in T
        BY <3>2 DEF First
      <4>2. g[T \ {First(T)}] = h[T \ {First(T)}]
        BY <2>1, <2>2, <4>1
      <4>3. /\ g[T] = table[First(T)].bytes + g[T \ {First(T)}]
            /\ h[T] = table[First(T)].bytes + h[T \ {First(T)}]
        <5>1. T \subseteq T
          OBVIOUS
        <5>2. g[T] = IF T = {} THEN 0 ELSE table[First(T)].bytes + g[T \ {First(T)}]
          BY <2>2, <5>1, AddsAt
        <5>3. h[T] = IF T = {} THEN 0 ELSE table[First(T)].bytes + h[T \ {First(T)}]
          BY <2>2, <5>1, AddsAt
        <5> QED
          BY <3>2, <5>2, <5>3
      <4> QED
        BY <4>2, <4>3
    <3> QED
      BY <3>1, <3>2
  <2>3. ASSUME NEW s \in SUBSET T, s # T
        PROVE  A(s) = k[s]
    <3> DEFINE c == CHOOSE g : Adds(table, s, g)
    <3>1. Adds(table, s, c)
      BY <1>1, <2>3
    <3>2. CASE s = {}
      <4>1. c[s] = 0
        BY <3>1, <3>2, AddsAt
      <4> QED
        BY <3>2, <4>1
    <3>3. CASE s # {}
      <4> DEFINE r == s \ {First(s)}
                 d == CHOOSE g : Adds(table, r, g)
      <4>1. First(s) \in s
        BY <3>3 DEF First
      <4>2. r \in SUBSET T /\ r \subseteq s /\ r # T
        BY <4>1
      <4>3. Adds(table, r, d)
        BY <1>1, <4>2
      <4>4. Adds(table, r, [q \in SUBSET r |-> c[q]])
        BY <3>1, <4>2, AddsOnPart
      <4>5. d[r] = [q \in SUBSET r |-> c[q]][r]
        <5> HIDE DEF d, c, r
        <5> QED
          BY <1>1, <4>2, <4>3, <4>4
      <4>6. d[r] = c[r]
        BY <4>5
      <4>7. c[s] = table[First(s)].bytes + c[r]
        <5> HIDE DEF c
        <5> QED
          BY <3>1, <3>3, AddsAt
      <4> QED
        BY <3>3, <4>6, <4>7
    <3> QED
      BY <3>2, <3>3
  <2>4. ASSUME NEW s \in SUBSET T
        PROVE  k[s] = IF s = {} THEN 0 ELSE table[First(s)].bytes + k[s \ {First(s)}]
    <3>1. CASE s = {}
      BY <3>1
    <3>2. CASE s # {}
      <4>1. First(s) \in s
        BY <3>2 DEF First
      <4>2. s \ {First(s)} \in SUBSET T /\ s \ {First(s)} # T
        BY <4>1
      <4>3. A(s \ {First(s)}) = k[s \ {First(s)}]
        <5> HIDE DEF A, k
        <5> QED
          BY <2>3, <4>2
      <4> QED
        BY <3>2, <4>3
    <3> QED
      BY <3>1, <3>2
  <2>5. Adds(table, T, k)
    <3>1. k = [s \in SUBSET T |-> k[s]]
      OBVIOUS
    <3> HIDE DEF k
    <3> QED
      BY <2>4, <3>1 DEF Adds
  <2> HIDE DEF k
  <2> QED
    BY <2>2, <2>5
<1>2. ASSUME bad # {}
      PROVE  FALSE
  <2>1. \A T \in bad : IsFiniteSet(T)
    BY FS_Subset
  <2>2. PICK T \in bad : \A s \in bad : s \subseteq T => s = T
    <3> HIDE DEF bad
    <3> QED
      BY <1>2, <2>1, SmallestSet
  <2>3. \A s \in SUBSET T : s # T => Good(s)
    <3> HIDE DEF Good
    <3> QED
      BY <2>2
  <2> HIDE DEF Good
  <2> QED
    BY <1>1, <2>2, <2>3
<1> QED
  <2>1. Good(S)
    <3> HIDE DEF Good
    <3> QED
      BY <1>2
  <2> QED
    BY <2>1

(* The bytes of a finite set of slots: none for none, and one slot more is its *)
(* bytes more, whichever slot it is.                                          *)
LEMMA BytesFirst ==
  ASSUME NEW table, NEW S, IsFiniteSet(S)
  PROVE  BytesOf(table, S) = IF S = {} THEN 0
                             ELSE table[First(S)].bytes + BytesOf(table, S \ {First(S)})
<1> DEFINE R == S \ {First(S)}
<1>1. PICK g : Adds(table, S, g) /\ BytesOf(table, S) = g[S]
  BY OneSum, SumUnfolds
<1>2. IsFiniteSet(R)
  BY FS_RemoveElement
<1>3. PICK h : Adds(table, R, h) /\ BytesOf(table, R) = h[R]
  <2> HIDE DEF R
  <2> QED
    BY <1>2, OneSum, SumUnfolds
<1>4. Adds(table, R, [s \in SUBSET R |-> g[s]])
  BY <1>1, AddsOnPart
<1>5. h[R] = [s \in SUBSET R |-> g[s]][R]
  <2> HIDE DEF R
  <2> QED
    BY <1>2, <1>3, <1>4, OneSum
<1>6. h[R] = g[R]
  BY <1>5
<1>7. S \subseteq S
  OBVIOUS
<1>8. g[S] = IF S = {} THEN 0 ELSE table[First(S)].bytes + g[R]
  BY <1>1, <1>7, AddsAt
<1> QED
  BY <1>1, <1>3, <1>6, <1>8

LEMMA BytesAny ==
  ASSUME NEW table, NEW S, IsFiniteSet(S), \A key \in S : table[key].bytes \in Nat
  PROVE  /\ BytesOf(table, S) \in Nat
         /\ S = {} => BytesOf(table, S) = 0
         /\ \A key \in S :
               BytesOf(table, S) = table[key].bytes + BytesOf(table, S \ {key})
<1> DEFINE Good(T) == /\ BytesOf(table, T) \in Nat
                      /\ \A key \in T :
                            BytesOf(table, T) = table[key].bytes + BytesOf(table, T \ {key})
           bad == {T \in SUBSET S : ~ Good(T)}
<1>1. ASSUME NEW T \in SUBSET S, \A s \in SUBSET T : s # T => Good(s)
      PROVE  Good(T)
  <2> HIDE DEF bad
  <2>0. IsFiniteSet(T)
    BY FS_Subset
  <2>1. CASE T = {}
    <3>1. BytesOf(table, T) = 0
      BY <2>0, <2>1, BytesFirst
    <3>2. \A key \in T : FALSE
      BY <2>1
    <3> QED
      BY <3>1, <3>2
  <2>2. CASE T # {}
    <3> DEFINE f == First(T)
    <3>1. f \in T
      BY <2>2 DEF First
    <3>2. BytesOf(table, T) = table[f].bytes + BytesOf(table, T \ {f})
      BY <2>0, <2>2, BytesFirst
    <3>3. Good(T \ {f})
      <4> HIDE DEF Good, f
      <4> QED
        BY <1>1, <3>1
    <3>4. BytesOf(table, T) \in Nat
      BY <3>1, <3>2, <3>3
    <3>5. ASSUME NEW key \in T, key # f
          PROVE  BytesOf(table, T) = table[key].bytes + BytesOf(table, T \ {key})
      <4> HIDE DEF f
      <4>1. key \in T \ {f} /\ f \in T \ {key}
        BY <3>1, <3>5
      <4>2. Good(T \ {key})
        <5> HIDE DEF Good
        <5> QED
          BY <1>1, <3>5
      <4>3. (T \ {f}) \ {key} = (T \ {key}) \ {f}
        OBVIOUS
      <4>4. /\ BytesOf(table, T \ {f})
                  = table[key].bytes + BytesOf(table, (T \ {f}) \ {key})
            /\ BytesOf(table, T \ {key})
                  = table[f].bytes + BytesOf(table, (T \ {f}) \ {key})
        BY <3>3, <4>1, <4>2, <4>3
      <4>5. BytesOf(table, (T \ {f}) \ {key}) \in Nat
        <5>1. Good((T \ {f}) \ {key})
          <6>1. (T \ {f}) \ {key} \in SUBSET T /\ (T \ {f}) \ {key} # T
            BY <3>5
          <6> HIDE DEF Good
          <6> QED
            BY <1>1, <6>1
        <5> QED
          BY <5>1
      <4>6. table[key].bytes \in Nat /\ table[f].bytes \in Nat
        BY <3>1, <3>5
      <4> QED
        BY <3>2, <4>4, <4>5, <4>6
    <3> QED
      BY <3>2, <3>4, <3>5
  <2> QED
    BY <2>1, <2>2
<1>2. ASSUME bad # {}
      PROVE  FALSE
  <2>1. \A T \in bad : IsFiniteSet(T)
    BY FS_Subset
  <2>2. PICK T \in bad : \A s \in bad : s \subseteq T => s = T
    <3> HIDE DEF bad
    <3> QED
      BY <1>2, <2>1, SmallestSet
  <2>3. \A s \in SUBSET T : s # T => Good(s)
    <3> HIDE DEF Good
    <3> QED
      BY <2>2
  <2> HIDE DEF Good
  <2> QED
    BY <1>1, <2>2, <2>3
<1>3. Good(S)
  <2> HIDE DEF Good
  <2> QED
    BY <1>2
<1>4. S = {} => BytesOf(table, S) = 0
  BY BytesFirst
<1> QED
  BY <1>3, <1>4

(* What is part of a set of slots uses no more than the set. *)
LEMMA BytesPart ==
  ASSUME NEW table, NEW S, IsFiniteSet(S), \A key \in S : table[key].bytes \in Nat,
         NEW R, R \subseteq S
  PROVE  BytesOf(table, R) <= BytesOf(table, S)
<1> DEFINE bad == {T \in SUBSET S : R \subseteq T /\ ~ (BytesOf(table, R) <= BytesOf(table, T))}
<1>1. \A T \in SUBSET S : BytesOf(table, T) \in Nat
  BY BytesAny, FS_Subset
<1>2. ASSUME bad # {}
      PROVE  FALSE
  <2>1. \A T \in bad : IsFiniteSet(T)
    BY FS_Subset
  <2>2. PICK T \in bad : \A s \in bad : s \subseteq T => s = T
    <3> HIDE DEF bad
    <3> QED
      BY <1>2, <2>1, SmallestSet
  <2>3. T # R
    BY <1>1
  <2>4. PICK key \in T : key \notin R
    BY <2>3
  <2>5. BytesOf(table, T) = table[key].bytes + BytesOf(table, T \ {key})
    BY <2>1, BytesAny
  <2>6. T \ {key} \notin bad
    BY <2>2
  <2>7. BytesOf(table, R) <= BytesOf(table, T \ {key})
    BY <2>4, <2>6
  <2>8. table[key].bytes \in Nat /\ BytesOf(table, T \ {key}) \in Nat
        /\ BytesOf(table, R) \in Nat
    BY <1>1
  <2>9. BytesOf(table, R) <= BytesOf(table, T)
    BY <2>5, <2>7, <2>8
  <2> QED
    BY <2>9
<1> QED
  BY <1>2

(* Two tables that agree on the slots of a set agree on the bytes it uses. *)
LEMMA BytesAgree ==
  ASSUME NEW table, NEW other, NEW S, IsFiniteSet(S),
         \A key \in S : table[key].bytes \in Nat /\ other[key].bytes = table[key].bytes
  PROVE  BytesOf(other, S) = BytesOf(table, S)
<1> DEFINE bad == {T \in SUBSET S : BytesOf(other, T) # BytesOf(table, T)}
<1>1. ASSUME bad # {}
      PROVE  FALSE
  <2>1. \A T \in bad : IsFiniteSet(T)
    BY FS_Subset
  <2>2. PICK T \in bad : \A s \in bad : s \subseteq T => s = T
    <3> HIDE DEF bad
    <3> QED
      BY <1>1, <2>1, SmallestSet
  <2>3. T # {}
    BY FS_EmptySet, BytesFirst
  <2>4. First(T) \in T
    BY <2>3 DEF First
  <2>5. T \ {First(T)} \notin bad
    BY <2>2, <2>4
  <2>6. BytesOf(other, T \ {First(T)}) = BytesOf(table, T \ {First(T)})
    BY <2>5
  <2>7. BytesOf(table, T) = table[First(T)].bytes + BytesOf(table, T \ {First(T)})
    BY <2>1, <2>3, BytesFirst
  <2>8. BytesOf(other, T) = other[First(T)].bytes + BytesOf(other, T \ {First(T)})
    BY <2>1, <2>3, BytesFirst
  <2>9. BytesOf(other, T) = BytesOf(table, T)
    BY <2>4, <2>6, <2>7, <2>8
  <2> QED
    BY <2>9
<1> QED
  BY <1>1

-----------------------------------------------------------------------------
(* A load that begins alone fits.                                          *)

LEMMA UsedByIs ==
  ASSUME NEW table
  PROVE  UsedBy(table)
            = BytesOf(table, {key \in Keys : table[key].state \notin {"absent", "evicted"}})
BY DEF UsedBy, BytesOf

\* What the eviction of gone leaves in use.
Staying(gone) == InUse \ gone

LEMMA InUseBytes ==
  ASSUME TypeOK
  PROVE  \A key \in InUse : slots[key].bytes \in Nat
BY DEF InUse, TypeOK, Slot

LEMMA UsedNow ==
  ASSUME TypeOK
  PROVE  UsedBy(slots) = BytesOf(slots, InUse)
<1>1. {key \in Keys : slots[key].state \notin {"absent", "evicted"}} = InUse
  BY DEF TypeOK, Slot, InUse, Occupied
<1> QED
  BY <1>1, UsedByIs

LEMMA UsedAfterEviction ==
  ASSUME TypeOK, IsFiniteSet(InUse), NEW gone
  PROVE  /\ UsedBy(Evicting(gone)) = BytesOf(slots, Staying(gone))
         /\ BytesOf(slots, Staying(gone)) \in Nat
         /\ BytesOf(slots, Staying(gone)) <= BytesOf(slots, InUse)
<1> DEFINE table == Evicting(gone)
<1>1. \A key \in Keys : table[key].state = IF key \in gone THEN "evicted" ELSE slots[key].state
  BY DEF Evicting, TypeOK, Slot
<1>2. {key \in Keys : table[key].state \notin {"absent", "evicted"}} = Staying(gone)
  <2> HIDE DEF table
  <2> QED
    BY <1>1 DEF Staying, InUse, Occupied, TypeOK, Slot
<1>3. \A key \in Staying(gone) : table[key].bytes = slots[key].bytes
  BY DEF Staying, InUse, Evicting
<1>4. IsFiniteSet(Staying(gone)) /\ Staying(gone) \subseteq InUse
  BY FS_Difference DEF Staying
<1>5. \A key \in Staying(gone) : slots[key].bytes \in Nat
  BY <1>4, InUseBytes
<1>6. BytesOf(table, Staying(gone)) = BytesOf(slots, Staying(gone))
  <2> HIDE DEF table
  <2> QED
    BY <1>3, <1>4, <1>5, BytesAgree
<1>7. BytesOf(slots, Staying(gone)) \in Nat
  BY <1>4, <1>5, BytesAny
<1>8. BytesOf(slots, Staying(gone)) <= BytesOf(slots, InUse)
  BY <1>4, InUseBytes, BytesPart
<1> QED
  BY <1>2, <1>6, <1>7, <1>8, UsedByIs

LEMMA FreeAfterEviction ==
  ASSUME TypeOK, IsFiniteSet(InUse), UsedBy(slots) <= Budget, NEW gone
  PROVE  /\ FreeIn(Evicting(gone)) = Budget - BytesOf(slots, Staying(gone))
         /\ FreeIn(Evicting(gone)) \in Nat
<1>1. Budget \in Nat
  BY ResidentSetAssumption
<1>2. BytesOf(slots, InUse) \in Nat
  BY InUseBytes, BytesAny
<1>3. BytesOf(slots, Staying(gone)) \in 0..Budget
  BY <1>1, <1>2, UsedNow, UsedAfterEviction
<1> QED
  BY <1>1, <1>3, UsedAfterEviction DEF FreeIn, Monus

(* With no load in flight, what is not a candidate is what other models hold. *)
LEMMA StayingIsReserved ==
  ASSUME TypeOK, Lists(lru, InUse), InFlight = {}, NEW key, key \notin InUse
  PROVE  BytesOf(slots, Staying(Evictable)) = ReservedElsewhere(key)
<1>1. Queued = InUse
  BY DEF Lists, Queued
<1>2. \A other \in InUse : slots[other].state = "loaded"
  BY DEF InUse, InFlight, Occupied
<1>3. Staying(Evictable) = {other \in Keys \ {key} : Occupied(other) /\ Held(other)}
  BY <1>1, <1>2 DEF Staying, Evictable, InUse
<1> QED
  BY <1>3 DEF ReservedElsewhere, BytesOf

(* Among the candidates whose eviction is enough there is an oldest one. *)
LEMMA OldestEnough ==
  ASSUME TypeOK, Lists(lru, InUse), IsFiniteSet(InUse), NEW enough,
         enough \subseteq Evictable, enough # {}
  PROVE  \E last \in enough : OldestUpTo(last) \intersect enough = {last}
<1>1. Evictable \subseteq InUse
  BY DEF Evictable, Lists, Queued
<1>2. \A last \in enough : OldestUpTo(last) \subseteq InUse /\ last \in OldestUpTo(last)
  BY <1>1 DEF OldestUpTo, Lists
<1> DEFINE ups == {OldestUpTo(last) : last \in enough}
<1>3. \A T \in ups : IsFiniteSet(T)
  BY <1>2, FS_Subset
<1>4. PICK T \in ups : \A s \in ups : s \subseteq T => s = T
  <2>1. ups # {}
    OBVIOUS
  <2> HIDE DEF ups
  <2> QED
    BY <1>3, <2>1, SmallestSet
<1>5. PICK last \in enough : T = OldestUpTo(last)
  BY <1>4
<1>6. ASSUME NEW other \in enough, other \in OldestUpTo(last)
      PROVE  other = last
  <2>1. other \in InUse /\ last \in InUse /\ <<other, last>> \in lru
    BY <1>1, <1>6 DEF OldestUpTo
  <2>2. OldestUpTo(other) \subseteq OldestUpTo(last)
    BY <1>1, <2>1 DEF OldestUpTo, Lists
  <2>3. OldestUpTo(other) = OldestUpTo(last)
    BY <1>4, <1>5, <2>2
  <2>4. <<last, other>> \in lru
    BY <1>2, <2>3 DEF OldestUpTo
  <2> QED
    BY <2>1, <2>4 DEF Lists
<1> QED
  BY <1>2, <1>6

(* What begin_load evicts for the whole request makes room for it. *)
LEMMA VictimsMakeRoom ==
  ASSUME TypeOK, Lists(lru, InUse), IsFiniteSet(InUse), InFlight = {},
         UsedBy(slots) <= Budget, NEW key, key \notin InUse, NEW needed \in Nat,
         needed <= Monus(Budget, ReservedElsewhere(key))
  PROVE  needed <= FreeIn(Evicting(Victims(needed)))
<1> DEFINE enough == {last \in Evictable :
                         FreeIn(Evicting(OldestUpTo(last))) >= needed}
<1>0. FreeIn(slots) \in Nat
  BY MonusType, ResidentSetAssumption DEF FreeIn
<1>1. CASE FreeIn(slots) >= needed
  <2>0. ~ (FreeIn(slots) < needed)
    BY <1>0, <1>1
  <2>1. Victims(needed) = {}
    BY <1>1, <2>0 DEF Victims
  <2>2. Evicting({}) = slots
    BY DEF Evicting, TypeOK
  <2> QED
    BY <1>1, <2>1, <2>2
<1>2. CASE ~(FreeIn(slots) >= needed) /\ enough = {}
  <2>0. FreeIn(slots) < needed
    BY <1>0, <1>2
  <2>1. Victims(needed) = Evictable
    BY <1>2, <2>0 DEF Victims
  <2>2. FreeIn(Evicting(Evictable)) = Budget - ReservedElsewhere(key)
    BY FreeAfterEviction, StayingIsReserved
  <2>3. ReservedElsewhere(key) \in 0..Budget
    <3>1. ReservedElsewhere(key) \in Nat
      BY StayingIsReserved, UsedAfterEviction
    <3>2. FreeIn(Evicting(Evictable)) \in Nat
      BY FreeAfterEviction
    <3>3. Budget \in Nat
      BY ResidentSetAssumption
    <3> QED
      BY <2>2, <3>1, <3>2, <3>3
  <2> QED
    BY <2>1, <2>2, <2>3 DEF Monus
<1>3. CASE ~(FreeIn(slots) >= needed) /\ enough # {}
  <2> DEFINE last == CHOOSE last \in enough : OldestUpTo(last) \intersect enough = {last}
  <2>1. Victims(needed) = OldestUpTo(last)
    BY <1>3 DEF Victims
  <2>2. last \in enough
    <3>1. \E x \in enough : OldestUpTo(x) \intersect enough = {x}
      <4>1. enough \subseteq Evictable
        OBVIOUS
      <4> HIDE DEF enough
      <4> QED
        BY <1>3, <4>1, OldestEnough
    <3> HIDE DEF enough
    <3> QED
      BY <3>1
  <2> HIDE DEF last
  <2>3. FreeIn(Evicting(OldestUpTo(last))) >= needed
    BY <2>2
  <2>4. FreeIn(Evicting(OldestUpTo(last))) \in Nat
    BY FreeAfterEviction
  <2> QED
    BY <2>1, <2>3, <2>4
<1> QED
  BY <1>1, <1>2, <1>3

(* What begin_load grants fits the memory its evictions free. *)
LEMMA GrantFitsFree ==
  ASSUME TypeOK, Lists(lru, InUse), IsFiniteSet(InUse), InFlight = {},
         UsedBy(slots) <= Budget, NEW req \in Requests, Plan(req).kind = "fits"
  PROVE  TotalBytes(req.key, Plan(req).quant, Plan(req).context)
            <= FreeIn(Evicting(Plan(req).evicted))
<1> DEFINE key == req.key
           full == TotalBytes(key, 1, req.context)
           free == FreeIn(Evicting(Evictable))
           fitting == {quant \in DOMAIN Weights[key] :
                          FitsAt(key, quant, free, req.context)}
<1>1. key \in Keys /\ req.context \in Nat
  BY ResidentSetAssumption DEF Request
<1>2. ~ Occupied(key)
  BY PlanShape
<1>3. DOMAIN Weights[key] \subseteq Nat /\ 1 \in DOMAIN Weights[key]
  BY <1>1, ResidentSetAssumption
<1>4. CASE full <= Monus(Budget, ReservedElsewhere(key))
  <2>1. Plan(req) = [kind |-> "fits", quant |-> 1, context |-> req.context,
                     evicted |-> Victims(full)]
    BY <1>2, <1>4 DEF Plan
  <2>2. full \in Nat
    BY <1>1, <1>3, TotalBytesType
  <2>3. key \notin InUse
    BY <1>2 DEF InUse
  <2>4. full <= FreeIn(Evicting(Victims(full)))
    <3> HIDE DEF full, key
    <3> QED
      BY <1>4, <2>2, <2>3, VictimsMakeRoom
  <2> QED
    BY <2>1, <2>4
<1>5. CASE ~ (full <= Monus(Budget, ReservedElsewhere(key)))
  <2>1. Plan(req) = Ladder(req, free)
    BY <1>2, <1>5 DEF Plan
  <2>2. fitting # {}
    BY <2>1 DEF Ladder
  <2>3. Min(fitting) \in fitting
    BY <1>3, <2>2, MinIsMember
  <2>4. Plan(req) = [kind |-> "fits", quant |-> Min(fitting), evicted |-> Evictable,
                     context |-> GrantedContext(key, Min(fitting), free, req.context)]
    BY <2>1, <2>2 DEF Ladder
  <2>5. free \in Nat
    BY FreeAfterEviction
  <2>6. TotalBytes(key, Min(fitting),
                   GrantedContext(key, Min(fitting), free, req.context)) <= free
    <3> DEFINE quant == Min(fitting)
    <3>1. quant \in DOMAIN Weights[key] /\ FitsAt(key, quant, free, req.context)
      BY <2>3
    <3>2. TotalBytes(key, quant, GrantedContext(key, quant, free, req.context)) <= free
      <4> HIDE DEF quant, free, key
      <4> QED
        BY <1>1, <2>5, <3>1, GrantedContextFits
    <3> QED
      BY <3>2
  <2> QED
    BY <2>4, <2>6
<1> QED
  BY <1>4, <1>5

LEMMA UsedSame ==
  ASSUME TypeOK, IsFiniteSet(InUse), NEW table,
         \A key \in Keys : /\ table[key].state = slots[key].state
                           /\ table[key].bytes = slots[key].bytes
  PROVE  UsedBy(table) = UsedBy(slots)
<1>1. {key \in Keys : table[key].state \notin {"absent", "evicted"}} = InUse
  BY DEF InUse, Occupied, TypeOK, Slot
<1>2. \A key \in InUse : table[key].bytes = slots[key].bytes
  BY DEF InUse
<1>3. BytesOf(table, InUse) = BytesOf(slots, InUse)
  BY <1>2, InUseBytes, BytesAgree
<1> QED
  BY <1>1, <1>3, UsedByIs, UsedNow

(* A slot that enters adds its bytes to what stays. *)
LEMMA UsedWithEntry ==
  ASSUME TypeOK, IsFiniteSet(InUse), NEW gone, NEW key \in Keys, key \notin InUse,
         NEW slot \in Slot, slot.state = "loading"
  PROVE  UsedBy([Evicting(gone) EXCEPT ![key] = slot])
            = slot.bytes + BytesOf(slots, Staying(gone))
<1> DEFINE table == [Evicting(gone) EXCEPT ![key] = slot]
           S == Staying(gone) \union {key}
<1>1. table[key] = slot /\ \A other \in Keys \ {key} : table[other] = Evicting(gone)[other]
  BY DEF Evicting
<1>2. \A other \in Keys :
         Evicting(gone)[other].state = IF other \in gone THEN "evicted" ELSE slots[other].state
  BY DEF Evicting, TypeOK, Slot
<1>3. {other \in Keys : table[other].state \notin {"absent", "evicted"}} = S
  <2> HIDE DEF table
  <2> QED
    BY <1>1, <1>2 DEF Staying, InUse, Occupied, TypeOK, Slot
<1>4. \A other \in Staying(gone) :
         table[other].bytes = slots[other].bytes /\ slots[other].bytes \in Nat
  <2> SUFFICES ASSUME NEW other \in Staying(gone)
               PROVE  table[other].bytes = slots[other].bytes /\ slots[other].bytes \in Nat
    OBVIOUS
  <2>1. other \in Keys \ {key} /\ other \notin gone /\ other \in InUse
    BY DEF Staying, InUse
  <2>2. table[other] = slots[other]
    <3> HIDE DEF table
    <3> QED
      BY <1>1, <2>1 DEF Evicting
  <2> HIDE DEF table
  <2> QED
    BY <2>1, <2>2, InUseBytes
<1>5. IsFiniteSet(Staying(gone)) /\ key \notin Staying(gone)
  BY FS_Difference DEF Staying
<1>6. IsFiniteSet(S) /\ key \in S /\ S \ {key} = Staying(gone)
  BY <1>5, FS_AddElement
<1>7. slot.bytes \in Nat
  BY DEF Slot
<1> HIDE DEF table, S
<1>8. \A other \in S : table[other].bytes \in Nat
  BY <1>1, <1>4, <1>6, <1>7
<1>9. BytesOf(table, S) = table[key].bytes + BytesOf(table, Staying(gone))
  BY <1>6, <1>8, BytesAny
<1>10. BytesOf(table, Staying(gone)) = BytesOf(slots, Staying(gone))
  BY <1>4, <1>5, BytesAgree
<1>11. UsedBy(table) = slot.bytes + BytesOf(slots, Staying(gone))
  BY <1>1, <1>3, <1>9, <1>10, UsedByIs
<1> QED
  BY <1>11 DEF table

LEMMA StepSole ==
  ASSUME TypeOK, Lists(lru, InUse), IsFiniteSet(InUse), [Next]_vars,
         InFlight = {}, UsedBy(slots) <= Budget
  PROVE  UsedBy(slots') <= Budget
<1> DEFINE Fits == UsedBy(slots') <= Budget
<1>0. Budget \in Nat
  BY ResidentSetAssumption
<1>1. ASSUME slots' = slots
      PROVE  Fits
  BY <1>1
<1>2. ASSUME NEW req \in Requests, BeginLoad(req, Plan(req))
      PROVE  Fits
  <2> DEFINE plan == Plan(req)
  <2>1. req.key \in Keys
    BY ResidentSetAssumption DEF Request
  <2>2. CASE plan.kind = "present" /\ JoinSlot(req)
    <3>1. \A key \in Keys : /\ slots'[key].state = slots[key].state
                            /\ slots'[key].bytes = slots[key].bytes
      BY <2>1, <2>2 DEF JoinSlot, TypeOK, Slot
    <3> QED
      BY <3>1, UsedSame
  <2>3. CASE plan.kind = "fits" /\ EnterSlot(req, plan)
    <3> DEFINE slot == LoadingSlot(req, plan)
               stay == BytesOf(slots, Staying(plan.evicted))
    <3>1. slot \in Slot /\ slot.state = "loading"
          /\ slot.bytes = TotalBytes(req.key, plan.quant, plan.context)
      BY <2>3, LoadingSlotType DEF LoadingSlot
    <3>2. req.key \notin InUse
      BY <2>3, PlanShape DEF InUse
    <3>3. UsedBy(slots') = slot.bytes + stay
      <4> HIDE DEF slot, plan
      <4>1. slots' = [Evicting(plan.evicted) EXCEPT ![req.key] = slot]
        BY <2>3 DEF EnterSlot, slot
      <4> QED
        BY <2>1, <3>1, <3>2, <4>1, UsedWithEntry
    <3>4. slot.bytes <= FreeIn(Evicting(plan.evicted))
      BY <2>3, <3>1, GrantFitsFree
    <3>5. FreeIn(Evicting(plan.evicted)) = Budget - stay /\ stay \in Nat
      BY FreeAfterEviction, UsedAfterEviction
    <3>6. slot.bytes \in Nat
      BY <3>1 DEF Slot
    <3> HIDE DEF slot, stay, plan
    <3> QED
      BY <1>0, <3>3, <3>4, <3>5, <3>6
  <2>4. CASE plan.kind \in {"alias", "refused"} /\ OnlyEvict(plan)
    <3>1. UsedBy(slots') = BytesOf(slots, Staying(plan.evicted))
      BY <2>4, UsedAfterEviction DEF OnlyEvict
    <3>2. /\ BytesOf(slots, Staying(plan.evicted)) \in Nat
          /\ BytesOf(slots, Staying(plan.evicted)) <= BytesOf(slots, InUse)
      BY UsedAfterEviction
    <3>3. BytesOf(slots, InUse) \in Nat /\ BytesOf(slots, InUse) <= Budget
      BY InUseBytes, BytesAny, UsedNow
    <3> QED
      BY <1>0, <3>1, <3>2, <3>3
  <2> QED
    BY <1>2, <2>2, <2>3, <2>4 DEF BeginLoad
<1>3. ASSUME NEW key \in Keys, slots[key].state = "loading"
      PROVE  FALSE
  BY <1>3 DEF InFlight
<1>4. Next => \/ slots' = slots
              \/ \E req \in Requests : BeginLoad(req, Plan(req))
              \/ \E key \in Keys : slots[key].state = "loading"
  BY DEF Next, Pin, FinishLoad, FailLoad, AcquireTurnLease, ReleaseTurn
<1> QED
  BY <1>1, <1>2, <1>3, <1>4 DEF vars

LEMMA StepFinite ==
  ASSUME TypeOK, IsFiniteSet(InUse), [Next]_vars
  PROVE  IsFiniteSet(InUse')
<1>1. ASSUME NEW key \in Keys, InUse' \subseteq InUse \union {key}
      PROVE  IsFiniteSet(InUse')
  BY <1>1, FS_AddElement, FS_Subset
<1>2. ASSUME NEW key \in Keys, \A other \in Keys \ {key} : slots'[other] = slots[other]
      PROVE  InUse' \subseteq InUse \union {key}
  BY <1>2 DEF InUse, Occupied
<1>3. ASSUME UNCHANGED slots
      PROVE  IsFiniteSet(InUse')
  BY <1>3 DEF InUse, Occupied
<1>4. ASSUME NEW req \in Requests, BeginLoad(req, Plan(req))
      PROVE  IsFiniteSet(InUse')
  <2>1. req.key \in Keys
    BY ResidentSetAssumption DEF Request
  <2>2. \A other \in Keys : Occupied(other)' => Occupied(other) \/ other = req.key
    <3> SUFFICES ASSUME NEW other \in Keys, other # req.key
                 PROVE  slots'[other].state \in {"evicted", slots[other].state}
      BY DEF Occupied
    <3>1. Evicting(Plan(req).evicted)[other].state \in {"evicted", slots[other].state}
      BY DEF Evicting, TypeOK, Slot
    <3> QED
      BY <1>4, <3>1, EvictingType DEF BeginLoad, JoinSlot, EnterSlot, OnlyEvict, TypeOK
  <2>3. InUse' \subseteq InUse \union {req.key}
    BY <2>2 DEF InUse
  <2> QED
    BY <1>1, <2>1, <2>3
<1>5. ASSUME NEW key \in Keys, NEW bytes, FinishLoad(key, bytes)
      PROVE  IsFiniteSet(InUse')
  <2>1. \A other \in Keys \ {key} : slots'[other] = slots[other]
    BY <1>5 DEF FinishLoad, TypeOK
  <2> QED
    BY <1>1, <1>2, <2>1
<1>6. ASSUME NEW key \in Keys, FailLoad(key)
      PROVE  IsFiniteSet(InUse')
  <2>1. \A other \in Keys \ {key} : slots'[other] = slots[other]
    BY <1>6 DEF FailLoad, TypeOK
  <2> QED
    BY <1>1, <1>2, <2>1
<1> QED
  BY <1>3, <1>4, <1>5, <1>6
  DEF Next, Pin, AcquireTurnLease, ReleaseTurn, vars

(* A load that begins while none is in flight, in a set within its budget, leaves *)
(* it within its budget: what the ladder grants, or what the whole request needs, *)
(* is never more than the evictions made in the same call set free (begin_load,   *)
(* climb, granted_context).                                                       *)
THEOREM SoleLoadWithinBudget == Spec => SoleLoadFits
<1> DEFINE IInv == TypeOK /\ Lists(lru, InUse) /\ IsFiniteSet(InUse)
           Kept == InFlight = {} /\ UsedBy(slots) <= Budget => UsedBy(slots)' <= Budget
<1>1. Init => IInv
  <2>1. Init => InUse = {} /\ lru = {}
    BY DEF Init, InUse, Occupied, NoSlot
  <2>2. Init => IsFiniteSet(InUse)
    BY <2>1, FS_EmptySet
  <2> QED
    BY <2>1, <2>2, InitType DEF Lists
<1>2. IInv /\ [Next]_vars => IInv'
  BY StepType, StepQueue, StepFinite
<1>3. IInv /\ [Next]_vars => [Kept]_vars
  <2>1. UsedBy(slots)' = UsedBy(slots')
    BY DEF UsedBy, MapThenSumSet, MapThenFoldSet
  <2> QED
    BY <2>1, StepSole
<1>4. Spec => [][Kept]_vars
  <2> HIDE DEF IInv, Kept
  <2> QED
    BY <1>1, <1>2, <1>3, PTL DEF Spec
<1> QED
  BY <1>4 DEF SoleLoadFits

-----------------------------------------------------------------------------
(* The engine.                                                             *)

\* The larger of two numbers is one of them.
LEMMA MaxOfTwo ==
    ASSUME NEW a \in Int, NEW b \in Int
    PROVE  Max({a, b}) \in {a, b} /\ Max({a, b}) >= b
<1>1. \E x \in {a, b} : \A y \in {a, b} : x >= y
  <2>1. CASE a >= b
    BY <2>1
  <2>2. CASE ~(a >= b)
    BY <2>2
  <2>. QED  BY <2>1, <2>2
<1>2. Max({a, b}) \in {a, b} /\ \A y \in {a, b} : Max({a, b}) >= y
  BY <1>1 DEF Max
<1>. QED  BY <1>2

LEMMA SequencesType ==
    ASSUME NEW free \in Nat
    PROVE  SequencesFor(free) \in Nat \ {0}
<1>1. CASE PerSequence = 0
  BY <1>1 DEF SequencesFor
<1>2. CASE PerSequence # 0
  <2>. DEFINE x == Max({free \div PerSequence, 1})
  <2>1. free \div PerSequence \in Nat
    BY <1>2, EngineAssumption, DivideDown
  <2>2. x \in {free \div PerSequence, 1} /\ x >= 1
    BY <2>1, MaxOfTwo
  <2>3. SequencesFor(free) = x
    BY <1>2 DEF SequencesFor
  <2>. HIDE DEF x
  <2>. QED  BY <2>1, <2>2, <2>3
<1>. QED  BY <1>1, <1>2

-----------------------------------------------------------------------------
(* Every step is one of the resident set's, or leaves it alone.             *)

LEMMA InstallIsMethod ==
    ASSUME EngineTypeOK, NEW i \in Installers, Installing(i)
    PROVE  [Next]_vars
<1>1. ASSUME NEW req \in Requests, BeginInstall(i, req) PROVE [Next]_vars
  BY <1>1 DEF BeginInstall, Next
<1>2. CASE SpecFails(i) \/ RegisterModel(i) \/ ResizeLimiter(i)
  BY <1>2 DEF SpecFails, RegisterModel, ResizeLimiter
<1>3. installs[i].phase = "reading" => installs[i].key \in Keys
  <2>1. installs[i] \in Install
    BY DEF EngineTypeOK
  <2>. QED  BY <2>1 DEF Install, NoInstall
<1>4. CASE ReadingFails(i)
  BY <1>3, <1>4 DEF ReadingFails, Next
<1>5. CASE ReadingEnds(i)
  BY <1>3, <1>5 DEF ReadingEnds, Next
<1>. QED  BY <1>1, <1>2, <1>4, <1>5 DEF Installing

LEMMA StreamIsMethod ==
    ASSUME EngineTypeOK, NEW turn \in Turns, Streaming(turn)
    PROVE  [Next]_vars
<1>1. CASE Lease(turn)
  <2>1. streams[turn].key \in Keys
    <3>1. streams[turn] \in Stream /\ streams[turn].phase = "admitted"
      BY <1>1 DEF EngineTypeOK, Lease
    <3>. QED  BY <3>1 DEF Stream, NoStream
  <2>. QED  BY <1>1, <2>1 DEF Lease, Next
<1>2. CASE BuildFails(turn) \/ GuardReleases(turn)
  BY <1>2 DEF BuildFails, GuardReleases, Next
<1>3. CASE \/ \E class \in Classes : Resolve(turn, class)
           \/ Admit(turn) \/ Spawn(turn) \/ GuardReturnsPermit(turn)
  BY <1>3 DEF Resolve, Admit, Spawn, GuardReturnsPermit
<1>4. CASE \/ Read(turn) \/ Start(turn) \/ SeeCancel(turn) \/ Send(turn)
           \/ Receive(turn) \/ Cancel(turn) \/ DropStream(turn) \/ Forget(turn)
  BY <1>4 DEF Read, Start, SeeCancel, Send, Receive, Cancel, DropStream, Forget, TaskStep
<1>. QED  BY <1>1, <1>2, <1>3, <1>4 DEF Streaming, Task

LEMMA StepIsMethod ==
    ASSUME EngineTypeOK, [EngineNext]_engineVars
    PROVE  [Next]_vars
BY InstallIsMethod, StreamIsMethod DEF EngineNext, engineVars

-----------------------------------------------------------------------------
(* Types.                                                                   *)

Open == [phase : {"leased", "starting", "reading", "sending", "ending", "unleased", "over"},
         key : Keys, unsent : Seq(Chunk), channel : Seq(Chunk),
         listening : BOOLEAN, cancelled : BOOLEAN, ends : Nat]

\* What a stream's record is, by its phase.
LEMMA StreamKinds ==
    ASSUME NEW stream \in Stream
    PROVE  /\ stream.phase \in {"none", "resolved", "admitted", "leased", "starting", "reading",
                                "sending", "ending", "unleased", "over"}
           /\ stream.phase \notin {"none", "resolved", "admitted"} => stream \in Open
           /\ stream.phase \in {"resolved", "admitted"} =>
                 stream.key \in Keys /\ stream = [phase |-> stream.phase, key |-> stream.key]
           /\ stream.phase = "none" => stream = NoStream
BY DEF Stream, Open, NoStream

\* A response has chunks, and only its last can end the generation.
Telling(chunks) ==
    chunks \in Seq(Chunk) /\ chunks # << >> /\ \A i \in 1..(Len(chunks) - 1) : ~Ending(chunks[i])

LEMMA ResponsesTell ==
    \A chunks \in Responses \union {<<"done">>, <<"error">>} : Telling(chunks)
<1>1. ASSUME NEW chunks \in Responses PROVE Telling(chunks)
  <2>1. chunks \in Seq({"chunk", "done"}) /\ chunks # << >>
    BY EngineAssumption
  <2>2. chunks \in Seq(Chunk)
    BY <2>1 DEF Chunk
  <2>3. \A i \in 1..(Len(chunks) - 1) : chunks[i] = "chunk"
    BY EngineAssumption
  <2>. QED  BY <2>1, <2>2, <2>3 DEF Telling, Ending
<1>2. ASSUME NEW c \in Chunk PROVE Telling(<<c>>)
  <2>1. <<c>> \in Seq(Chunk) /\ Len(<<c>>) = 1 /\ <<c>> # << >>
    OBVIOUS
  <2>. QED  BY <2>1 DEF Telling
<1>3. Telling(<<"done">>) /\ Telling(<<"error">>)
  BY <1>2 DEF Chunk
<1>. QED  BY <1>1, <1>3

\* What the engine promises of one stream's record.  Told is what a caller reads
\* at its end; the first two parts are why there is one ending to read.
GoodStream(stream) ==
    /\ stream.phase \in {"leased", "starting", "reading", "sending"} => stream.ends = 0
    /\ stream.phase = "sending" => Telling(stream.unsent)
    /\ stream.phase \in {"ending", "unleased", "over"} /\ stream.listening =>
          /\ stream.ends = 1
          /\ stream.channel # << >> => Ending(Last(stream.channel))

GuardPhases == {"leased", "starting", "reading", "sending", "ending"}
FreePhases == {"none", "resolved", "over"}

\* Two records of a stream whose guard has the same to give back.
SameGuard(stream, next) ==
    /\ stream.phase \in GuardPhases <=> next.phase \in GuardPhases
    /\ stream.phase \in FreePhases <=> next.phase \in FreePhases

LEMMA AppendLast ==
    ASSUME NEW S, NEW seq \in Seq(S), NEW x \in S
    PROVE  Append(seq, x) \in Seq(S) /\ Last(Append(seq, x)) = x
BY DEF Last

LEMMA TailLast ==
    ASSUME NEW S, NEW seq \in Seq(S), seq # << >>
    PROVE  /\ Head(seq) \in S /\ Tail(seq) \in Seq(S)
           /\ Tail(seq) # << >> => Len(seq) > 1 /\ Last(Tail(seq)) = Last(seq)
<1>1. Len(seq) \in Nat /\ Len(seq) >= 1
  OBVIOUS
<1>2. Head(seq) = seq[1] /\ Head(seq) \in S
  BY <1>1
<1>3. /\ Tail(seq) \in Seq(S) /\ Len(Tail(seq)) = Len(seq) - 1
      /\ \A i \in 1..Len(Tail(seq)) : Tail(seq)[i] = seq[i + 1]
  BY <1>1
<1>4. ASSUME Tail(seq) # << >>
      PROVE  Len(seq) > 1 /\ Last(Tail(seq)) = Last(seq)
  <2>1. Len(Tail(seq)) \in Nat /\ Len(Tail(seq)) >= 1
    BY <1>3, <1>4
  <2>2. Tail(seq)[Len(seq) - 1] = seq[(Len(seq) - 1) + 1]
    BY <1>1, <1>3, <2>1
  <2>3. (Len(seq) - 1) + 1 = Len(seq)
    BY <1>1
  <2>4. Last(Tail(seq)) = seq[Len(seq)]
    BY <1>3, <2>2, <2>3 DEF Last
  <2>. QED  BY <1>1, <1>3, <2>1, <2>4 DEF Last
<1>. QED  BY <1>2, <1>3, <1>4

LEMMA TellingTail ==
    ASSUME NEW chunks, Telling(chunks)
    PROVE  /\ Head(chunks) \in Chunk /\ Tail(chunks) \in Seq(Chunk)
           /\ Tail(chunks) # << >> => Telling(Tail(chunks)) /\ ~Ending(Head(chunks))
<1>1. chunks \in Seq(Chunk) /\ chunks # << >>
  BY DEF Telling
<1>2. \A i \in 1..(Len(chunks) - 1) : ~Ending(chunks[i])
  BY DEF Telling
<1>3. /\ Head(chunks) \in Chunk /\ Tail(chunks) \in Seq(Chunk)
      /\ Tail(chunks) # << >> => Len(chunks) > 1
  BY <1>1, TailLast
<1>4. ASSUME Tail(chunks) # << >>
      PROVE  Telling(Tail(chunks)) /\ ~Ending(Head(chunks))
  <2>1. Len(chunks) \in Nat /\ Len(chunks) > 1
    BY <1>1, <1>3, <1>4
  <2>2. Head(chunks) = chunks[1] /\ 1 \in 1..(Len(chunks) - 1)
    BY <1>1, <2>1
  <2>3. Len(Tail(chunks)) = Len(chunks) - 1
    BY <1>1
  <2>4. ASSUME NEW i \in 1..(Len(Tail(chunks)) - 1)
        PROVE  ~Ending(Tail(chunks)[i])
    <3>1. Tail(chunks)[i] = chunks[i + 1]
      BY <1>1, <2>1, <2>3, <2>4
    <3>2. i + 1 \in 1..(Len(chunks) - 1)
      BY <2>1, <2>3, <2>4
    <3>. QED  BY <1>2, <3>1, <3>2
  <2>. QED  BY <1>2, <1>3, <1>4, <2>2, <2>4 DEF Telling
<1>. QED  BY <1>3, <1>4

\* A step of the task's or the caller's that holds the guard: the record stays
\* good.
LEMMA TaskKeepsGood ==
    ASSUME EngineTypeOK, NEW turn \in Turns, GoodStream(streams[turn]),
           \/ Read(turn) \/ Start(turn) \/ SeeCancel(turn) \/ Send(turn)
           \/ Receive(turn) \/ Cancel(turn) \/ DropStream(turn) \/ Forget(turn)
    PROVE  \E next \in Stream :
               TaskStep(turn, next) /\ GoodStream(next) /\ SameGuard(streams[turn], next)
<1>. DEFINE stream == streams[turn]
<1>1. stream \in Stream
  BY DEF EngineTypeOK
<1>2. CASE Forget(turn)
  <2>1. NoStream \in Stream /\ GoodStream(NoStream)
    BY DEF Stream, GoodStream, NoStream
  <2>2. SameGuard(stream, NoStream)
    BY <1>2 DEF SameGuard, GuardPhases, FreePhases, NoStream, Forget
  <2>. QED  BY <1>2, <2>1, <2>2 DEF Forget
<1>3. CASE Read(turn) \/ Start(turn) \/ SeeCancel(turn)
  <2>1. stream \in Open /\ stream.phase \in {"starting", "reading"} /\ stream.ends = 0
    BY <1>1, <1>3, StreamKinds DEF Read, Start, SeeCancel, GoodStream
  <2>2. ASSUME NEW chunks, Telling(chunks)
        PROVE  /\ Sending(stream, chunks) \in Stream
               /\ GoodStream(Sending(stream, chunks))
               /\ SameGuard(stream, Sending(stream, chunks))
    <3>1. chunks \in Seq(Chunk)
      BY <2>2 DEF Telling
    <3>2. Sending(stream, chunks) \in Stream
      BY <2>1, <3>1 DEF Sending, Open, Stream
    <3>3. /\ Sending(stream, chunks).phase = "sending" /\ Sending(stream, chunks).ends = 0
          /\ Sending(stream, chunks).unsent = chunks
      BY <2>1 DEF Sending, Open
    <3>. QED  BY <2>1, <2>2, <3>2, <3>3 DEF GoodStream, SameGuard, GuardPhases, FreePhases
  <2>3. ASSUME NEW next, next = [stream EXCEPT !.phase = "reading"]
        PROVE  next \in Stream /\ GoodStream(next) /\ SameGuard(stream, next)
    <3>1. next \in Stream /\ next.phase = "reading" /\ next.ends = 0
      BY <2>1, <2>3 DEF Open, Stream
    <3>. QED  BY <2>1, <3>1 DEF GoodStream, SameGuard, GuardPhases, FreePhases
  <2>4. \/ TaskStep(turn, [stream EXCEPT !.phase = "reading"])
        \/ \E chunks \in Responses \union {<<"done">>, <<"error">>} :
               TaskStep(turn, Sending(stream, chunks))
    BY <1>3 DEF Read, Start, SeeCancel
  <2>. HIDE DEF stream
  <2>5. CASE TaskStep(turn, [stream EXCEPT !.phase = "reading"])
    BY <2>3, <2>5 DEF stream
  <2>6. ASSUME NEW chunks \in Responses \union {<<"done">>, <<"error">>},
               TaskStep(turn, Sending(stream, chunks))
        PROVE  \E next \in Stream :
                  TaskStep(turn, next) /\ GoodStream(next) /\ SameGuard(stream, next)
    <3>1. Telling(chunks)
      BY ResponsesTell
    <3>. QED  BY <2>2, <2>6, <3>1
  <2>. QED  BY <2>4, <2>5, <2>6 DEF stream
<1>4. CASE Send(turn)
  <2>. DEFINE chunk == Head(stream.unsent)
  <2>1. stream \in Open /\ stream.phase = "sending" /\ stream.ends = 0 /\ Telling(stream.unsent)
    BY <1>1, <1>4, StreamKinds DEF Send, GoodStream
  <2>2. ASSUME NEW next, ~stream.listening,
               next = [stream EXCEPT !.phase = "ending", !.unsent = << >>]
        PROVE  next \in Stream /\ GoodStream(next) /\ SameGuard(stream, next)
    <3>1. << >> \in Seq(Chunk)
      OBVIOUS
    <3>2. next \in Stream /\ next.phase = "ending" /\ next.listening = stream.listening
      BY <2>1, <2>2, <3>1 DEF Open, Stream
    <3>. QED  BY <2>1, <2>2, <3>2 DEF GoodStream, SameGuard, GuardPhases, FreePhases
  <2>3. ASSUME NEW next,
               next = [stream EXCEPT !.phase = AfterSend(stream, chunk),
                                     !.channel = Append(stream.channel, chunk),
                                     !.unsent = Tail(stream.unsent),
                                     !.ends = IF Ending(chunk) THEN stream.ends + 1 ELSE stream.ends]
        PROVE  next \in Stream /\ GoodStream(next) /\ SameGuard(stream, next)
    <3>1. /\ chunk \in Chunk /\ Tail(stream.unsent) \in Seq(Chunk)
          /\ Tail(stream.unsent) # << >> => Telling(Tail(stream.unsent)) /\ ~Ending(chunk)
      BY <2>1, TellingTail
    <3>2. stream.channel \in Seq(Chunk)
      BY <2>1 DEF Open
    <3>. DEFINE channel == Append(stream.channel, chunk)
                 rest == Tail(stream.unsent)
                 after == AfterSend(stream, chunk)
                 ends == IF Ending(chunk) THEN 1 ELSE 0
    <3>3. channel \in Seq(Chunk) /\ Last(channel) = chunk
      BY <3>1, <3>2, AppendLast
    <3>4. /\ after \in {"sending", "ending", "reading"} /\ ends \in Nat
          /\ after = "sending" => rest # << >>
          /\ after \in {"reading"} => ~Ending(chunk)
          /\ after = "ending" => Ending(chunk)
      BY DEF AfterSend
    <3>5. next = [stream EXCEPT !.phase = after, !.channel = channel, !.unsent = rest, !.ends = ends]
      BY <2>1, <2>3
    <3>. HIDE DEF chunk, channel, rest, after, ends
    <3>6. /\ next \in Stream /\ next.phase = after /\ next.channel = channel
          /\ next.unsent = rest /\ next.ends = ends
      BY <2>1, <3>1, <3>3, <3>4, <3>5 DEF Open, Stream, rest
    <3>7. after = "sending" => Telling(rest) /\ ends = 0
      BY <3>1, <3>4 DEF rest, ends
    <3>8. after = "reading" => ends = 0
      BY <3>4 DEF ends
    <3>9. after = "ending" => ends = 1 /\ Ending(Last(channel))
      BY <3>3, <3>4 DEF ends
    <3>10. GoodStream(next)
      BY <3>4, <3>6, <3>7, <3>8, <3>9 DEF GoodStream
    <3>11. SameGuard(stream, next)
      BY <2>1, <3>4, <3>6 DEF SameGuard, GuardPhases, FreePhases
    <3>. QED  BY <3>6, <3>10, <3>11
  <2>4. \/ ~stream.listening /\ TaskStep(turn, [stream EXCEPT !.phase = "ending", !.unsent = << >>])
        \/ TaskStep(turn, [stream EXCEPT !.phase = AfterSend(stream, chunk),
                                     !.channel = Append(stream.channel, chunk),
                                     !.unsent = Tail(stream.unsent),
                                     !.ends = IF Ending(chunk) THEN stream.ends + 1 ELSE stream.ends])
    BY <1>4 DEF Send
  <2>. HIDE DEF stream
  <2>. QED  BY <2>2, <2>3, <2>4 DEF stream
<1>5. CASE Receive(turn) \/ Cancel(turn) \/ DropStream(turn)
  <2>1. stream \in Open
    BY <1>1, <1>5, StreamKinds DEF Receive, Cancel, DropStream, InHand
  <2>2. stream.channel \in Seq(Chunk) /\ << >> \in Seq(Chunk)
    BY <2>1 DEF Open
  <2>3. ASSUME NEW next, stream.channel # << >>,
               next = [stream EXCEPT !.channel = Tail(stream.channel)]
        PROVE  next \in Stream /\ GoodStream(next) /\ SameGuard(stream, next)
    <3>1. /\ Tail(stream.channel) \in Seq(Chunk)
          /\ Tail(stream.channel) # << >> => Last(Tail(stream.channel)) = Last(stream.channel)
      BY <2>2, <2>3, TailLast
    <3>2. /\ next \in Stream /\ next.phase = stream.phase /\ next.ends = stream.ends
          /\ next.unsent = stream.unsent /\ next.listening = stream.listening
          /\ next.channel = Tail(stream.channel)
      BY <2>1, <2>3, <3>1 DEF Open, Stream
    <3>. QED  BY <2>3, <3>1, <3>2 DEF GoodStream, SameGuard
  <2>4. ASSUME NEW next, next = [stream EXCEPT !.cancelled = TRUE]
        PROVE  next \in Stream /\ GoodStream(next) /\ SameGuard(stream, next)
    <3>1. /\ next \in Stream /\ next.phase = stream.phase /\ next.ends = stream.ends
          /\ next.unsent = stream.unsent /\ next.listening = stream.listening
          /\ next.channel = stream.channel
      BY <2>1, <2>4 DEF Open, Stream
    <3>. QED  BY <3>1 DEF GoodStream, SameGuard
  <2>5. ASSUME NEW next,
               next = [stream EXCEPT !.listening = FALSE, !.channel = << >>, !.cancelled = TRUE]
        PROVE  next \in Stream /\ GoodStream(next) /\ SameGuard(stream, next)
    <3>1. /\ next \in Stream /\ next.phase = stream.phase /\ next.ends = stream.ends
          /\ next.unsent = stream.unsent /\ ~next.listening
      BY <2>1, <2>2, <2>5 DEF Open, Stream
    <3>. QED  BY <3>1 DEF GoodStream, SameGuard
  <2>6. \/ /\ stream.channel # << >>
           /\ TaskStep(turn, [stream EXCEPT !.channel = Tail(stream.channel)])
        \/ TaskStep(turn, [stream EXCEPT !.cancelled = TRUE])
        \/ TaskStep(turn, [stream EXCEPT !.listening = FALSE, !.channel = << >>, !.cancelled = TRUE])
    BY <1>5 DEF Receive, Cancel, DropStream
  <2>. HIDE DEF stream
  <2>. QED  BY <2>3, <2>4, <2>5, <2>6 DEF stream
<1>. QED  BY <1>2, <1>3, <1>4, <1>5

-----------------------------------------------------------------------------
(* The inductive invariant.                                                 *)

\* NothingLeaks of one turn.
Guarded(turn) ==
    /\ leases[turn] # NoKey <=> streams[turn].phase \in GuardPhases
    /\ turn \in limiter.held => streams[turn].phase \notin FreePhases

EngineInv ==
    /\ EngineTypeOK
    /\ \A turn \in Turns : Guarded(turn) /\ GoodStream(streams[turn])

\* Every step of a stream, or of the task behind it.
LEMMA StreamKeepsInv ==
    ASSUME EngineInv, NEW turn \in Turns, Streaming(turn)
    PROVE  /\ streams' \in [Turns -> Stream] /\ limiter' \in [size : Nat \ {0}, held : SUBSET Turns]
           /\ \A t \in Turns : Guarded(t)' /\ GoodStream(streams'[t])
<1>. DEFINE stream == streams[turn]
            Kept == /\ streams' \in [Turns -> Stream]
                    /\ limiter' \in [size : Nat \ {0}, held : SUBSET Turns]
                    /\ \A t \in Turns : Guarded(t)' /\ GoodStream(streams'[t])
<1>. SUFFICES Kept
  OBVIOUS
<1>0. /\ streams \in [Turns -> Stream] /\ stream \in Stream
      /\ limiter \in [size : Nat \ {0}, held : SUBSET Turns]
      /\ leases \in [Turns -> Keys \union {NoKey}]
      /\ NoKey \notin Keys
      /\ \A t \in Turns : Guarded(t) /\ GoodStream(streams[t])
      /\ Guarded(turn) /\ GoodStream(stream)
  BY ResidentSetAssumption DEF EngineInv, EngineTypeOK, TypeOK
\* A step says what becomes of its own stream, lease and permit.
<1>1. ASSUME NEW next \in Stream, NEW lease, GoodStream(next),
             streams' = [streams EXCEPT ![turn] = next],
             leases' = [leases EXCEPT ![turn] = lease],
             limiter' \in [size : Nat \ {0}, held : SUBSET Turns],
             limiter'.held \subseteq limiter.held \union {turn},
             lease # NoKey <=> next.phase \in GuardPhases,
             turn \in limiter'.held => next.phase \notin FreePhases
      PROVE  Kept
  <2>1. streams' \in [Turns -> Stream] /\ streams'[turn] = next /\ leases'[turn] = lease
    BY <1>0, <1>1
  <2>2. \A t \in Turns \ {turn} : /\ streams'[t] = streams[t] /\ leases'[t] = leases[t]
                                  /\ t \in limiter'.held => t \in limiter.held
    BY <1>0, <1>1
  <2>. QED  BY <1>0, <1>1, <2>1, <2>2 DEF Guarded
<1>3. leases = [leases EXCEPT ![turn] = leases[turn]]
  BY <1>0
<1>4. NoStream \in Stream /\ GoodStream(NoStream)
      /\ NoStream.phase \notin GuardPhases
  BY DEF Stream, GoodStream, NoStream, GuardPhases
<1>5. PermitReturned(turn) => /\ limiter' \in [size : Nat \ {0}, held : SUBSET Turns]
                              /\ limiter'.held \subseteq limiter.held /\ turn \notin limiter'.held
  BY <1>0 DEF PermitReturned
<1>. HIDE DEF Kept
<1>6. ASSUME NEW class \in Classes, Resolve(turn, class)
      PROVE  Kept
  <2>1. PICK key \in Keys : streams' = [streams EXCEPT ![turn] = [phase |-> "resolved", key |-> key]]
    BY <1>6 DEF Resolve
  <2>. DEFINE next == [phase |-> "resolved", key |-> key]
  <2>2. next \in Stream /\ next.phase = "resolved" /\ GoodStream(next)
    BY DEF Stream, GoodStream
  <2>3. stream.phase = "none" /\ leases' = leases /\ limiter' = limiter
    BY <1>6 DEF Resolve, vars
  <2>4. leases[turn] = NoKey /\ turn \notin limiter.held
    BY <1>0, <2>3 DEF Guarded, GuardPhases, FreePhases
  <2>. HIDE DEF next
  <2>. QED  BY <1>0, <1>1, <1>3, <2>1, <2>2, <2>3, <2>4 DEF GuardPhases, next
<1>7. CASE Admit(turn)
  <2>1. stream.phase = "resolved" /\ stream.key \in Keys
        /\ stream = [phase |-> stream.phase, key |-> stream.key]
    BY <1>0, <1>7, StreamKinds DEF Admit
  <2>. DEFINE next == [stream EXCEPT !.phase = "admitted"]
  <2>2. next = [phase |-> "admitted", key |-> stream.key]
    BY <2>1
  <2>3. next \in Stream /\ next.phase = "admitted" /\ GoodStream(next)
    BY <2>1, <2>2 DEF Stream, GoodStream
  <2>4. leases' = leases /\ leases[turn] = NoKey /\ turn \notin limiter.held
    BY <1>0, <1>7, <2>1 DEF Admit, vars, Guarded, GuardPhases, FreePhases
  <2>5. \/ /\ streams' = [streams EXCEPT ![turn] = next]
           /\ limiter' = [limiter EXCEPT !.held = @ \union {turn}]
        \/ streams' = [streams EXCEPT ![turn] = NoStream] /\ limiter' = limiter
    BY <1>7 DEF Admit
  <2>6. /\ limiter' \in [size : Nat \ {0}, held : SUBSET Turns]
        /\ limiter'.held \subseteq limiter.held \union {turn}
    BY <1>0, <2>5
  <2>. HIDE DEF next, stream
  <2>7. CASE streams' = [streams EXCEPT ![turn] = next]
    BY <1>1, <1>3, <2>3, <2>4, <2>6, <2>7 DEF GuardPhases, FreePhases
  <2>8. CASE streams' = [streams EXCEPT ![turn] = NoStream] /\ limiter' = limiter
    BY <1>1, <1>3, <1>4, <2>4, <2>6, <2>8
  <2>. QED  BY <2>5, <2>7, <2>8
<1>8. CASE Lease(turn)
  <2>1. stream.phase = "admitted" /\ stream.key \in Keys
    BY <1>0, <1>8, StreamKinds DEF Lease
  <2>2. leases[turn] = NoKey
    BY <1>0, <2>1 DEF Guarded, GuardPhases
  <2>. DEFINE next == Opened(stream.key)
  <2>3. next \in Stream /\ next.phase = "leased" /\ GoodStream(next)
    <3>1. << >> \in Seq(Chunk)
      OBVIOUS
    <3>. QED  BY <2>1, <3>1 DEF Opened, Stream, GoodStream
  <2>4. \/ /\ streams' = [streams EXCEPT ![turn] = next] /\ limiter' = limiter
           /\ leases' = [leases EXCEPT ![turn] = stream.key]
        \/ /\ streams' = [streams EXCEPT ![turn] = NoStream] /\ PermitReturned(turn)
           /\ leases' = leases
    BY <1>8 DEF Lease, AcquireTurnLease, vars
  <2>5. stream.key # NoKey
    BY <1>0, <2>1
  <2>. HIDE DEF next, stream
  <2>6. CASE /\ streams' = [streams EXCEPT ![turn] = next] /\ limiter' = limiter
             /\ leases' = [leases EXCEPT ![turn] = stream.key]
    <3>1. /\ limiter' \in [size : Nat \ {0}, held : SUBSET Turns]
          /\ limiter'.held \subseteq limiter.held \union {turn}
      BY <1>0, <2>6
    <3>. QED  BY <1>1, <2>3, <2>5, <2>6, <3>1 DEF GuardPhases, FreePhases
  <2>7. CASE streams' = [streams EXCEPT ![turn] = NoStream] /\ PermitReturned(turn) /\ leases' = leases
    <3>1. limiter'.held \subseteq limiter.held \union {turn}
      BY <1>5, <2>7
    <3>. QED  BY <1>1, <1>3, <1>4, <1>5, <2>2, <2>7, <3>1
  <2>. QED  BY <2>4, <2>6, <2>7
<1>9. CASE BuildFails(turn)
  <2>1. /\ streams' = [streams EXCEPT ![turn] = NoStream] /\ PermitReturned(turn)
        /\ leases' = [leases EXCEPT ![turn] = NoKey]
    BY <1>9 DEF BuildFails, ReleaseTurn
  <2>2. limiter'.held \subseteq limiter.held \union {turn}
    BY <1>5, <2>1
  <2>. QED  BY <1>1, <1>4, <1>5, <2>1, <2>2
<1>10. CASE Spawn(turn) \/ GuardReleases(turn) \/ GuardReturnsPermit(turn)
  <2>1. stream \in Open
    BY <1>0, <1>10, StreamKinds DEF Spawn, GuardReleases, GuardReturnsPermit
  <2>2. ASSUME NEW p \in {"starting", "unleased", "over"}, NEW next,
               next = [stream EXCEPT !.phase = p]
        PROVE  /\ next \in Stream /\ next.phase = p /\ next.ends = stream.ends
               /\ next.channel = stream.channel /\ next.listening = stream.listening
    BY <2>1, <2>2 DEF Open, Stream
  <2>3. CASE Spawn(turn)
    <3>. DEFINE next == [stream EXCEPT !.phase = "starting"]
    <3>1. next \in Stream /\ next.phase = "starting" /\ next.ends = stream.ends
      BY <2>2
    <3>2. /\ streams' = [streams EXCEPT ![turn] = next] /\ stream.phase = "leased"
          /\ leases' = leases /\ limiter' = limiter
      BY <2>3 DEF Spawn, vars
    <3>3. stream.ends = 0 /\ leases[turn] # NoKey
      BY <1>0, <3>2 DEF GoodStream, Guarded, GuardPhases
    <3>. HIDE DEF next, stream
    <3>4. GoodStream(next)
      BY <3>1, <3>3 DEF GoodStream
    <3>5. /\ limiter' \in [size : Nat \ {0}, held : SUBSET Turns]
          /\ limiter'.held \subseteq limiter.held \union {turn}
      BY <1>0, <3>2
    <3>. QED  BY <1>1, <1>3, <3>1, <3>2, <3>3, <3>4, <3>5 DEF GuardPhases, FreePhases
  <2>4. CASE GuardReleases(turn)
    <3>. DEFINE next == [stream EXCEPT !.phase = "unleased"]
    <3>1. /\ next \in Stream /\ next.phase = "unleased" /\ next.ends = stream.ends
          /\ next.channel = stream.channel /\ next.listening = stream.listening
      BY <2>2
    <3>2. /\ streams' = [streams EXCEPT ![turn] = next] /\ stream.phase = "ending"
          /\ leases' = [leases EXCEPT ![turn] = NoKey] /\ limiter' = limiter
      BY <2>4 DEF GuardReleases, ReleaseTurn
    <3>. HIDE DEF next
    <3>3. GoodStream(next)
      BY <1>0, <3>1, <3>2 DEF GoodStream
    <3>4. /\ limiter' \in [size : Nat \ {0}, held : SUBSET Turns]
          /\ limiter'.held \subseteq limiter.held \union {turn}
      BY <1>0, <3>2
    <3>. QED  BY <1>1, <3>1, <3>2, <3>3, <3>4 DEF GuardPhases, FreePhases
  <2>5. CASE GuardReturnsPermit(turn)
    <3>. DEFINE next == [stream EXCEPT !.phase = "over"]
    <3>1. /\ next \in Stream /\ next.phase = "over" /\ next.ends = stream.ends
          /\ next.channel = stream.channel /\ next.listening = stream.listening
      BY <2>2
    <3>2. /\ streams' = [streams EXCEPT ![turn] = next] /\ stream.phase = "unleased"
          /\ leases' = leases /\ PermitReturned(turn)
      BY <2>5 DEF GuardReturnsPermit, vars
    <3>3. leases[turn] = NoKey
      BY <1>0, <3>2 DEF Guarded, GuardPhases
    <3>. HIDE DEF next
    <3>4. GoodStream(next)
      BY <1>0, <3>1, <3>2 DEF GoodStream
    <3>5. limiter'.held \subseteq limiter.held \union {turn}
      BY <1>5, <3>2
    <3>. QED  BY <1>1, <1>3, <1>5, <3>1, <3>2, <3>3, <3>4, <3>5 DEF GuardPhases
  <2>. QED  BY <1>10, <2>3, <2>4, <2>5
<1>11. ASSUME \/ Read(turn) \/ Start(turn) \/ SeeCancel(turn) \/ Send(turn)
              \/ Receive(turn) \/ Cancel(turn) \/ DropStream(turn) \/ Forget(turn)
       PROVE  Kept
  <2>1. PICK next \in Stream :
            TaskStep(turn, next) /\ GoodStream(next) /\ SameGuard(stream, next)
    BY <1>0, <1>11, TaskKeepsGood DEF EngineInv
  <2>2. streams' = [streams EXCEPT ![turn] = next] /\ leases' = leases /\ limiter' = limiter
    BY <2>1 DEF TaskStep, vars
  <2>3. /\ leases[turn] # NoKey <=> next.phase \in GuardPhases
        /\ turn \in limiter.held => next.phase \notin FreePhases
    BY <1>0, <2>1 DEF SameGuard, Guarded
  <2>4. limiter' \in [size : Nat \ {0}, held : SUBSET Turns]
        /\ limiter'.held \subseteq limiter.held \union {turn}
    BY <1>0, <2>2
  <2>. QED  BY <1>1, <1>3, <2>1, <2>2, <2>3, <2>4
<1>. QED  BY <1>6, <1>7, <1>8, <1>9, <1>10, <1>11 DEF Streaming, Task

\* An install moves no stream and no lease; a new limiter starts with no permit out.
LEMMA InstallKeepsInv ==
    ASSUME EngineInv, NEW i \in Installers, Installing(i)
    PROVE  /\ installs' \in [Installers -> Install] /\ models' \subseteq Keys
           /\ limiter' \in [size : Nat \ {0}, held : SUBSET Turns]
           /\ limiter'.held \subseteq limiter.held
           /\ streams' = streams /\ leases' = leases
<1>0. /\ installs \in [Installers -> Install] /\ models \subseteq Keys
      /\ limiter \in [size : Nat \ {0}, held : SUBSET Turns]
      /\ NoInstall \in Install /\ installs[i] \in Install
  BY DEF EngineInv, EngineTypeOK, Install
<1>1. /\ installs[i].phase \in {"reading", "loaded"} =>
            installs[i].key \in Keys /\ [installs[i] EXCEPT !.phase = "loaded"] \in Install
      /\ installs[i].phase = "resizing" => installs[i].size \in Nat \ {0}
  <2>1. CASE installs[i] \in [phase : {"reading", "loaded"}, key : Keys]
    BY <2>1 DEF Install
  <2>2. CASE installs[i] \notin [phase : {"reading", "loaded"}, key : Keys]
    BY <1>0, <2>2 DEF Install, NoInstall
  <2>. QED  BY <2>1, <2>2
<1>2. \A new \in Install : [installs EXCEPT ![i] = new] \in [Installers -> Install]
  BY <1>0
<1>3. ASSUME NEW req \in Requests, BeginInstall(i, req)
      PROVE  installs' \in [Installers -> Install] /\ leases' = leases
             /\ UNCHANGED <<models, limiter, streams>>
  <2>1. req.key \in Keys
    BY ResidentSetAssumption DEF Request
  <2>2. [phase |-> "reading", key |-> req.key] \in Install
    BY <2>1 DEF Install
  <2>. QED  BY <1>0, <1>2, <1>3, <2>2 DEF BeginInstall, BeginLoad
<1>4. CASE SpecFails(i)
  BY <1>0, <1>2, <1>4 DEF SpecFails, vars
<1>5. CASE ReadingFails(i)
  BY <1>0, <1>2, <1>5 DEF ReadingFails, FailLoad, vars
<1>6. CASE ReadingEnds(i)
  <2>1. \/ installs' = [installs EXCEPT ![i] = NoInstall]
        \/ installs' = [installs EXCEPT ![i] = [installs[i] EXCEPT !.phase = "loaded"]]
    BY <1>6 DEF ReadingEnds
  <2>2. installs' \in [Installers -> Install]
    BY <1>0, <1>1, <1>2, <1>6, <2>1 DEF ReadingEnds
  <2>3. leases' = leases /\ UNCHANGED <<models, limiter, streams>>
    BY <1>6 DEF ReadingEnds, FinishLoad, vars
  <2>. QED  BY <1>0, <2>2, <2>3
<1>7. CASE RegisterModel(i)
  <2>. DEFINE size == SequencesFor(FreeIn(slots))
  <2>1. FreeIn(slots) \in Nat
    BY MonusType, ResidentSetAssumption DEF FreeIn
  <2>2. size \in Nat \ {0}
    BY <2>1, SequencesType
  <2>3. [phase |-> "resizing", size |-> size] \in Install
    BY <2>2 DEF Install
  <2>4. /\ installs' = [installs EXCEPT ![i] = [phase |-> "resizing", size |-> size]]
        /\ models' = models \union {installs[i].key} /\ installs[i].phase = "loaded"
        /\ UNCHANGED <<vars, limiter, streams>>
    BY <1>7 DEF RegisterModel
  <2>. HIDE DEF size
  <2>. QED  BY <1>0, <1>1, <1>2, <2>3, <2>4 DEF vars
<1>8. CASE ResizeLimiter(i)
  <2>1. /\ installs' = [installs EXCEPT ![i] = NoInstall] /\ installs[i].phase = "resizing"
        /\ limiter' = [size |-> installs[i].size, held |-> {}]
        /\ UNCHANGED <<vars, models, streams>>
    BY <1>8 DEF ResizeLimiter
  <2>. QED  BY <1>0, <1>1, <1>2, <2>1 DEF vars
<1>. QED  BY <1>0, <1>3, <1>4, <1>5, <1>6, <1>7, <1>8 DEF Installing

LEMMA EngineInitInv == EngineInit => EngineInv
<1>. SUFFICES ASSUME EngineInit PROVE EngineInv
  OBVIOUS
<1>1. TypeOK
  BY InitType DEF EngineInit
<1>2. NoInstall \in Install /\ NoStream \in Stream
  BY DEF Install, Stream
<1>3. EngineTypeOK
  BY <1>1, <1>2 DEF EngineInit, EngineTypeOK
<1>4. \A turn \in Turns : Guarded(turn) /\ GoodStream(streams[turn])
  BY DEF EngineInit, Init, Guarded, GoodStream, NoStream, GuardPhases
<1>. QED  BY <1>3, <1>4 DEF EngineInv

LEMMA EngineStepInv == EngineInv /\ [EngineNext]_engineVars => EngineInv'
<1>. SUFFICES ASSUME EngineInv, [EngineNext]_engineVars PROVE EngineInv'
  OBVIOUS
<1>0. /\ EngineTypeOK /\ TypeOK /\ installs \in [Installers -> Install] /\ models \subseteq Keys
      /\ limiter \in [size : Nat \ {0}, held : SUBSET Turns] /\ streams \in [Turns -> Stream]
      /\ \A turn \in Turns : Guarded(turn) /\ GoodStream(streams[turn])
  BY DEF EngineInv, EngineTypeOK
<1>1. TypeOK'
  BY <1>0, StepIsMethod, StepType
<1>2. ASSUME NEW i \in Installers, Installing(i)
      PROVE  EngineInv'
  <2>1. /\ installs' \in [Installers -> Install] /\ models' \subseteq Keys
        /\ limiter' \in [size : Nat \ {0}, held : SUBSET Turns]
        /\ limiter'.held \subseteq limiter.held
        /\ streams' = streams /\ leases' = leases
    BY <1>2, InstallKeepsInv
  <2>2. EngineTypeOK'
    BY <1>0, <1>1, <2>1 DEF EngineTypeOK
  <2>3. \A turn \in Turns : Guarded(turn)' /\ GoodStream(streams'[turn])
    BY <1>0, <2>1 DEF Guarded
  <2>. QED  BY <2>2, <2>3 DEF EngineInv
<1>3. ASSUME NEW turn \in Turns, Streaming(turn)
      PROVE  EngineInv'
  <2>1. /\ streams' \in [Turns -> Stream] /\ limiter' \in [size : Nat \ {0}, held : SUBSET Turns]
        /\ \A t \in Turns : Guarded(t)' /\ GoodStream(streams'[t])
    BY <1>3, StreamKeepsInv
  <2>2. installs' = installs /\ models' = models
    BY <1>3 DEF Streaming, Task, TaskStep, Resolve, Admit, Lease, BuildFails, Spawn, Read, Start,
                SeeCancel, Send, GuardReleases, GuardReturnsPermit, Receive, Cancel, DropStream,
                Forget
  <2>3. EngineTypeOK'
    BY <1>0, <1>1, <2>1, <2>2 DEF EngineTypeOK
  <2>. QED  BY <2>1, <2>3 DEF EngineInv
<1>4. CASE UNCHANGED engineVars
  <2>1. EngineTypeOK'
    BY <1>0, <1>1, <1>4 DEF EngineTypeOK, engineVars
  <2>2. \A turn \in Turns : Guarded(turn)' /\ GoodStream(streams'[turn])
    BY <1>0, <1>4 DEF Guarded, engineVars, vars
  <2>. QED  BY <2>1, <2>2 DEF EngineInv
<1>. QED  BY <1>2, <1>3, <1>4 DEF EngineNext

THEOREM EngineInvariant == EngineSpec => []EngineInv
BY EngineInitInv, EngineStepInv, PTL DEF EngineSpec

-----------------------------------------------------------------------------
(* What follows.                                                            *)

\* Installs, the limiter and every stream keep their kinds, for any number of them
\* (install, run, Guard).
THEOREM EngineTypeCorrect == EngineSpec => []EngineTypeOK
BY EngineInvariant, PTL DEF EngineInv

\* The engine changes the resident set by its methods only, so it implements the
\* resident set's most general client and inherits every theorem about it.
THEOREM ResidentSetUsed == EngineSpec => UsesResidentSet
<1>1. EngineInit => Init
  BY DEF EngineInit
<1>2. EngineInv /\ [EngineNext]_engineVars => [Next]_vars
  BY StepIsMethod DEF EngineInv
<1>. QED  BY <1>1, <1>2, EngineInvariant, PTL DEF EngineSpec, UsesResidentSet

\* A turn of the engine generates on a loaded model only: inherited.
THEOREM EngineLeaseKeepsModel == EngineSpec => []LeasedIsLoaded
BY ResidentSetUsed, LeaseKeepsModel, PTL DEF Spec, UsesResidentSet

\* On every path through run and its task a lease and a permit are held exactly
\* while a guard that will give them back is alive (Guard, cancel_leak).
THEOREM GuardGivesBack == EngineSpec => []NothingLeaks
<1>1. EngineInv => NothingLeaks
  BY DEF EngineInv, NothingLeaks, Guarded, GuardPhases, FreePhases
<1>. QED  BY <1>1, EngineInvariant, PTL

\* A caller who reads a stream to its end is told so once, and last, whatever the
\* model answers (run, response::map).
THEOREM EndingToldOnce == EngineSpec => []ToldOnce
<1>1. EngineInv => ToldOnce
  BY DEF EngineInv, ToldOnce, GoodStream
<1>. QED  BY <1>1, EngineInvariant, PTL
=============================================================================
