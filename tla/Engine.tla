-------------------------------- MODULE Engine --------------------------------
(***************************************************************************)
(* The engine of dark-engine around its resident set: installing a model, *)
(* routing a request to it, and the task that generates for one stream.   *)
(* Source: crates/dark-engine/src/{lib.rs, stream/{live,concurrency,       *)
(* response,request}.rs}.                                                  *)
(*                                                                         *)
(* Every method takes its locks one after another, so a method is one      *)
(* action per lock it takes.  A stream is the reading half a caller holds, *)
(* a bounded channel, and a spawned task that writes it; the task owns the *)
(* guard that gives back the lease and the permit.  What the model says is *)
(* abstracted to whether a response ends the generation.                   *)
(***************************************************************************)
EXTENDS ResidentSet, SequencesExt

CONSTANTS
    Installers,  \* the callers of install
    Capacity,    \* CHANNEL_CAPACITY
    PerSequence, \* NOMINAL_SEQUENCE_BYTES
    Responses    \* what one response maps to: sequences of chunks

ASSUME EngineAssumption ==
    /\ Capacity \in Nat \ {0}
    /\ PerSequence \in Nat
    /\ Responses \subseteq Seq({"chunk", "done"}) \ {<< >>}
    \* map pushes Done last.
    /\ \A chunks \in Responses : \A i \in 1..(Len(chunks) - 1) : chunks[i] = "chunk"

VARIABLES
    installs, \* where each install stands, and for which request
    models,   \* the keys a model is registered for; never unregistered
    limiter,  \* the current limiter: its size and the turns with its permits
    streams   \* the stream of each turn

engineVars == <<vars, installs, models, limiter, streams>>

NoInstall == [phase |-> "idle"]

\* ends is history: how many endings the task has put in the channel.
NoStream == [phase |-> "none"]

Opened(key) ==
    [phase |-> "leased", key |-> key, unsent |-> << >>, channel |-> << >>,
     listening |-> TRUE, cancelled |-> FALSE, ends |-> 0]

\* max_concurrent_sequences.
SequencesFor(free) ==
    IF PerSequence = 0 THEN 1 ELSE Max({free \div PerSequence, 1})

EngineInit ==
    /\ Init
    /\ installs = [i \in Installers |-> NoInstall]
    /\ models = {}
    /\ limiter = [size |-> 1, held |-> {}]
    /\ streams = [turn \in Turns |-> NoStream]

-----------------------------------------------------------------------------
(* Installing a model.                                                     *)

BeginInstall(i, req) ==
    /\ installs[i].phase = "idle"
    /\ MayBegin
    /\ LET plan == Plan(req)
       IN  /\ BeginLoad(req, plan)
           /\ installs' = [installs EXCEPT ![i] =
                              IF plan.kind \in {"fits", "present"}
                              THEN [phase |-> "reading", key |-> req.key]
                              ELSE NoInstall]
    /\ UNCHANGED <<models, limiter, streams>>

\* The directory does not hold the files its format needs: install returns before
\* the match that would release the reservation.
SpecFails(i) ==
    /\ installs[i].phase = "reading"
    /\ installs' = [installs EXCEPT ![i] = NoInstall]
    /\ UNCHANGED <<vars, models, limiter, streams>>

\* Mutant of ReadingFails: whatever the slot holds is thrown away.
FailureDropsSlot(i) ==
    /\ installs[i].phase = "reading"
    /\ LET key == installs[i].key
       IN  /\ slots' = [slots EXCEPT ![key] = NoSlot]
           /\ lru' = Removed(lru, {key})
    /\ UNCHANGED <<pinned, leases>>
    /\ installs' = [installs EXCEPT ![i] = NoInstall]
    /\ UNCHANGED <<models, limiter, streams>>

\* The weights, or the tokenizer, could not be read.  fail_load refuses a slot
\* that is not loading, and its refusal is ignored.
ReadingFails(i) ==
    /\ installs[i].phase = "reading"
    /\ LET key == installs[i].key
       IN  \/ FailLoad(key)
           \/ slots[key].state # "loading" /\ UNCHANGED vars
    /\ installs' = [installs EXCEPT ![i] = NoInstall]
    /\ UNCHANGED <<models, limiter, streams>>

\* finish_load refuses a slot another install of the key has finished or failed.
ReadingEnds(i) ==
    /\ installs[i].phase = "reading"
    /\ LET key == installs[i].key
       IN  \/ /\ FinishLoad(key, slots[key].bytes)
              /\ installs' = [installs EXCEPT ![i].phase = "loaded"]
           \/ /\ slots[key].state # "loading"
              /\ installs' = [installs EXCEPT ![i] = NoInstall]
              /\ UNCHANGED vars
    /\ UNCHANGED <<models, limiter, streams>>

\* The model becomes answerable, and the room left is read for resize_limiter.
RegisterModel(i) ==
    /\ installs[i].phase = "loaded"
    /\ models' = models \union {installs[i].key}
    /\ installs' = [installs EXCEPT ![i] =
                       [phase |-> "resizing", size |-> SequencesFor(FreeIn(slots))]]
    /\ UNCHANGED <<vars, limiter, streams>>

\* A new limiter replaces the old one, whose permits count no more.
ResizeLimiter(i) ==
    /\ installs[i].phase = "resizing"
    /\ limiter' = [size |-> installs[i].size, held |-> {}]
    /\ installs' = [installs EXCEPT ![i] = NoInstall]
    /\ UNCHANGED <<vars, models, streams>>

-----------------------------------------------------------------------------
(* Starting a stream.                                                      *)

\* key_for_class, under the first lock of resolve.
Resolve(turn, class) ==
    /\ streams[turn].phase = "none"
    /\ \E key \in Keys :
          /\ slots[key].state = "loaded" /\ class \in slots[key].classes
          /\ streams' = [streams EXCEPT ![turn] = [phase |-> "resolved", key |-> key]]
    /\ UNCHANGED <<vars, installs, models, limiter>>

\* The registered model, then the permit: refused without one of them.
Admit(turn) ==
    /\ streams[turn].phase = "resolved"
    /\ IF /\ streams[turn].key \in models
          /\ Cardinality(limiter.held) < limiter.size
       THEN /\ limiter' = [limiter EXCEPT !.held = @ \union {turn}]
            /\ streams' = [streams EXCEPT ![turn].phase = "admitted"]
       ELSE /\ streams' = [streams EXCEPT ![turn] = NoStream]
            /\ UNCHANGED limiter
    /\ UNCHANGED <<vars, installs, models>>

PermitReturned(turn) == limiter' = [limiter EXCEPT !.held = @ \ {turn}]

\* acquire_turn_lease; without it the permit goes back and the request is refused.
Lease(turn) ==
    /\ streams[turn].phase = "admitted"
    /\ LET key == streams[turn].key
       IN  \/ /\ AcquireTurnLease(turn, key)
              /\ streams' = [streams EXCEPT ![turn] = Opened(key)]
              /\ UNCHANGED limiter
           \/ /\ slots[key].state # "loaded"
              /\ streams' = [streams EXCEPT ![turn] = NoStream]
              /\ PermitReturned(turn)
              /\ UNCHANGED vars
    /\ UNCHANGED <<installs, models>>

\* Mutant of BuildFails: the guard is made after the request is built.
BuildFailsUnguarded(turn) ==
    /\ streams[turn].phase = "leased"
    /\ streams' = [streams EXCEPT ![turn] = NoStream]
    /\ UNCHANGED <<vars, limiter, installs, models>>

\* The request names a tool it does not offer: the guard drops with run.
BuildFails(turn) ==
    /\ streams[turn].phase = "leased"
    /\ ReleaseTurn(turn)
    /\ PermitReturned(turn)
    /\ streams' = [streams EXCEPT ![turn] = NoStream]
    /\ UNCHANGED <<installs, models>>

Spawn(turn) ==
    /\ streams[turn].phase = "leased"
    /\ streams' = [streams EXCEPT ![turn].phase = "starting"]
    /\ UNCHANGED <<vars, installs, models, limiter>>

-----------------------------------------------------------------------------
(* The task.                                                               *)

TaskStep(turn, next) ==
    /\ streams' = [streams EXCEPT ![turn] = next]
    /\ UNCHANGED <<vars, installs, models, limiter>>

Sending(stream, chunks) == [stream EXCEPT !.phase = "sending", !.unsent = chunks]

Start(turn) ==
    /\ streams[turn].phase = "starting"
    /\ \/ TaskStep(turn, [streams[turn] EXCEPT !.phase = "reading"])
       \/ TaskStep(turn, Sending(streams[turn], <<"error">>))

\* The next response, mapped; a generation that stops by itself ends the stream.
\* A response that maps to no chunk is no step.
\* The select is biased: a cancelled token is seen before a response.
Read(turn) ==
    /\ streams[turn].phase = "reading" /\ ~streams[turn].cancelled
    /\ \E chunks \in Responses \union {<<"done">>} :
          TaskStep(turn, Sending(streams[turn], chunks))

SeeCancel(turn) ==
    /\ streams[turn].phase = "reading" /\ streams[turn].cancelled
    /\ TaskStep(turn, Sending(streams[turn], <<"done">>))

Ending(chunk) == chunk \in {"done", "error"}

\* Mutant of AfterSend: the task reads on after a response that ended it.
AlwaysReadsOn(stream, chunk) ==
    IF Tail(stream.unsent) # << >> THEN "sending" ELSE "reading"

\* Where the task goes once chunk, the first of unsent, is in the channel.
AfterSend(stream, chunk) ==
    CASE Tail(stream.unsent) # << >> -> "sending"
      [] Tail(stream.unsent) = << >> /\ Ending(chunk) -> "ending"
      [] OTHER -> "reading"

\* A full channel holds the task here, and no cancellation is looked at.
Send(turn) ==
    LET stream == streams[turn]
        chunk == Head(stream.unsent)
    IN  /\ stream.phase = "sending"
        /\ \/ /\ ~stream.listening
              /\ TaskStep(turn, [stream EXCEPT !.phase = "ending", !.unsent = << >>])
           \/ /\ stream.listening /\ Len(stream.channel) < Capacity
              /\ TaskStep(turn,
                    [stream EXCEPT !.phase = AfterSend(stream, chunk),
                                   !.channel = Append(@, chunk),
                                   !.unsent = Tail(@),
                                   !.ends = IF Ending(chunk) THEN @ + 1 ELSE @])

\* The guard drops: release_turn, then the permit, and the sender after both.
GuardReleases(turn) ==
    /\ streams[turn].phase = "ending"
    /\ ReleaseTurn(turn)
    /\ streams' = [streams EXCEPT ![turn].phase = "unleased"]
    /\ UNCHANGED <<installs, models, limiter>>

GuardReturnsPermit(turn) ==
    /\ streams[turn].phase = "unleased"
    /\ PermitReturned(turn)
    /\ streams' = [streams EXCEPT ![turn].phase = "over"]
    /\ UNCHANGED <<vars, installs, models>>

-----------------------------------------------------------------------------
(* The caller's half.                                                      *)

InHand(turn) ==
    /\ streams[turn].phase \notin {"none", "resolved", "admitted", "leased"}
    /\ streams[turn].listening

Receive(turn) ==
    /\ InHand(turn) /\ streams[turn].channel # << >>
    /\ TaskStep(turn, [streams[turn] EXCEPT !.channel = Tail(@)])

Cancel(turn) ==
    /\ InHand(turn) /\ ~streams[turn].cancelled
    /\ TaskStep(turn, [streams[turn] EXCEPT !.cancelled = TRUE])

\* Mutant of DropStream: dropping the stream does not cancel.
DropQuietly(turn) ==
    /\ InHand(turn)
    /\ TaskStep(turn, [streams[turn] EXCEPT !.listening = FALSE, !.channel = << >>])

DropStream(turn) ==
    /\ InHand(turn)
    /\ TaskStep(turn, [streams[turn] EXCEPT !.listening = FALSE, !.channel = << >>,
                                            !.cancelled = TRUE])

Forget(turn) ==
    /\ streams[turn].phase = "over" /\ ~streams[turn].listening
    /\ TaskStep(turn, NoStream)

-----------------------------------------------------------------------------
Task(turn) ==
    Start(turn) \/ SeeCancel(turn) \/ Send(turn) \/ GuardReleases(turn)
        \/ GuardReturnsPermit(turn)

Installing(i) ==
    \/ \E req \in Requests : BeginInstall(i, req)
    \/ SpecFails(i) \/ ReadingFails(i) \/ ReadingEnds(i)
    \/ RegisterModel(i) \/ ResizeLimiter(i)

Streaming(turn) ==
    \/ \E class \in Classes : Resolve(turn, class)
    \/ Admit(turn) \/ Lease(turn) \/ BuildFails(turn) \/ Spawn(turn)
    \/ Read(turn) \/ Task(turn)
    \/ Receive(turn) \/ Cancel(turn) \/ DropStream(turn) \/ Forget(turn)

EngineNext ==
    \/ \E i \in Installers : Installing(i)
    \/ \E turn \in Turns : Streaming(turn)

\* The runtime schedules every task; it promises nothing of the model (Read) or
\* of the caller.
EngineSpec ==
    EngineInit /\ [][EngineNext]_engineVars /\ \A turn \in Turns : WF_engineVars(Task(turn))

-----------------------------------------------------------------------------
(* Properties.                                                             *)

Chunk == {"chunk", "done", "error"}

Install == {NoInstall} \union [phase : {"reading", "loaded"}, key : Keys]
           \union [phase : {"resizing"}, size : Nat \ {0}]

Stream == {NoStream} \union [phase : {"resolved", "admitted"}, key : Keys]
          \union [phase : {"leased", "starting", "reading", "sending", "ending", "unleased", "over"},
                  key : Keys, unsent : Seq(Chunk), channel : Seq(Chunk),
                  listening : BOOLEAN, cancelled : BOOLEAN, ends : Nat]

\* Every install, limiter and stream is of its kind.
EngineTypeOK ==
    /\ TypeOK
    /\ installs \in [Installers -> Install]
    /\ models \subseteq Keys
    /\ limiter \in [size : Nat \ {0}, held : SUBSET Turns]
    /\ streams \in [Turns -> Stream]

\* Whatever the engine does to the resident set is a call of the resident set's
\* own methods: no install or stream reaches past them (install, run, Guard).
UsesResidentSet == Init /\ [][Next]_vars

\* A lease and a permit are held exactly while a guard that will give them back
\* is alive, on every path through run and its task (Guard, cancel_leak).
NothingLeaks ==
    \A turn \in Turns :
        /\ leases[turn] # NoKey <=>
               streams[turn].phase \in {"leased", "starting", "reading", "sending", "ending"}
        /\ turn \in limiter.held => streams[turn].phase \notin {"none", "resolved", "over"}

\* A stream says at most once that it ended, and a caller who reads it to its end
\* has been told, last (run, response::map).
ToldOnce ==
    \A turn \in Turns :
        LET stream == streams[turn]
        IN  /\ stream.phase \in {"starting", "reading", "sending"} => stream.ends = 0
            /\ stream.phase \in {"ending", "unleased", "over"} /\ stream.listening =>
                   /\ stream.ends = 1
                   /\ stream.channel # << >> => Ending(Last(stream.channel))

\* A stream its caller dropped gives back its lease and its permit, however
\* silent the model is (CancelOnDrop, the select of run's task).
DroppedIsReleased ==
    \A turn \in Turns :
        (streams[turn].phase \in {"starting", "reading", "sending", "ending", "unleased"}
            /\ ~streams[turn].listening)
        ~> (streams[turn].phase \in {"over", "none"})

\* What install says of a load that failed: memory is reserved only while an
\* install is loading the model it is reserved for (lib.rs).
ReservationHasLoader ==
    \A key \in InFlight :
        \E i \in Installers : installs[i].phase = "reading" /\ installs[i].key = key

\* What live.rs says of Guard: it drops when the stream does.
ReleasedWithStream ==
    \A turn \in Turns :
        streams[turn].phase \in {"starting", "reading", "sending", "ending", "unleased"} =>
            streams[turn].listening
=============================================================================
