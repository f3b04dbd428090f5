---------------------------- MODULE MCRecording ----------------------------
(* Model checking of Recording; and facts about what a person sees of it,  *)
(* which TLC evaluates before a run.                                       *)
EXTENDS Recording, FiniteSetsExt, TLC

View == INSTANCE Screen WITH DarkTransition <- 4

-----------------------------------------------------------------------------
(* The transcript.                                                         *)

Events == {[kind |-> k, text |-> <<"x">>] :
              k \in {"assistant", "reasoning", "call", "result", "user", "budget", "lag"}}

\* Each event shown that is no delta makes a segment, and so does each run of deltas of
\* one kind: nothing is joined over a lag or a result, and an event that is not shown
\* does not divide one (apply_event, push_assistant_text).
ASSUME RunsAreSegments ==
    \A events \in SeqOf(Events, 5) :
        LET seen == SelectSeq(events, LAMBDA e : e.kind \in View!Shown)
            starts == SelectSeq([k \in DOMAIN seen |-> k], LAMBDA k :
                          k = 1 \/ seen[k].kind \notin View!Mergeable \/ seen[k - 1].kind # seen[k].kind)
            segments == View!Transcript(events).segments
        IN  /\ Len(segments) = Len(starts)
            /\ \A j \in DOMAIN starts :
                  /\ segments[j].kind = seen[starts[j]].kind
                  /\ starts[j] + Len(segments[j].text)
                        = IF j = Len(starts) THEN Len(seen) + 1 ELSE starts[j + 1]

\* A window is within the lines and as full as they allow; scrolling back further than
\* there are lines has to be scrolled forward again before anything moves.
ASSUME OverscrollIsRemembered ==
    /\ \A lines, height, back \in 0..6 :
          LET first == View!FirstLine(lines, height, back)
          IN  first >= 0 /\ (lines >= height => first + height <= lines) /\ (lines < height => first = 0)
    /\ \E back \in 1..6 : View!FirstLine(5, 3, back) = View!FirstLine(5, 3, back - 1)

Spans(letters, n) == {s \in SeqOf(letters, n) : s # << >>}
SpanLines == {<<s>> : s \in Spans({"x", " "}, 6)} \union {<<s, r>> : s \in Spans({"x", " "}, 3), r \in Spans({"x", " "}, 4)}
Solid(text) == SelectSeq(text, LAMBDA c : c # " ")

\* A line that is wrapped fits the width and keeps all but its spaces, when no span of it
\* begins with a space (wrap_one, split_at_width).
ASSUME WrappedLinesFit ==
    \A line \in SpanLines : \A width \in 1..4 :
        LET wrapped == View!WrapOne(line, width, 24)
        IN  /\ (\A k \in DOMAIN line : line[k][1] # " ") => wrapped.ended
            /\ wrapped.ended =>
                  /\ \A k \in DOMAIN wrapped.lines : View!Columns(wrapped.lines[k]) <= width
                  /\ Solid(FlattenSeq(wrapped.lines)) = Solid(FlattenSeq(line))

\* A word of one span that fits on a line is on one line.
ASSUME WordsStayWhole ==
    \A before \in {s \in Spans({"x", " "}, 4) : s[1] # " "} : \A gap, after \in {<< >>, <<" ">>, <<"x">>} :
        \A width \in 2..4 : \A apart \in BOOLEAN :
            LET word == <<"y", "y">>
                line == IF apart THEN <<before, word \o after>> ELSE <<before \o <<" ">> \o word, gap>>
                wrapped == View!WrapOne(line, width, 24)
            IN  \E k \in DOMAIN wrapped.lines : \E j \in 1..(Len(wrapped.lines[k]) - 1) :
                    SubSeq(wrapped.lines[k], j, j + 1) = word

\* One that begins with a space and then a word as wide as the line is never finished, nor
\* is a wide character on one column: each turn adds an empty line and takes nothing away,
\* where wrap.rs:77 says the line holds something already.
ASSUME WrapMayNotEnd ==
    \A case \in {[text |-> <<" ", "x", "x", "x">>, width |-> 3], [text |-> <<"w", "x">>, width |-> 1]} :
        LET start == [rest |-> <<case.text>>, current |-> << >>, out |-> << >>]
        IN  /\ View!WrapStep(start, case.width) = [start EXCEPT !.out = << << >> >>]
            /\ ~View!WrapOne(<<<<"x">>, case.text>>, case.width, 40).ended

Codes == {"0", "1", "5", "38"}
Text(lines) == [k \in DOMAIN lines |-> [j \in DOMAIN lines[k] |-> lines[k][j][1]]]

\* A colour between two texts changes neither, a style lasts over the end of a line, and
\* the numbers of an extended colour are no styles of their own (ansi_to_lines, apply_sgr).
ASSUME ColoursLeaveTheText ==
    /\ \A params \in {p \in SeqOf(Codes \union {";"}, 3) : \A k \in 1..(Len(p) - 1) : p[k] = ";" \/ p[k + 1] = ";"} :
          Text(View!AnsiToLines(<<"x", "esc", "[">> \o params \o <<"m", "x", "newline", "x">>))
              = <<<<"x", "x">>, <<"x">>>>
    /\ \A colour \in {<<"38", ";", "5", ";", "1">>, <<"38", ";", "2", ";", "1", ";", "1", ";", "1">>} :
          \A more \in BOOLEAN :
          LET lines == View!AnsiToLines(<<"esc", "[">> \o colour \o (IF more THEN <<";", "1">> ELSE << >>)
                                        \o <<"m", "x", "newline", "x">>)
          IN  \A k \in 1..2 : lines[k][1][2] = [bold |-> more, coloured |-> TRUE]
    /\ View!AnsiToLines(<<"esc", "[", "1", "m", "x", "esc", "[", "m", "x">>)[1][2][2].bold = FALSE

\* A sequence that is not understood is dropped up to the character that ends it; of one
\* with a question mark the rest is shown, where transcript.rs:262 says it is dropped.
ASSUME PrivateSequencesShow ==
    /\ Text(View!AnsiToLines(<<"x", "esc", "[", "2", "K", "x">>)) = <<<<"x", "x">>>>
    /\ Text(View!AnsiToLines(<<"x", "esc", "[", "?", "2", "l", "x">>)) = <<<<"x", "2", "l", "x">>>>

\* A line of a diff that takes away a line beginning with two dashes is not counted as
\* taken away (classify, removed_count).
ASSUME DashesLookLikeAHeader ==
    /\ \A line \in SeqOf({"-", "+", "@", " "}, 4) :
          (line # << >> /\ line[1] = "-") => View!Classify(line) \in {"removed", "file"}
    /\ \A mark \in {"-", "+"} : View!Classify(<<mark>> \o <<mark, mark, " ", "x">>) = "file"
    /\ View!Classify(<<"-", "+", "x">>) = "removed" /\ View!Classify(<<"+", "-">>) = "added"
    /\ View!Classify(<<"@", "@", " ">>) = "hunk" /\ View!Classify(<<" ", "-">>) = "context"

Values == {<<"x">>, <<"quote", "x", ",", "quote">>, <<"{", "x", ",", "x", "}">>, <<"quote", "[", "quote">>,
           <<"quote", "backslash", "quote", ",", "quote">>, <<"[", "{", "x", "}", ",", "quote", "]", "quote", "]">>}

\* The arguments of a call are divided at the commas between its fields and at no other.
ASSUME FieldsAreDivided ==
    \A one, two, three \in Values :
        View!SplitTopLevel(one \o <<",">> \o two \o <<",">> \o three) = <<one, two, three>>

-----------------------------------------------------------------------------
(* The map.                                                                *)

Tickets == 1..4
Plans == {[destination |-> 1, blockedBy |-> b, outOfScope |-> [t \in Tickets |-> t = 4]] :
             b \in [Tickets -> SUBSET Tickets]}

\* A ticket is further out than every one it blocks, by one ring from the last of them;
\* the destination is at the centre; what leads nowhere is at the edge. Where the tickets
\* before the destination wait for each other it is at the edge itself (longest_path_depths).
ASSUME RingsFollowTheBlocks ==
    \A plan \in Plans :
        LET reachable == View!ReachableToDestination(plan)
            depth == View!LongestPathDepths(plan)
            whole == DOMAIN depth = reachable
            waiters(t) == {c \in reachable : t \in plan.blockedBy[c]}
        IN  /\ whole = (\A t \in reachable : t \notin View!Upstream(plan.blockedBy, plan.blockedBy[t]))
            /\ whole => depth[1] = 0 /\ \A t \in reachable \ {1} :
                            depth[t] = 1 + Max({depth[c] : c \in waiters(t)})
            /\ ~whole => 1 \notin DOMAIN depth /\ View!Radius(plan, 1) = View!FogRadius
            /\ \A t \in Tickets \ reachable :
                  View!Radius(plan, t) = IF t = 4 THEN View!OutOfScopeRadius ELSE View!FogRadius
            /\ \A t \in DOMAIN depth : View!Radius(plan, t) \in 0..100

\* The fog has no ring of its own: a ticket that leads nowhere stands among the first of
\* the tickets to be done.
ASSUME FogSharesTheLastRing ==
    \E plan \in Plans :
        \E t \in DOMAIN View!LongestPathDepths(plan) \ {1} : \E f \in Tickets \ View!ReachableToDestination(plan) :
            View!Radius(plan, t) = View!Radius(plan, f)

Layouts == {{[id |-> t, radius |-> r[t], angle |-> a[t]] : t \in 1..4} :
               r \in [1..4 -> {0, 50, 100}], a \in [1..4 -> {0, 10, 200}]}

\* Going round a ring and back returns to the ticket, all the way round passes each of its
\* ring, and a step in or out lands on the next ring there is (move_around_ring,
\* move_between_rings).
ASSUME KeysReachEveryTicket ==
    \A layout \in Layouts : \A here \in layout :
        LET ring == {p.id : p \in {q \in layout : q.radius = here.radius}}
            around[k \in 0..4] == IF k = 0 THEN here.id ELSE View!MoveAroundRing(layout, around[k - 1], TRUE)
            landing == View!At(layout, View!MoveBetweenRings(layout, here.id, TRUE))
        IN  /\ View!MoveAroundRing(layout, around[1], FALSE) = here.id
            /\ {around[k] : k \in 0..(Cardinality(ring) - 1)} = ring
            /\ \A p \in layout : p.radius > here.radius => p.radius >= landing.radius /\ landing.radius > here.radius
            /\ View!SetMap(layout, here.id) = here.id /\ View!SetMap(layout \ {here}, here.id) = 0
            /\ View!MoveAroundRing(layout \ {here}, View!SetMap(layout \ {here}, here.id), TRUE)
                  = Min({p.id : p \in layout \ {here}})

-----------------------------------------------------------------------------
(* The keys.                                                               *)

Confirm(id) == [kind |-> "confirm", id |-> id]
Inputs == {"y", "n", "x", "enter", "esc", "ctrl-c", "tab", "f1"}
Busy == View!AppEvent(View!NewApp, [kind |-> "turn start", turn |-> 1])
Asked == View!AppEvent(View!AppEvent(Busy, Confirm(1)), Confirm(2))

\* The program's state and what the session has been told, after so many keys.
Pressed(app, keys) ==
    FoldLeft(LAMBDA s, key :
                 LET h == View!HandleKey(s.app, key)
                 IN  [app |-> h.app, told |-> IF h.intent = <<"none">> THEN s.told ELSE Append(s.told, h.intent)],
             [app |-> app, told |-> << >>], keys)
Told(s, what) == SelectSeq(s.told, LAMBDA i : i[1] = what)

\* Prompts are answered in the order they came in and each once, by the keys for it and
\* by no other; the same keys are text again when none is left (handle_confirm_key).
ASSUME PromptsAreAnsweredInOrder ==
    \A keys \in SeqOf(Inputs, 4) :
        LET s == Pressed(Asked, keys)
            answers == Told(s, "confirm")
            given == SelectSeq(keys, LAMBDA key : key \in DOMAIN View!Allow)
        IN  /\ Len(answers) = Min({2, Len(given)})
            /\ \A k \in DOMAIN answers : answers[k] = <<"confirm", k, View!Allow[given[k]]>>
            /\ Len(s.app.prompts) = 2 - Len(answers)

\* A key that answers nothing is not held back while a prompt waits: it is typed, and what
\* was typed can be sent, where keys.rs:46 says a stray keystroke must not be read as text.
ASSUME PromptLetsKeysThrough ==
    LET s == Pressed(Asked, <<"x", "y", "enter">>)
    IN  s.told = <<<<"confirm", 1, "once">>, <<"submit", <<"x">>>>>> /\ s.app.input = << >>

\* During a turn it takes two presses of ctrl-c to quit, with no escape that cancels and
\* no new turn between them (handle_ctrl_c, handle_escape, TurnStart).
ASSUME QuitTakesTwo ==
    \A keys \in SeqOf({"ctrl-c", "esc", "x", "tab"}, 4) : \A again \in 0..Len(keys) :
        LET first == Pressed(Busy, SubSeq(keys, 1, again))
            s == Pressed(View!AppEvent(first.app, [kind |-> "turn start", turn |-> 2]),
                         SubSeq(keys, again + 1, Len(keys)))
            since(k) == Max({0, IF k <= again THEN 0 ELSE again}
                            \union {j \in 1..(k - 1) : keys[j] = "esc"})
        IN  ~first.app.quit =>
                s.app.quit = (\E k \in DOMAIN keys : keys[k] = "ctrl-c" /\ k > again
                                 /\ \E j \in (since(k) + 1)..(k - 1) : keys[j] = "ctrl-c")

\* The end of a turn that is not the one on screen changes nothing; a prompt outlives its
\* turn; one escape does one thing (apply_domain_event, handle_escape).
ASSUME EscapeDoesOneThing ==
    /\ View!AppEvent(Busy, [kind |-> "turn end", turn |-> 2]) = Busy
    /\ View!AppEvent(Asked, [kind |-> "turn end", turn |-> 1]).prompts = <<1, 2>>
    /\ \A app \in {[View!NewApp EXCEPT !.help = h, !.menu = m, !.active = a, !.input = i] :
                      h, m, a \in BOOLEAN, i \in {<< >>, <<"x">>}} :
          LET s == Pressed(app, <<"esc">>)
          IN  Cardinality({f \in {"help", "menu", "input"} : s.app[f] # app[f]}) + Len(s.told)
                  = IF app.active \/ app.help \/ app.menu \/ app.input # << >> THEN 1 ELSE 0

\* Decoration that slow frames take away does not come back: the animation after three of
\* them in a row, the shimmer and the gradient one a slow frame (record, record_frame).
ASSUME SlowFramesAreRemembered ==
    \A slow \in SeqOf(BOOLEAN, 6) :
        LET g == View!Frames(slow)
        IN  /\ g.disabled = (\E k \in 1..(Len(slow) - 2) : slow[k] /\ slow[k + 1] /\ slow[k + 2])
            /\ g.detail = Max({0, 2 - Len(SelectSeq(slow, LAMBDA s : s))})

\* A recording is stepped by its key alone and played by time alone: as long as other
\* input comes in, no event of it is applied (replay.rs, run).
ASSUME InputHoldsPlayback ==
    /\ \A passes \in SeqOf({"step", "other", "in vain"}, 4) :
          /\ View!Played("step", 2, passes) = Min({2, Len(SelectSeq(passes, LAMBDA p : p = "step"))})
          /\ View!Played("play", 2, passes) <= Len(SelectSeq(passes, LAMBDA p : p = "in vain"))
    /\ View!Played("play", 2, <<"other", "step", "other">>) = 0

-----------------------------------------------------------------------------
(* The bars around the transcript, the zones and the Markdown.              *)

TurnStart(n) == [kind |-> "turn start", turn |-> n]
Token(n) == [kind |-> "token", turn |-> n]
TurnOver == [kind |-> "turn end", turn |-> 1, tokens |-> 9, ticks |-> 2]
Lost(n) == [kind |-> "lag", n |-> n]
\* Event k arrives at time k.
BarsAfter(events) ==
    FoldLeft(LAMBDA bars, k : View!ApplyDomainEvent(bars, events[k], k), View!NewBars,
             [k \in DOMAIN events |-> k])
LatestIn(events, kinds) == Max({0} \union {k \in DOMAIN events : events[k].kind \in kinds})

\* Lost output counts against the turn during which the loss is noticed, once, and in the
\* total for good (LagState).
ASSUME LagCountsWhereItIsSeen ==
    \A events \in SeqOf({TurnStart(1), TurnOver, Lost(1), Lost(2)}, 5) :
        LET lost(from) == MapThenSumSet(LAMBDA k : events[k].n,
                                        {k \in from..Len(events) : events[k].kind = "lag"})
            bars == BarsAfter(events)
        IN  /\ bars.total = lost(1)
            /\ bars.dropped = lost(LatestIn(events, {"turn start"}) + 1)

\* The rate is the one of the turn's own usage once it is over, until a token that was
\* overtaken by the end of its turn arrives: from then on it is what the screen counted,
\* over the time that has passed since (record_token, TurnEnd; event.rs: two rings).
ASSUME LateTokenUndoesTheRate ==
    \A events \in SeqOf({TurnStart(1), TurnStart(2), Token(1), Token(2), TurnOver}, 5) :
        LET start == LatestIn(events, {"turn start"})
            own == IF start = 0 THEN {}
                   ELSE {k \in start + 1..Len(events) : events[k].kind # "turn start"
                                                        /\ events[k].turn = events[start].turn}
            tokens == {k \in own : events[k].kind = "token"}
        IN  BarsAfter(events).rate =
                IF own = {} THEN <<0, 1>>
                ELSE IF Max(own) \in tokens THEN <<Cardinality(tokens), Max(own) - start>>
                ELSE <<9, 2>>

\* A load that stops on its way stays in the header, and in the place of what is typed,
\* whatever else happens, until some load, of this model or another, is done.
ASSUME StoppedLoadHidesTyping ==
    LET load(model, progress) == [kind |-> "loading", model |-> model, progress |-> progress]
        others == {TurnStart(1), TurnOver, [kind |-> "budget", used |-> 1, granted |-> 3],
                   [kind |-> "residency", slots |-> <<[model |-> 2, state |-> "loaded"]>>]}
    IN  \A events \in SeqOf(others, 3) : \A model \in 1..2 :
            LET stuck == <<load(1, 50)>> \o events
                bars == BarsAfter(stuck)
            IN  /\ View!CommandBar(bars, <<"x">>) = <<"loading", 1>>
                /\ Head(View!HeaderSpans(bars)) = <<"loading", 1>>
                /\ LET done == BarsAfter(stuck \o <<load(model, 100)>>)
                   IN  /\ View!CommandBar(done, <<"x">>) = <<"typed", <<"x">> >>
                       /\ <<"local", 2>> \in Range(View!HeaderSpans(done)) <=>
                              \E k \in DOMAIN events : events[k].kind = "residency"
                       /\ <<"ctx", 33>> \in Range(View!HeaderSpans(done)) <=>
                              \E k \in DOMAIN events : events[k].kind = "budget"

\* Dark mode fades to its end in its time; but switched back on the way, or off when it is
\* off, it first jumps to the other end (DarkChanged, tick).
ASSUME FadeStartsAtItsEnd ==
    LET switched(bars, dark, now) == View!ApplyDomainEvent(bars, [kind |-> "dark", dark |-> dark], now)
    IN  \A passed \in 0..6 : \A dark \in BOOLEAN :
            LET on == View!Tick(switched(View!NewBars, TRUE, 0), passed)
                then == switched(on, dark, passed)
                shades == [k \in 0..5 |-> View!Tick(then, passed + k).shade]
            IN  /\ on.shade = 25 * Min({4, passed})
                /\ shades[0] = IF dark THEN 0 ELSE 100
                /\ \A k \in 4..5 : shades[k] = IF dark THEN 100 ELSE 0
                /\ \A k \in 1..5 : IF dark THEN shades[k] >= shades[k - 1] ELSE shades[k] <= shades[k - 1]
                /\ on.fading <=> passed < 4

\* A prompt under the help or the menu is not on the screen, and is answered all the same
\* (render; state.rs: "While this holds, the modal covers the panes"). In a turn the key
\* the help names to close it cancels instead.
ASSUME CoveredPromptIsAnswered ==
    LET app == [View!NewApp EXCEPT !.active = TRUE, !.prompts = <<7>>]
        pressed(from, keys) == FoldLeft(LAMBDA a, k : View!HandleKey(a, k).app, from, keys)
    IN  \A keys \in SeqOf({"f1", "f9"}, 3) :
            LET there == pressed(app, keys)
                open == pressed([app EXCEPT !.prompts = << >>], keys)
            IN  /\ View!Overlay(there) = "confirm" <=> ~there.help /\ ~there.menu
                /\ View!HandleKey(there, "y").intent = <<"confirm", 7, "once">>
                /\ View!HandleKey(open, "esc").intent = <<"cancel">>
                /\ View!Overlay(View!HandleKey(open, "esc").app) = View!Overlay(open)

\* Each cell inside the border is in one zone, but for those of the last row that ten equal
\* slots leave over, and none outside is but for the title.
ASSUME CellsHaveOneZone ==
    \A w \in {12, 40, 79, 80, 81, 95} : \A h \in {7, 23, 24} :
        LET zones == View!Zones(w, h)
            at(x, y) == {k \in DOMAIN zones : View!Covers(zones[k][1], x, y)}
            inside(x, y) == x \in 1..w - 2 /\ y \in 1..h - 2 /\ (y = h - 2 => x <= 10 * ((w - 2) \div 10))
        IN  /\ View!HitTest(zones, w - 2, 1) = <<"right">> <=> w >= 80 /\ h >= 24
            /\ \A x \in 0..w : \A y \in 0..h :
                  Cardinality(at(x, y)) = IF inside(x, y) \/ (y = 0 /\ x < w) THEN 1 ELSE 0

\* The labels of the keys are drawn one after the other, and their zones are equal slots:
\* at every width there is a label under which another key lies, or none; and at some, a
\* click on the label of the menu leaves the session in the middle of a turn
\* (render_function_keys: "evenly spaced across the width"; register_function_key_zones).
ASSUME LabelsMissTheirZones ==
    LET hit(w, x) == View!HitTest(View!Zones(w, 24), x, 22)
        column(w, key) == View!LabelColumn(View!Compute(w, 24).keys, key)
        busy == View!WithPanes([View!NewApp EXCEPT !.active = TRUE], "map", "transcript")
    IN  /\ \A w \in 12..200 : \E key \in 1..10 : hit(w, column(w, key)) # <<"key", key>>
        /\ hit(200, column(200, 10)) = <<"key", 4>> /\ hit(80, column(80, 2)) = <<"key", 1>>
        /\ \E w \in 60..80 : \E x \in column(w, 9)..column(w, 9) + 4 :
              View!ActivateZone(busy, hit(w, x)).intent = <<"quit">>

\* Panes come round both ways, and only those of the side in focus (cycle).
ASSUME PanesComeRound ==
    \A moves \in SeqOf(BOOLEAN, 5) : \A focus \in {"left", "right", "command"} :
        LET app == View!WithPanes([View!NewApp EXCEPT !.focus = focus], "map", "transcript")
            after == FoldLeft(View!CycleFocusedPane, app, moves)
            net == (2 * Len(SelectSeq(moves, LAMBDA m : m)) - Len(moves) + 8) % 4
        IN  /\ after.left = IF focus = "left" THEN View!LeftPanes[net + 1] ELSE "map"
            /\ after.right = IF focus = "right" THEN View!RightPanes[net + 1] ELSE "transcript"
            /\ \A side \in {"left", "right"} :
                  View!CycleFocusedPane(View!ActivateZone(after, <<side>>).app, TRUE)[side] # after[side]

\* Of a burst of changes the last map is asked for, once; if it cannot be read the one
\* before the burst stays, although another of the burst could be (take_map_request, run).
ASSUME OnlyTheLastMapIsAsked ==
    \A maps \in SeqOf(1..3, 3) : \A readable \in SUBSET (1..3) :
        LET bars == BarsAfter([k \in DOMAIN maps |-> [kind |-> "map changed", map |-> maps[k]]])
        IN  View!MapDrawn(bars, 9, readable) =
                IF maps # << >> /\ Last(maps) \in readable THEN Last(maps) ELSE 9

Written(spans) == FlattenSeq([k \in DOMAIN spans |-> spans[k][2]])

\* A line loses no letter, only the marks of what they close; a mark that nothing closes
\* leaves the rest of the line as it was written, the marks after it too (render_inline).
ASSUME OpenMarkEndsTheStyles ==
    LET letters(text) == SelectSeq(text, LAMBDA c : c \notin {"g", "*"})
    IN  \A text \in SeqOf({"x", "g", "*"}, 7) :
            LET spans == View!RenderInline(text)
                opens(k) == /\ spans[k][1] = "plain"
                            /\ View!FirstAt(spans[k][2], <<"g">>) # 0
                               \/ View!FirstAt(spans[k][2], <<"*", "*">>) # 0
            IN  /\ letters(Written(spans)) = letters(text)
                /\ \A k \in DOMAIN spans : opens(k) =>
                      k = Len(spans) /\ IsSuffix(spans[k][2], text)
                /\ "*" \notin Range(text) =>
                      Cardinality({k \in DOMAIN Written(spans) : Written(spans)[k] = "g"})
                          = Cardinality({k \in DOMAIN text : text[k] = "g"}) % 2

\* Highlighting changes no line; two slashes begin a comment even in a string
\* (highlight_code_line).
ASSUME SlashesInStringsAreComments ==
    /\ \A line \in SeqOf({"x", "q", "/", " "}, 6) :
          LET spans == View!HighlightCodeLine(line)
              quotes == Len(SelectSeq(line, LAMBDA c : c = "q"))
          IN  /\ Written(spans) = line
              /\ \A k \in DOMAIN spans : spans[k][1] = "word" => Range(spans[k][2]) = {"x"}
              /\ View!FirstAt(line, <<"/", "/">>) = 0 =>
                    Len(SelectSeq(spans, LAMBDA s : s[1] = "string")) = (quotes + 1) \div 2
    /\ View!HighlightCodeLine(<<"q", "/", "/", "q">>) = << <<"string", <<"q">> >>, <<"comment", <<"/", "/", "q">> >> >>

\* A fence changes everything below it, to the next one or the end; a fence that is
\* indented is none, and a word behind a hash is a heading (render_markdown).
ASSUME FenceTakesTheRest ==
    LET fence == <<"g", "g", "g", "x">>
        lines == {fence, <<" ">> \o fence, <<"#", "#", "x">>, <<"-", " ", "x">>, <<"x">>}
        kind == (<<" ">> \o fence) :> "text" @@ <<"#", "#", "x">> :> "heading" @@ <<"-", " ", "x">> :> "item"
                @@ <<"x">> :> "text"
    IN  \A reply \in SeqOf(lines, 4) :
            LET kept == SelectSeq([k \in DOMAIN reply |-> k], LAMBDA k : reply[k] # fence)
                above(k) == Cardinality({j \in 1..k : reply[j] = fence})
                result == View!RenderMarkdown(reply)
            IN  /\ Len(result) = Len(kept)
                /\ \A n \in DOMAIN kept :
                      /\ result[n][1] = IF above(kept[n]) % 2 = 1 THEN "code" ELSE kind[reply[kept[n]]]
                      /\ result[n][1] = "code" => Written(result[n][2]) = reply[kept[n]]
                      /\ result[n][1] = "heading" => Written(result[n][2]) = <<"x">>

-----------------------------------------------------------------------------
(* The files of JSON lines and what is listed of them (dark-core jsonl and  *)
(* telemetry, dark-cli stats and session).                                  *)

Log == INSTANCE Telemetry WITH OpeningWidth <- 4

FileOf(records) == FoldLeft(Log!Written, <<>>, records)

\* What a crash leaves of a line costs that line and no other while it is the last,
\* and costs nothing if only its newline is missing (parse_lines).
ASSUME TornTailCostsOneLine ==
    \A records \in SeqOf(1..2, 3) : \A pieces \in 0..3 :
        LET read == Log!ParseLines(Log!TornAppend(FileOf(records), 3, pieces))
        IN  read.ok /\ read.records = IF pieces < 2 THEN records ELSE Append(records, 3)

\* The file is opened again to append, so what was torn becomes the beginning of the
\* next record's line: that record is lost with it, and one more leaves a file that
\* cannot be read any longer (TelemetryWriter::open, read_records).
ASSUME AppendingSealsATornLine ==
    \A records \in SeqOf(1..2, 2) : \A pieces \in 1..2 : \A more \in SeqOf(4..5, 3) :
        LET torn == Log!TornAppend(FileOf(records), 3, pieces)
            read == Log!ParseLines(FoldLeft(Log!Written, torn, more))
        IN  /\ read.ok <=> Len(more) <= 1
            /\ more # <<>> => read.records = records \o Tail(more)

\* A turn is one record, of what happened since it started: a call's result counts in
\* it, and what came between two turns in none (TelemetryRecorder::on_event).
At(events) == [k \in DOMAIN events |-> events[k] @@ [at |-> k]]
RecorderEvents ==
    {[kind |-> "turn_start"], [kind |-> "tool_result", is_error |-> TRUE], [kind |-> "overrun"],
     [kind |-> "model_loading", model |-> "m", progress |-> 50],
     [kind |-> "model_loading", model |-> "m", progress |-> 100],
     [kind |-> "turn_end", usage |-> 7]}
ASSUME TurnHoldsItsOwnCalls ==
    \A events \in SeqOf(RecorderEvents, 4) :
        LET ends == SelectSeq([k \in DOMAIN events |-> k], LAMBDA k : events[k].kind = "turn_end")
            records == Log!Recorded(At(events))
            since(k) == Max({0} \union {j \in 1..k - 1 : events[j].kind \in {"turn_start", "turn_end"}})
            count(j, k, kind) == Cardinality({i \in j + 1..k - 1 : events[i].kind = kind})
        IN  /\ Len(records) = Len(ends)
            /\ \A n \in DOMAIN ends :
                  LET k == ends[n]
                  IN  /\ records[n].tool_calls = count(since(k), k, "tool_result")
                      /\ records[n].frame_overruns = count(since(k), k, "overrun")
                      /\ records[n].tool_failures <= records[n].tool_calls

\* A load counts in the turn it ends in, with all of its time, and only if it was seen
\* to begin: one that ends between two turns, or is first heard of when it is done,
\* is in no record, and one that failed is timed with the next of its model.
ASSUME LoadCountsWhereItEnds ==
    LET begin == [kind |-> "model_loading", model |-> "m", progress |-> 50]
        done == [kind |-> "model_loading", model |-> "m", progress |-> 100]
        start == [kind |-> "turn_start"]
        end == [kind |-> "turn_end", usage |-> 0]
        loads(events) == LET records == Log!Recorded(At(events)) IN
            [k \in DOMAIN records |-> <<records[k].model_loads, records[k].model_load_ms>>]
    IN  /\ loads(<<start, begin, end, start, done, end>>) = <<<<0, 0>>, <<1, 3>>>>
        /\ loads(<<begin, done, start, end>>) = <<<<0, 0>>>>
        /\ loads(<<start, done, end>>) = <<<<0, 0>>>>
        /\ loads(<<start, begin, end, start, begin, done, end>>) = <<<<0, 0>>, <<1, 4>>>>
        /\ \A events \in SeqOf({begin, done}, 4) :
              loads(<<start>> \o events \o <<end>>)[1][1]
                = Cardinality({k \in 2..Len(events) : events[k] = done /\ events[k - 1] = begin})

\* A long turn counts as much as the tokens it had, however many short ones there are:
\* the rate of all lies between those of any two parts of the records
\* (Summary::from_records).
TurnRecords == {[prompt |-> p, cached |-> c, tool_calls |-> 0, tool_failures |-> 0] :
                   p \in {0, 1, 10}, c \in {0, 1}}
ASSUME RatesAreOfSums ==
    \A records \in SeqOf({r \in TurnRecords : r.cached <= r.prompt}, 3) : \A cut \in 0..Len(records) :
        LET rate(part) == Log!Summary(part).cache_hit_rate
            front == SubSeq(records, 1, cut)
            back == SubSeq(records, cut + 1, Len(records))
            asked == {part \in {front, back} : Log!Total(part, "prompt") > 0}
        IN  /\ rate(records) \in 0..1000
            /\ asked # {} => /\ \E part \in asked : rate(part) <= rate(records)
                             /\ \E part \in asked : rate(records) <= rate(part)
            /\ Log!Summary(records).turns = Len(records)

\* Every session with a name of its own is listed, in the order it began; one that
\* cannot be read says so and hides no other (session_ids, list).
SessionFiles ==
    LET started == [kind |-> "session_start", root |-> "repo"]
        asked == [kind |-> "user_message", text |-> <<"x">>]
        ended == [kind |-> "turn_end"]
    IN  {FileOf(<<started, asked, ended>>), Log!TornAppend(FileOf(<<started, asked>>), ended, 1),
         Log!Written(Log!TornAppend(FileOf(<<started>>), asked, 1), ended) \o Log!Line(ended)}
ASSUME ListingHidesNothing ==
    \A dirs \in SUBSET [id : 1..2, canonical : BOOLEAN] : \A files \in [1..2 -> SessionFiles] :
        LET ids == Log!SessionIds(dirs)
            lines == Log!Listing(dirs, files)
        IN  /\ Range(ids) = {d.id : d \in {d \in dirs : d.canonical}}
            /\ \A j, k \in DOMAIN ids : j < k => ids[j] < ids[k]
            /\ \A k \in DOMAIN ids :
                  IF ~Log!ParseLines(files[ids[k]]).ok THEN lines[k] = "unreadable"
                  ELSE /\ lines[k].opening = <<"x">> /\ lines[k].root = "repo"
                       /\ lines[k].turns = IF files[ids[k]] = FileOf(Log!ParseLines(files[ids[k]]).records)
                                           THEN 1 ELSE 0

\* An opening is one line no wider than the listing allows, and says where it was cut
\* (shorten).
ASSUME OpeningFitsItsLine ==
    \A text \in SeqOf({"x", " ", "control"}, 6) :
        LET cut == Log!Shorten(text)
        IN  /\ Len(cut) <= 4 /\ "control" \notin Range(cut)
            /\ "ellipsis" \in Range(cut) <=>
                  \E j, k \in DOMAIN text : text[j] = "x" /\ text[k] = "x" /\ k - j >= 4
            /\ cut # <<>> => Head(cut) = "x"

=============================================================================
