------------------------------- MODULE Screen -------------------------------
(***************************************************************************)
(* What a person sees and types: the segments of the transcript and their  *)
(* lines, the keys and the prompts, the map of a plan, the playback of a   *)
(* recording, the bars around the transcript, the fading of dark mode, the *)
(* overlays, the clickable zones, and the Markdown of a reply.             *)
(* Source: crates/dark-tui/src/{views/{transcript,wrap,diff,fogmap}.rs,     *)
(* app/{state,render,zone,pane,layout,keys,mod}.rs, anim/{budget,gate}.rs, *)
(* replay.rs}.                                                             *)
(*                                                                         *)
(* A text is a sequence of characters, a character a string; styles are    *)
(* left out but for bold and the colour of tool output.  For the bars time *)
(* is ticks, a rate a pair of tokens and ticks, a fraction a percentage.   *)
(***************************************************************************)
EXTENDS Integers, SequencesExt, FiniteSetsExt, TLC

CONSTANT DarkTransition \* DARK_TRANSITION

-----------------------------------------------------------------------------
(* The segments of a transcript (Transcript::apply_event, record_lag).     *)

Mergeable == {"assistant", "reasoning"}
Shown == Mergeable \union {"user", "call", "progress", "result", "notice", "lag"}

\* open: the kind of delta that may still grow the last segment.
ApplyEvent(t, event) ==
    LET grows == event.kind \in Mergeable /\ t.open = event.kind
                 /\ t.segments # << >> /\ Last(t.segments).kind = event.kind
        opened == CASE event.kind \in Mergeable -> event.kind
                    [] event.kind \in {"user", "call", "lag"} -> "none"
                    [] OTHER -> t.open
    IN  CASE event.kind \notin Shown -> t
          [] grows -> [t EXCEPT !.segments[Len(t.segments)].text = @ \o event.text]
          [] OTHER -> [segments |-> Append(t.segments, event), open |-> opened]

EmptyTranscript == [segments |-> << >>, open |-> "none"]
Transcript(events) == FoldLeft(ApplyEvent, EmptyTranscript, events)

\* The first line of a window on so many, scrolled back from the end.
FirstLine(lines, height, scrollback) ==
    LET tail == Max({0, lines - height}) IN tail - Min({scrollback, tail})

-----------------------------------------------------------------------------
(* Wrapping a line, a sequence of spans of text. "w" is two columns wide.   *)

Columns(text) == FoldLeft(LAMBDA n, c : n + (IF c = "w" THEN 2 ELSE 1), 0, text)
TrimStart(text) ==
    LET solid == {k \in DOMAIN text : text[k] # " "}
    IN  IF solid = {} THEN << >> ELSE SubSeq(text, Min(solid), Len(text))

SplitAtWidth(text, room, atLineStart) ==
    LET cut == Max({k \in 0..Len(text) : Columns(SubSeq(text, 1, k)) <= room})
        spaces == {k \in 1..cut : text[k] = " "}
        at(head, tail) == [head |-> SubSeq(text, 1, head), tail |-> SubSeq(text, tail, Len(text))]
    IN  IF cut = Len(text) THEN at(cut, cut + 1)
        ELSE IF spaces # {} THEN at(Max(spaces) - 1, Max(spaces) + 1)
        ELSE IF atLineStart /\ cut > 0 THEN at(cut, cut + 1)
        ELSE at(0, 1)

\* One turn of the loop over a span; rest is what is left of it and of the others.
WrapStep(s, width) ==
    LET room == width - Columns(s.current)
        split == SplitAtWidth(Head(s.rest), room, s.current = << >>)
        broken == [s EXCEPT !.out = Append(@, s.current), !.current = << >>]
    IN  IF s.rest = << >> THEN s
        ELSE IF Head(s.rest) = << >> THEN [s EXCEPT !.rest = Tail(@)]
        ELSE IF room = 0 \/ split.head = << >> THEN broken
        ELSE IF split.tail = << >>
        THEN [s EXCEPT !.current = @ \o split.head, !.rest[1] = << >>]
        ELSE [rest |-> [s.rest EXCEPT ![1] = TrimStart(split.tail)], current |-> << >>,
              out |-> Append(s.out, s.current \o split.head)]

\* The lines after so many turns, and whether the loop has ended.
WrapOne(line, width, turns) ==
    LET all == FlattenSeq(line)
        last == FoldLeft(LAMBDA s, k : WrapStep(s, width),
                         [rest |-> line, current |-> << >>, out |-> << >>], [k \in 1..turns |-> k])
    IN  IF Columns(all) <= width THEN [ended |-> TRUE, lines |-> <<all>>]
        ELSE [ended |-> last.rest = << >>,
              lines |-> IF last.current = << >> THEN last.out ELSE Append(last.out, last.current)]

-----------------------------------------------------------------------------
(* Tool output: escape sequences, colours and the lines of a diff.         *)

\* want: what the next number of a sequence says, after 38 or 48.
ApplyCode(s, code) ==
    CASE s.want = "kind" -> [s EXCEPT !.want = CASE code = "5" -> "index" [] code = "2" -> "red" [] OTHER -> "code"]
      [] s.want = "red" -> [s EXCEPT !.want = "green"]
      [] s.want = "green" -> [s EXCEPT !.want = "index"]
      [] s.want = "index" -> [s EXCEPT !.want = "code", !.style.coloured = TRUE]
      [] s.want = "code" ->
            CASE code = "0" -> [s EXCEPT !.style = [bold |-> FALSE, coloured |-> FALSE]]
              [] code = "1" -> [s EXCEPT !.style.bold = TRUE]
              [] code = "22" -> [s EXCEPT !.style.bold = FALSE]
              [] code = "38" -> [s EXCEPT !.want = "kind"]
              [] OTHER -> s

\* A parameter that is left out is 0.
ApplySgr(style, params) ==
    LET ends == {k \in DOMAIN params : params[k] = ";"} \union {Len(params) + 1}
        starts == {0} \union (ends \ {Len(params) + 1})
        end(from) == Min({k \in ends : k > from})
        codes == [k \in 1..Cardinality(starts) |->
                     LET from == SetToSortSeq(starts, <)[k]
                     IN  IF end(from) = from + 1 THEN "0" ELSE params[from + 1]]
    IN  FoldLeft(ApplyCode, [style |-> style, want |-> "code"], codes).style

AnsiStep(s, c) ==
    LET text == IF s.mode = "escape" /\ c # "[" THEN Append(s.line, <<"esc", s.style>>) ELSE s.line
    IN  CASE s.mode = "params" /\ c = "m" ->
                [s EXCEPT !.mode = "text", !.style = ApplySgr(s.style, s.params)]
          [] s.mode = "params" /\ c \in {";", "0", "1", "2", "5", "22", "38"} ->
                [s EXCEPT !.params = Append(@, c)]
          [] s.mode = "params" -> [s EXCEPT !.mode = "text"]
          [] s.mode = "escape" /\ c = "[" -> [s EXCEPT !.mode = "params", !.params = << >>]
          [] s.mode # "params" /\ c = "esc" -> [s EXCEPT !.mode = "escape", !.line = text]
          [] s.mode # "params" /\ c = "newline" ->
                [s EXCEPT !.mode = "text", !.lines = Append(@, text), !.line = << >>]
          [] OTHER -> [s EXCEPT !.mode = "text", !.line = Append(text, <<c, s.style>>)]

AnsiToLines(text) ==
    LET s == FoldLeft(AnsiStep, [mode |-> "text", style |-> [bold |-> FALSE, coloured |-> FALSE],
                                 params |-> << >>, line |-> << >>, lines |-> << >>], text)
        line == IF s.mode = "escape" THEN Append(s.line, <<"esc", s.style>>) ELSE s.line
    IN  IF line = << >> THEN s.lines ELSE Append(s.lines, line)

Classify(line) ==
    CASE IsPrefix(<<"-", "-", "-", " ">>, line) \/ IsPrefix(<<"+", "+", "+", " ">>, line) -> "file"
      [] IsPrefix(<<"@", "@">>, line) -> "hunk"
      [] IsPrefix(<<"+">>, line) /\ ~IsPrefix(<<"+", "+", "+", " ">>, line) -> "added"
      [] IsPrefix(<<"-">>, line) /\ ~IsPrefix(<<"-", "-", "-", " ">>, line) -> "removed"
      [] OTHER -> "context"

\* The top-level fields of a call's arguments; a backslash guards one character.
FieldStep(s, c) ==
    LET next == [s EXCEPT !.current = Append(@, c), !.escaped = (c = "backslash" /\ s.inString /\ ~s.escaped)]
    IN  IF s.escaped THEN next
        ELSE IF c = "quote" THEN [next EXCEPT !.inString = ~@]
        ELSE IF c \in {"{", "["} /\ ~s.inString THEN [next EXCEPT !.depth = @ + 1]
        ELSE IF c \in {"}", "]"} /\ ~s.inString THEN [next EXCEPT !.depth = @ - 1]
        ELSE IF c = "," /\ ~s.inString /\ s.depth = 0
        THEN [s EXCEPT !.parts = Append(@, s.current), !.current = << >>]
        ELSE next

SplitTopLevel(inner) ==
    LET s == FoldLeft(FieldStep, [parts |-> << >>, current |-> << >>, depth |-> 0,
                                  inString |-> FALSE, escaped |-> FALSE], inner)
    IN  IF TrimStart(s.current) = << >> THEN s.parts ELSE Append(s.parts, s.current)

-----------------------------------------------------------------------------
(* The map of a plan. data has a destination and what each ticket waits    *)
(* for; ids are numbers.                                                   *)

RECURSIVE Upstream(_, _)
Upstream(blockedBy, found) ==
    LET more == found \union UNION {blockedBy[t] : t \in found \intersect DOMAIN blockedBy}
    IN  IF more = found THEN found ELSE Upstream(blockedBy, more)

ReachableToDestination(data) == Upstream(data.blockedBy, {data.destination})

\* The tickets a topological sort reaches: those that wait for nothing but such.
RECURSIVE Sorted(_, _, _)
Sorted(data, reachable, done) ==
    LET ready == {t \in reachable \ done :
                     t \in DOMAIN data.blockedBy => data.blockedBy[t] \intersect reachable \subseteq done}
    IN  IF ready = {} THEN done ELSE Sorted(data, reachable, done \union ready)

LongestPathDepths(data) ==
    LET sorted == Sorted(data, ReachableToDestination(data), {})
        children(t) == {c \in sorted \intersect DOMAIN data.blockedBy : t \in data.blockedBy[c]}
        depth[t \in sorted] ==
            IF t = data.destination THEN 0
            ELSE IF children(t) = {} THEN 1 ELSE 1 + Max({depth[c] : c \in children(t)})
    IN  depth

\* The distance from the centre, in parts of the deepest ring, which the fog shares.
FogRadius == 100
OutOfScopeRadius == 115
Radius(data, ticket) ==
    LET depth == LongestPathDepths(data)
        deepest == Max({0} \union {depth[t] : t \in DOMAIN depth})
    IN  CASE ticket \in DOMAIN depth /\ deepest = 0 -> 0
          [] ticket \in DOMAIN depth /\ deepest > 0 -> (100 * depth[ticket]) \div deepest
          [] ticket \notin DOMAIN depth ->
                IF data.outOfScope[ticket] THEN OutOfScopeRadius ELSE FogRadius

\* A position has an id, a radius and an angle, in degrees. 0 is no selection.
SelectFirst(layout, selected) ==
    IF layout = {} THEN selected ELSE Min({p.id : p \in layout})

At(layout, id) == CHOOSE p \in layout : p.id = id
MoveAroundRing(layout, selected, forward) ==
    LET ring == SetToSortSeq({p \in layout : p.radius = At(layout, selected).radius},
                    LAMBDA p, q : p.angle < q.angle \/ (p.angle = q.angle /\ p.id < q.id))
        index == CHOOSE k \in DOMAIN ring : ring[k].id = selected
        step == IF forward THEN 0 ELSE Len(ring) - 2
    IN  IF selected \notin {p.id : p \in layout} THEN SelectFirst(layout, selected)
        ELSE IF Len(ring) < 2 THEN selected
        ELSE ring[((index + step) % Len(ring)) + 1].id

MoveBetweenRings(layout, selected, outward) ==
    LET here == At(layout, selected)
        radii == {p.radius : p \in {q \in layout : IF outward THEN q.radius > here.radius ELSE q.radius < here.radius}}
        target == {p \in layout : p.radius = (IF outward THEN Min(radii) ELSE Max(radii))}
        gap(p) == Min({(p.angle - here.angle) % 360, (here.angle - p.angle) % 360})
    IN  IF selected \notin {p.id : p \in layout} THEN SelectFirst(layout, selected)
        ELSE IF radii = {} THEN selected
        ELSE Min({p.id : p \in {q \in target : \A r \in target : gap(q) <= gap(r)}})

SetMap(layout, selected) == IF selected \in {p.id : p \in layout} THEN selected ELSE 0

-----------------------------------------------------------------------------
(* The keys. An intent is what the session is told, "none" for nothing.     *)

NewApp == [active |-> FALSE, turn |-> 0, armed |-> FALSE, help |-> FALSE, menu |-> FALSE, quit |-> FALSE,
           focus |-> "command", input |-> << >>, prompts |-> << >>, dark |-> FALSE, scroll |-> 0,
           dropped |-> 0]

AppEvent(app, event) ==
    CASE event.kind = "turn start" ->
            [app EXCEPT !.active = TRUE, !.turn = event.turn, !.armed = FALSE, !.scroll = 0, !.dropped = 0]
      [] event.kind = "turn end" -> [app EXCEPT !.active = @ /\ app.turn # event.turn]
      [] event.kind = "confirm" -> [app EXCEPT !.prompts = Append(@, event.id)]
      [] event.kind = "dark" -> [app EXCEPT !.dark = event.dark]
      [] event.kind = "lag" -> [app EXCEPT !.dropped = @ + event.dropped]

Silent(app) == [app |-> app, intent |-> <<"none">>]
Telling(app, intent) == [app |-> app, intent |-> intent]

HandleEscape(app) ==
    CASE app.active -> Telling([app EXCEPT !.armed = FALSE], <<"cancel">>)
      [] ~app.active /\ app.help -> Silent([app EXCEPT !.help = FALSE])
      [] ~app.active /\ ~app.help /\ app.menu -> Silent([app EXCEPT !.menu = FALSE])
      [] OTHER -> Silent([app EXCEPT !.input = IF app.focus = "command" THEN << >> ELSE @])

HandleCtrlC(app) ==
    IF app.active /\ ~app.armed THEN Telling([app EXCEPT !.armed = TRUE], <<"cancel">>)
    ELSE Telling([app EXCEPT !.quit = TRUE], <<"quit">>)

NextFocus == [left |-> "right", right |-> "command", command |-> "left"]
GlobalKeys == {"f1", "f9", "f10", "tab", "ctrl-d", "page up", "page down", "ctrl-end", "esc", "ctrl-c"}
HandleGlobalKey(app, key) ==
    CASE key = "f1" -> Silent([app EXCEPT !.help = ~@])
      [] key = "f9" -> Silent([app EXCEPT !.menu = ~@])
      [] key = "f10" -> Telling([app EXCEPT !.quit = TRUE], <<"quit">>)
      [] key = "tab" -> Silent([app EXCEPT !.focus = NextFocus[@]])
      [] key = "ctrl-d" -> Telling(app, <<"dark", ~app.dark>>)
      [] key = "page up" -> Silent([app EXCEPT !.scroll = @ + 10])
      [] key = "page down" -> Silent([app EXCEPT !.scroll = Max({0, @ - 10})])
      [] key = "ctrl-end" -> Silent([app EXCEPT !.scroll = 0])
      [] key = "esc" -> HandleEscape(app)
      [] key = "ctrl-c" -> HandleCtrlC(app)

\* Every other key with the command bar in focus is a character, enter or backspace.
HandleCommandBarKey(app, key) ==
    CASE key = "backspace" -> Silent([app EXCEPT !.input = IF @ = << >> THEN @ ELSE Front(@)])
      [] key = "enter" ->
            IF app.input = << >> THEN Silent(app)
            ELSE Telling([app EXCEPT !.input = << >>],
                         <<IF Head(app.input) = "/" THEN "command" ELSE "submit", app.input>>)
      [] OTHER -> Silent([app EXCEPT !.input = Append(@, key)])

HandlePaneKey(app, key) ==
    CASE key = "c" -> Telling(app, <<"command", "/claim">>)
      [] key = "r" -> Telling(app, <<"command", "/resolve">>)
      [] key = "/" -> Silent([app EXCEPT !.focus = "command", !.input = Append(@, "/")])
      [] OTHER -> Silent(app)

Allow == [y |-> "once", a |-> "always", n |-> "deny", esc |-> "deny"]
HandleKey(app, key) ==
    IF app.prompts # << >> /\ key \in DOMAIN Allow
    THEN Telling([app EXCEPT !.prompts = Tail(@)], <<"confirm", Head(app.prompts), Allow[key]>>)
    ELSE IF key \in GlobalKeys THEN HandleGlobalKey(app, key)
    ELSE IF app.focus = "command" THEN HandleCommandBarKey(app, key)
    ELSE HandlePaneKey(app, key)

-----------------------------------------------------------------------------
(* Frames and playback.                                                    *)

\* What a frame that took too long takes away: the shimmer, then the gradient.
RecordFrame(g, slow) ==
    LET inARow == IF slow THEN g.inARow + 1 ELSE 0
    IN  [inARow |-> inARow, disabled |-> g.disabled \/ inARow >= 3,
         detail |-> IF slow THEN Max({0, g.detail - 1}) ELSE g.detail]

Frames(slow) == FoldLeft(RecordFrame, [inARow |-> 0, disabled |-> FALSE, detail |-> 2], slow)

\* How many of the recorded events are applied after each pass of the loop has waited:
\* for the step key, for another input, or in vain.
Played(mode, recorded, passes) ==
    FoldLeft(LAMBDA n, pass :
                 IF n < recorded /\ <<mode, pass>> \in {<<"step", "step">>, <<"play", "in vain">>}
                 THEN n + 1 ELSE n,
             0, passes)

-----------------------------------------------------------------------------
(* The events the bars fold.  0 is no turn, no model, no map.               *)

NewBars ==
    [turn |-> 0, active |-> FALSE, count |-> 0, started |-> 0, rate |-> <<0, 1>>, thoughts |-> 0,
     dropped |-> 0, total |-> 0, loading |-> 0, progress |-> 0, resident |-> << >>,
     used |-> 0, granted |-> 0, dark |-> FALSE, fading |-> FALSE, since |-> 0, shade |-> 0,
     wanted |-> 0]

RecordToken(bars, now) ==
    [bars EXCEPT !.count = @ + 1,
                 !.rate = IF now > bars.started THEN <<bars.count + 1, now - bars.started>> ELSE @]

ApplyDomainEvent(bars, e, now) ==
    CASE e.kind = "turn start" ->
            [bars EXCEPT !.turn = e.turn, !.active = TRUE, !.dropped = 0, !.count = 0,
                         !.started = now, !.rate = <<0, 1>>, !.thoughts = 0]
      [] e.kind = "token" -> IF e.turn = bars.turn THEN RecordToken(bars, now) ELSE bars
      [] e.kind = "thought" ->
            IF e.turn = bars.turn THEN [bars EXCEPT !.thoughts = @ + 1] ELSE bars
      [] e.kind = "turn end" ->
            IF e.turn # bars.turn THEN bars
            ELSE [bars EXCEPT !.active = FALSE,
                              !.rate = IF e.ticks > 0 THEN <<e.tokens, e.ticks>> ELSE @]
      [] e.kind = "loading" ->
            [bars EXCEPT !.loading = IF e.progress >= 100 THEN 0 ELSE e.model,
                         !.progress = e.progress]
      [] e.kind = "residency" -> [bars EXCEPT !.resident = e.slots]
      [] e.kind = "budget" -> [bars EXCEPT !.used = e.used, !.granted = e.granted]
      [] e.kind = "dark" -> [bars EXCEPT !.dark = e.dark, !.fading = TRUE, !.since = now]
      [] e.kind = "map changed" -> [bars EXCEPT !.wanted = e.map]
      [] e.kind = "lag" -> [bars EXCEPT !.dropped = @ + e.n, !.total = @ + e.n]
      [] OTHER -> bars

\* Every frame: the shade of dark mode, while it changes.
Tick(bars, now) ==
    LET elapsed == now - bars.since
        ratio == IF DarkTransition = 0 THEN 100 ELSE Min({100, (100 * elapsed) \div DarkTransition})
    IN  IF ~bars.fading THEN bars
        ELSE [bars EXCEPT !.shade = IF bars.dark THEN ratio ELSE 100 - ratio,
                          !.fading = elapsed < DarkTransition]

\* Once a pass of the loop has drained the events, the map it draws next.
MapDrawn(bars, drawn, readable) == IF bars.wanted \in readable THEN bars.wanted ELSE drawn

-----------------------------------------------------------------------------
(* What is drawn of them.                                                  *)

CurrentModel(bars) ==
    LET loaded == SelectSeq(bars.resident, LAMBDA slot : slot.state = "loaded")
    IN  IF loaded = << >> THEN 0 ELSE loaded[1].model

CtxPercent(bars) == Min({100, (200 * bars.used + bars.granted) \div (2 * bars.granted)})

HeaderSpans(bars) ==
    FlattenSeq(<<
        IF bars.loading # 0 THEN << <<"loading", bars.loading>> >>
        ELSE IF CurrentModel(bars) # 0 THEN << <<"local", CurrentModel(bars)>> >> ELSE << >>,
        IF bars.granted > 0 THEN << <<"ctx", CtxPercent(bars)>> >> ELSE << >>,
        IF bars.rate[1] > 0 THEN << <<"rate", bars.rate>> >> ELSE << >> >>)

CommandBar(bars, input) == IF bars.loading # 0 THEN <<"loading", bars.loading>> ELSE <<"typed", input>>

\* What is drawn over the panes of an app.
Overlay(app) ==
    IF app.help THEN "help" ELSE IF app.menu THEN "menu"
    ELSE IF app.prompts # << >> THEN "confirm" ELSE "none"

-----------------------------------------------------------------------------
(* The zones.  A terminal of at least seven rows; ratatui halves a length  *)
(* with the odd cell in the first half.                                    *)

Rect(x, y, w, h) == [x |-> x, y |-> y, w |-> w, h |-> h]
Covers(rect, x, y) ==
    x >= rect.x /\ x < rect.x + rect.w /\ y >= rect.y /\ y < rect.y + rect.h

ShouldStackPanes(w, h) == w < 80 \/ h < 24

Compute(w, h) ==
    LET inner == w - 2
        rows == h - 4
        half == IF ShouldStackPanes(w, h) THEN Rect(1, 1, inner, (rows + 1) \div 2)
                ELSE Rect(1, 1, (inner + 1) \div 2, rows)
    IN  [left |-> half,
         right |-> IF ShouldStackPanes(w, h) THEN Rect(1, 1 + half.h, inner, rows - half.h)
                   ELSE Rect(1 + half.w, 1, inner - half.w, rows),
         command |-> Rect(1, h - 3, inner, 1),
         keys |-> Rect(1, h - 2, inner, 1)]

\* The columns of each label with its number and the blank after it: 1Help, 2Map, 3View,
\* 4Diff, 5Explore, 6Lexicon, 7Ticket, 8Resolve, 9Menu and 10Quit.
FunctionKeys == <<6, 5, 6, 6, 9, 9, 8, 9, 6, 7>>

\* Drawn one after the other from the left end of their row.
LabelColumn(area, key) == area.x + FoldLeft(LAMBDA a, b : a + b, 0, SubSeq(FunctionKeys, 1, key - 1))

FunctionKeyZones(area) ==
    LET slot == area.w \div 10
    IN  IF slot = 0 THEN << >>
        ELSE [k \in 1..10 |-> <<Rect(area.x + (k - 1) * slot, area.y, slot, 1), <<"key", k>> >>]

Zones(w, h) ==
    LET computed == Compute(w, h)
    IN  << <<Rect(0, 0, w, 1), <<"header">> >>, <<computed.left, <<"left">> >>,
           <<computed.right, <<"right">> >>, <<computed.command, <<"command">> >> >>
        \o FunctionKeyZones(computed.keys)

\* The zone registered last wins.
HitTest(zones, x, y) ==
    LET hits == SelectSeq(zones, LAMBDA zone : Covers(zone[1], x, y))
    IN  IF hits = << >> THEN <<"none">> ELSE Last(hits)[2]

LeftPanes == <<"map", "files", "seams", "packs">>
RightPanes == <<"transcript", "diff", "doc", "explore">>
Cycle(order, current, forward) ==
    LET k == CHOOSE k \in DOMAIN order : order[k] = current
    IN  IF forward THEN order[(k % Len(order)) + 1] ELSE order[((k + Len(order) - 2) % Len(order)) + 1]

\* An app of Screen with what its panes show.
WithPanes(app, left, right) == app @@ [left |-> left, right |-> right]

CycleFocusedPane(app, forward) ==
    CASE app.focus = "left" -> [app EXCEPT !.left = Cycle(LeftPanes, @, forward)]
      [] app.focus = "right" -> [app EXCEPT !.right = Cycle(RightPanes, @, forward)]
      [] OTHER -> app

ActivateZone(app, zone) ==
    CASE zone \in {<<"left">>, <<"right">>, <<"command">>} -> Silent([app EXCEPT !.focus = zone[1]])
      [] zone = <<"key", 1>> -> HandleGlobalKey(app, "f1")
      [] zone = <<"key", 2>> -> Silent([app EXCEPT !.left = "map"])
      [] zone = <<"key", 3>> -> Silent([app EXCEPT !.right = "transcript"])
      [] zone = <<"key", 4>> -> Silent([app EXCEPT !.right = "diff"])
      [] zone = <<"key", 5>> -> Silent([app EXCEPT !.right = "explore"])
      [] zone = <<"key", 6>> -> Telling(app, <<"command", "/lexicon">>)
      [] zone = <<"key", 7>> -> Telling(app, <<"command", "/ticket">>)
      [] zone = <<"key", 8>> -> Telling(app, <<"command", "/resolve">>)
      [] zone = <<"key", 9>> -> HandleGlobalKey(app, "f9")
      [] zone = <<"key", 10>> -> HandleGlobalKey(app, "f10")
      [] OTHER -> Silent(app)

-----------------------------------------------------------------------------
(* The Markdown of a reply.  A span is a style and its text; g stands for a *)
(* backtick, q for a double quote, x and y for letters.                    *)

After(text, n) == SubSeq(text, n + 1, Len(text))
FirstAt(text, mark) ==
    LET at == {k \in 1..(Len(text) - Len(mark) + 1) : SubSeq(text, k, k + Len(mark) - 1) = mark}
    IN  IF at = {} THEN 0 ELSE Min(at)

Plain(text) == IF text = << >> THEN << >> ELSE << <<"plain", text>> >>

\* The first mark of a text, and the spans from there: closed, or plain to the end.
RECURSIVE RenderInline(_)
RenderInline(text) ==
    LET marks == {m \in {<<"g">>, <<"*", "*">>} : FirstAt(text, m) # 0}
        mark == CHOOSE m \in marks : \A n \in marks : FirstAt(text, m) <= FirstAt(text, n)
        start == FirstAt(text, mark)
        inside == After(text, start + Len(mark) - 1)
        close == FirstAt(inside, mark)
    IN  IF marks = {} THEN Plain(text)
        ELSE Plain(SubSeq(text, 1, start - 1))
             \o IF close = 0 THEN << <<"plain", mark \o inside>> >>
                ELSE << <<"bold", SubSeq(inside, 1, close - 1)>> >>
                     \o RenderInline(After(inside, close + Len(mark) - 1))

\* A quoted string runs to its closing quote, or to the end.
WordStep(s, c) ==
    LET flushed == IF s.word = << >> THEN s.spans ELSE Append(s.spans, <<"word", s.word>>)
    IN  IF s.string # << >>
        THEN IF c = "q" THEN [s EXCEPT !.spans = Append(@, <<"string", Append(s.string, c)>>), !.string = << >>]
             ELSE [s EXCEPT !.string = Append(@, c)]
        ELSE IF c = "q" THEN [spans |-> flushed, word |-> << >>, string |-> <<c>>]
        ELSE IF c \in {"x", "y"} THEN [s EXCEPT !.word = Append(@, c)]
        ELSE [spans |-> Append(flushed, <<"plain", <<c>> >>), word |-> << >>, string |-> << >>]

HighlightWords(code) ==
    LET s == FoldLeft(WordStep, [spans |-> << >>, word |-> << >>, string |-> << >>], code)
    IN  s.spans \o (IF s.word = << >> THEN << >> ELSE << <<"word", s.word>> >>)
                \o (IF s.string = << >> THEN << >> ELSE << <<"string", s.string>> >>)

HighlightCodeLine(line) ==
    LET at == FirstAt(line, <<"/", "/">>)
    IN  IF at = 0 THEN HighlightWords(line)
        ELSE HighlightWords(SubSeq(line, 1, at - 1)) \o << <<"comment", After(line, at - 1)>> >>

Fence == <<"g", "g", "g">>
Unmarked(line) ==
    LET rest == {k \in DOMAIN line : line[k] # "#"}
    IN  IF rest = {} THEN << >> ELSE TrimStart(After(line, Min(rest) - 1))

\* What one line of a reply becomes, and whether it opened or closed a block of code.
RenderLine(s, line) ==
    LET text == TrimStart(line)
        shown(kind, spans) == [s EXCEPT !.lines = Append(@, <<kind, spans>>)]
    IN  IF IsPrefix(Fence, line) THEN [s EXCEPT !.fenced = ~@]
        ELSE IF s.fenced THEN shown("code", HighlightCodeLine(line))
        ELSE IF IsPrefix(<<"#">>, text) THEN shown("heading", Plain(Unmarked(text)))
        ELSE IF IsPrefix(<<"-", " ">>, text) \/ IsPrefix(<<"*", " ">>, text)
             THEN shown("item", RenderInline(After(text, 2)))
        ELSE shown("text", RenderInline(line))

RenderMarkdown(lines) == FoldLeft(RenderLine, [lines |-> << >>, fenced |-> FALSE], lines).lines

=============================================================================
