------------------------------- MODULE Scroll -------------------------------
(***************************************************************************)
(* Scrolling in threeml::Renderer (src/src/3ml_renderer.cpp:11-25, 46-88,  *)
(* 246-263): where the viewport is, where it is heading, and whether the   *)
(* selected link is in it.  The positions of the links are learnt while    *)
(* the page is drawn.  A page is the sequence of its drawn nodes, each     *)
(* with its height in pixels, padding included.                            *)
(*                                                                         *)
(* The callbacks run in the timer daemon on one core and render in the     *)
(* draw task on the other; the callbacks do not take the draw task's       *)
(* mutex.  One step is one statement on what the two share.                *)
(***************************************************************************)
EXTENDS Integers, Sequences

CONSTANTS
    Pages,        \* Pages[p]: the nodes of page p, [link : BOOLEAN, size : Nat]
    Viewport,     \* m_display->height() - STATUS_BAR_HEIGHT
    SCROLL_AMOUNT,
    Padding,      \* pixels above the text of a node
    Word          \* size_t has the values 0..Word - 1

VARIABLES
    page,         \* the page shown
    rendered,     \* m_dom_rendered
    totalHeight,  \* m_total_height
    scrollHeight, \* m_scroll_height
    scrollTarget, \* m_scroll_target
    selected,     \* m_current_selected
    daemon,       \* the timer daemon: its program counter and the target it is
                  \* about to assign
    draw,         \* the draw task: the same, and written, how many tops and
                  \* bottoms of nodes its first frame of a page has written;
                  \* ghost stale: was the target written since the frame tested it
    callback      \* ghost: what the last button callback did: "scroll", or "select"
                  \* while the page was at rest, or "early" while it was not;
                  \* "lost" if the draw task overwrote the target it had set

vars == <<page, rendered, totalHeight, scrollHeight, scrollTarget, selected,
          daemon, draw, callback>>
shown == <<page, rendered, totalHeight, scrollHeight>>

-----------------------------------------------------------------------------
(* The page                                                                *)

(* Where node i of the page begins.                                        *)
Start(p, i) ==
    LET sum[n \in 0..Len(Pages[p])] == IF n = 0 THEN 0 ELSE sum[n - 1] + Pages[p][n].size
    IN  sum[i - 1]

Height(p) == Start(p, Len(Pages[p]) + 1)

ASSUME ScrollAssumption ==
    /\ \A p \in DOMAIN Pages : Pages[p] \in Seq([link : BOOLEAN, size : Nat])
    /\ Viewport \in Nat \ {0} /\ SCROLL_AMOUNT \in Nat /\ Padding \in Nat
    /\ Word \in Nat \ {0} /\ Word % 4 = 0
    /\ \A p \in DOMAIN Pages : 4 * (Height(p) + Padding + SCROLL_AMOUNT) <= Word

(* Which nodes of the page can be selected, in order.                      *)
Links(p) ==
    LET links[n \in 0..Len(Pages[p])] ==
            IF n = 0 THEN <<>>
            ELSE IF Pages[p][n].link THEN Append(links[n - 1], n) ELSE links[n - 1]
    IN  links[Len(Pages[p])]

(* selectable_node_t: 0 and 0 until the page has been drawn once.          *)
Top(k) ==
    LET i == Links(page)[k + 1]
    IN  IF rendered \/ draw.written >= 2 * i - 1 THEN Start(page, i) + Padding ELSE 0
Bottom(k) ==
    LET i == Links(page)[k + 1]
    IN  IF rendered \/ draw.written >= 2 * i THEN Start(page, i + 1) ELSE 0

BadIsVisible(k) == Top(k) <= scrollHeight + Viewport
IsVisible(k) == Top(k) >= scrollHeight /\ Bottom(k) <= scrollHeight + Viewport

BadClamped(target, total) == IF target < 0 THEN 0 ELSE target
BadClampedShort(target, total) ==
    IF target < 0 THEN 0
    ELSE IF target > total - Viewport THEN total - Viewport
    ELSE target

(* clamp_scroll_target                                                     *)
Clamped(target, total) ==
    IF target < 0 \/ total <= Viewport THEN 0
    ELSE IF target > total - Viewport THEN total - Viewport
    ELSE target

(* When clamp_scroll_target assigns at all.                                *)
Strays(target, total) == target < 0 \/ total <= Viewport \/ target > total - Viewport

(* The smoothing filter, in unsigned arithmetic.                           *)
BadFilter(h, t) == ((h * 3 + t + 4) % Word) \div 4
Filter(h, t) == ((h * 3 + t) % Word) \div 4

(* The page is drawn and the next frame will not scroll it.                *)
Resting ==
    rendered /\ Filter(scrollHeight, Clamped(scrollTarget, totalHeight)) = scrollHeight

Frame == [pc |-> "frame", to |-> 0, written |-> 0, stale |-> FALSE]
Idle == [pc |-> "idle", to |-> 0]

-----------------------------------------------------------------------------
Init ==
    /\ page \in DOMAIN Pages
    /\ rendered = FALSE /\ totalHeight = 0
    /\ scrollHeight = 0 /\ scrollTarget = 0 /\ selected = 0
    /\ daemon = Idle /\ draw = Frame /\ callback = "none"

(* A callback writes the target, perhaps after a frame has tested it.      *)
SetTarget(target) ==
    /\ scrollTarget' = target
    /\ draw' = [draw EXCEPT !.stale = draw.pc \in {"assign", "filter"}]

(* The callback selects link k and heads for it unless it is in the        *)
(* viewport now; "aim" still clamps the target it sets, "assign" does not. *)
Select(k, pc) ==
    /\ selected' = k
    /\ daemon' = IF IsVisible(k) THEN Idle ELSE [pc |-> pc, to |-> Top(k)]
    /\ callback' = IF Resting /\ ~draw.stale THEN "select" ELSE "early"
    /\ UNCHANGED <<scrollTarget, draw>>

(* select_next: at the end of the list it only scrolls a smidge.           *)
SelectNext ==
    /\ daemon.pc = "idle"
    /\ IF Links(page) = <<>> \/ selected >= Len(Links(page)) - 1
       THEN /\ SetTarget(scrollTarget + SCROLL_AMOUNT)
            /\ daemon' = [Idle EXCEPT !.pc = "clamp"]
            /\ callback' = "scroll"
            /\ UNCHANGED selected
       ELSE Select(selected + 1, "aim")
    /\ UNCHANGED shown

(* select_prev: the same upwards, but the top of a node is not clamped.    *)
SelectPrev ==
    /\ daemon.pc = "idle"
    /\ IF Links(page) = <<>> \/ selected = 0
       THEN /\ SetTarget(scrollTarget - SCROLL_AMOUNT)
            /\ daemon' = [Idle EXCEPT !.pc = "clamp"]
            /\ callback' = "scroll"
            /\ UNCHANGED selected
       ELSE Select(selected - 1, "assign")
    /\ UNCHANGED shown

(* m_scroll_target = node.top in select_next                               *)
Aim ==
    /\ daemon.pc = "aim"
    /\ SetTarget(daemon.to)
    /\ daemon' = [Idle EXCEPT !.pc = "clamp"]
    /\ UNCHANGED <<selected, callback, shown>>

(* The callback's clamp_scroll_target: the test, and then the assignment.  *)
ClampTest ==
    /\ daemon.pc = "clamp"
    /\ daemon' = IF Strays(scrollTarget, totalHeight)
                 THEN [pc |-> "assign", to |-> Clamped(scrollTarget, totalHeight)]
                 ELSE Idle
    /\ UNCHANGED <<scrollTarget, selected, draw, callback, shown>>

Assign ==
    /\ daemon.pc = "assign"
    /\ SetTarget(daemon.to)
    /\ daemon' = Idle
    /\ UNCHANGED <<selected, callback, shown>>

(* A frame begins: the first one of a page draws it, the others clamp the  *)
(* target, beginning with the test.                                        *)
BeginFrame ==
    /\ draw.pc = "frame"
    /\ draw' = IF ~rendered THEN [Frame EXCEPT !.pc = "draw"]
               ELSE IF Strays(scrollTarget, totalHeight)
                    THEN [Frame EXCEPT !.pc = "assign",
                                       !.to = Clamped(scrollTarget, totalHeight)]
                    ELSE [Frame EXCEPT !.pc = "filter"]
    /\ UNCHANGED <<scrollTarget, selected, daemon, callback, shown>>

(* The assignment of the draw task's clamp_scroll_target.                  *)
FrameAssign ==
    /\ draw.pc = "assign"
    /\ scrollTarget' = draw.to
    /\ draw' = [draw EXCEPT !.pc = "filter"]
    /\ callback' = IF draw.stale /\ callback = "select" THEN "lost" ELSE callback
    /\ UNCHANGED <<selected, daemon, shown>>

(* The viewport moves.  What the frame then draws ends below the viewport, *)
(* so it learns nothing new of the nodes and the height.                   *)
FrameFilter ==
    /\ draw.pc = "filter"
    /\ scrollHeight' = Filter(scrollHeight, scrollTarget)
    /\ draw' = Frame
    /\ UNCHANGED <<page, rendered, totalHeight, scrollTarget, selected, daemon, callback>>

(* The first frame draws every node, writing the top and then the bottom.  *)
DrawNode ==
    /\ draw.pc = "draw" /\ draw.written < 2 * Len(Pages[page])
    /\ draw' = [draw EXCEPT !.written = @ + 1]
    /\ UNCHANGED <<scrollTarget, selected, daemon, callback, shown>>

(* It ends knowing the height of the page.                                 *)
FirstFrame ==
    /\ draw.pc = "draw" /\ draw.written = 2 * Len(Pages[page])
    /\ totalHeight' = Height(page)
    /\ rendered' = TRUE
    /\ draw' = Frame
    /\ UNCHANGED <<page, scrollHeight, scrollTarget, selected, daemon, callback>>

(* load_dom forgets the height of the old page but neither the viewport    *)
(* nor the selection, which here is one the new page has, too.  A callback *)
(* may be under way, but none begins amid the load.                        *)
Load ==
    /\ draw.pc = "frame"
    /\ page' \in {p \in DOMAIN Pages : selected < Len(Links(p))}
    /\ rendered' = FALSE
    /\ totalHeight' = 0
    /\ callback' = "none"
    /\ UNCHANGED <<scrollHeight, scrollTarget, selected, daemon, draw>>

Callback == SelectNext \/ SelectPrev \/ Aim \/ ClampTest \/ Assign
Render == BeginFrame \/ FrameAssign \/ FrameFilter \/ DrawNode \/ FirstFrame

Next == Callback \/ Render \/ Load

Spec == Init /\ [][Next]_vars

(* The draw task draws a frame every 34 ms.                                *)
FairSpec == Spec /\ WF_vars(Render)

-----------------------------------------------------------------------------
Limit == IF totalHeight <= Viewport THEN 0 ELSE totalHeight - Viewport

(* Where the viewport can rest.                                            *)
Targets == {t \in Int : 0 <= t /\ 4 * (t + SCROLL_AMOUNT) <= Word}

(* Every variable holds values of its type; the viewport and the targets   *)
(* stay far enough from the ends of their types for the filter.            *)
TypeOK ==
    /\ page \in DOMAIN Pages /\ rendered \in BOOLEAN /\ totalHeight \in Nat
    /\ scrollHeight \in Nat /\ 4 * scrollHeight < Word
    /\ scrollTarget \in Int /\ -SCROLL_AMOUNT <= scrollTarget /\ 4 * scrollTarget <= Word
    /\ selected \in Nat
    /\ daemon \in [pc : {"idle", "aim", "clamp", "assign"}, to : Targets]
    /\ draw \in [pc : {"frame", "assign", "filter", "draw"}, to : Targets,
                 written : Nat, stale : BOOLEAN]
    /\ callback \in {"none", "scroll", "select", "early", "lost"}

(* Once the viewport is inside the document a frame leaves it inside, if   *)
(* no callback writes the target between the frame's test of it and the    *)
(* filter that uses it (3ml_renderer.cpp:248-250), until another page is   *)
(* loaded (3ml_renderer.h:57-58).                                          *)
StaysInDocument ==
    [][rendered /\ page' = page /\ rendered' /\ ~draw.stale /\ scrollHeight <= Limit
         => scrollHeight' <= Limit]_vars

(* While no button is pressed and no page loaded, the viewport comes to    *)
(* rest at most three pixels above its target, and inside the document,    *)
(* also after a long page was replaced by a short one, and after a frame   *)
(* whose unsigned height ran below zero.                                   *)
AtRest == rendered /\ scrollHeight <= scrollTarget /\ scrollTarget <= Limit
ComesToRest ==
    \/ []<>(AtRest /\ scrollTarget - scrollHeight <= 3)
    \/ []<><<SelectNext \/ SelectPrev \/ Load>>_vars

InView == Top(selected) >= scrollHeight /\ Bottom(selected) <= scrollHeight + Viewport + 3

(* 3ml_renderer.h:68-69: select_next "scrolls until it is visible": once   *)
(* the page is at rest again, the node selected last is in the viewport    *)
(* but for the three pixels the filter leaves, if the page was at rest     *)
(* when it was selected (visibility is decided at the height of that       *)
(* moment, 3ml_renderer.cpp:59, 81) and no frame wrote over its target.    *)
SelectedVisible ==
    callback = "select" /\ daemon.pc = "idle" /\ Resting => InView
=============================================================================
