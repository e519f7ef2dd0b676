------------------------------ MODULE Renderer ------------------------------
(***************************************************************************)
(* Navigation in threeml::Renderer (src/src/3ml_renderer.cpp): which page  *)
(* is shown, which node is selected, and the stack of visited files.       *)
(*                                                                         *)
(* Two tasks share the Renderer without a common lock.  The button         *)
(* callbacks select_next, select_prev, interact and go_back run in the     *)
(* FreeRTOS timer daemon on core 0; render, load_file and load_dom run in  *)
(* the draw task on core 1.  m_dom_mutex is only ever taken by the draw    *)
(* task.  One step here is one statement on shared data; a string that is  *)
(* read while the other task assigns it may also read as garbage (Torn).   *)
(* Scrolling, the other half of select_next and select_prev, is in Scroll. *)
(***************************************************************************)
EXTENDS Naturals, Sequences, FiniteSets, SequencesExt

CONSTANTS
    Files,      \* paths of pages that parse_string and clean_dom accept
    Invalid,    \* paths of files that they reject
    Hollow,     \* pages with an h1, a or title that has no text
    Names,      \* paths a link may name, existing or not
    Home,       \* "/index.3ml", main.cpp:52
    Links,      \* Links[f]: for each selectable node of f, its href or NotALink
    NotALink,   \* a selectable node of another type than A
    Torn,       \* a path no file has: empty, or read amid an assignment
    DomIds,     \* addresses of DOM objects
    Null,       \* nullptr
    Wild,       \* a pointer or index to no live node
    MaxHistory  \* bound on the visited files TLC explores

ASSUME PageAssumption ==
    /\ Files \subseteq Names /\ Home \in Files /\ Torn \notin Names
    /\ Invalid \subseteq Names \ Files /\ Hollow \subseteq Files
    /\ Links \in [Files -> Seq(Names \cup {NotALink})]
    /\ Null \notin DomIds /\ Wild \notin [dom : DomIds, href : Names \cup {NotALink}]
    /\ MaxHistory \in Nat \ {0}

VARIABLES
    dom,        \* m_dom
    doc,        \* doc[d]: the file DOM d was parsed from
    live,       \* the DOMs that are allocated
    list,       \* m_selectable_nodes, each node with its DOM and its href
    sel,        \* m_current_selected
    stack,      \* m_file_stack, top last
    mustReload, \* m_must_reload
    goingBack,  \* m_going_back
    file,       \* m_current_file
    draw,       \* the draw task: its program counter and the locals of load_file,
                \* with paths, what its argument may read as;
                \* ghost refused: could the page to go back to not be opened,
                \* "never", the "last" time, or "before" the last page came
    daemon,     \* the timer daemon: its program counter and interact's node
    spoiled     \* ghost: a callback overlapped a page load or used a stray selection

vars == <<dom, doc, live, list, sel, stack, mustReload, goingBack, file, draw, daemon, spoiled>>

Node == [dom : DomIds, href : Names \cup {NotALink}]
Idle == [pc |-> "idle", node |-> Wild]
Booting == [pc |-> "open", boot |-> TRUE, add |-> TRUE, old |-> Null, paths |-> {Home},
            refused |-> "never"]

(* After a reset setup() has attached the buttons, and the draw task is    *)
(* about to call load_file("/index.3ml").                                  *)
Init ==
    /\ dom = Null /\ doc = [d \in DomIds |-> Home] /\ live = {}
    /\ list = <<>> /\ sel = 0 /\ stack = <<>>
    /\ mustReload = FALSE /\ goingBack = FALSE /\ file = Torn
    /\ draw = Booting
    /\ daemon = Idle
    /\ spoiled = FALSE

(* A fault restarts the firmware.                                          *)
Panic ==
    /\ dom' = Null /\ doc' = [d \in DomIds |-> Home] /\ live' = {}
    /\ list' = <<>> /\ sel' = 0 /\ stack' = <<>>
    /\ mustReload' = FALSE /\ goingBack' = FALSE /\ file' = Torn
    /\ draw' = Booting
    /\ daemon' = Idle
    /\ spoiled' = FALSE

-----------------------------------------------------------------------------
(* Button callbacks, in the timer daemon                                   *)

Loading == mustReload \/ draw.pc \notin {"render", "draw"}

(* A callback that navigates starts: is a page on its way already?         *)
Begin ==
    /\ daemon.pc = "idle"
    /\ spoiled' = (spoiled \/ Loading)

(* Renderer::select_next.  At the end of the list it only scrolls.         *)
SelectNext ==
    /\ daemon.pc = "idle"
    /\ sel' = IF list = <<>> \/ sel >= Len(list) - 1 THEN sel ELSE sel + 1
    /\ UNCHANGED <<dom, doc, live, list, stack, mustReload, goingBack, file, draw, daemon, spoiled>>

BadSelectPrev ==
    /\ daemon.pc = "idle"
    /\ sel' = IF list = <<>> THEN sel ELSE sel - 1
    /\ UNCHANGED <<dom, doc, live, list, stack, mustReload, goingBack, file, draw, daemon, spoiled>>

(* Renderer::select_prev.  At the start of the list it only scrolls.       *)
SelectPrev ==
    /\ daemon.pc = "idle"
    /\ sel' = IF list = <<>> \/ sel = 0 THEN sel ELSE sel - 1
    /\ UNCHANGED <<dom, doc, live, list, stack, mustReload, goingBack, file, draw, daemon, spoiled>>

(* Renderer::interact up to the lookup of the selected node.  The index is *)
(* not checked, so the node may be none of the list's.                     *)
Interact ==
    /\ daemon.pc = "idle"
    /\ spoiled' = (spoiled \/ Loading \/ sel >= Len(list))
    /\ Len(stack) < MaxHistory
    /\ list # <<>>
    /\ daemon' = [pc |-> "request", node |-> IF sel < Len(list) THEN list[sel + 1] ELSE Wild]
    /\ UNCHANGED <<dom, doc, live, list, sel, stack, mustReload, goingBack, file, draw>>

(* What node->type may read as: anything, when the node is wild.           *)
MayBeLink(n) == IF n = Wild THEN TRUE ELSE n.href # NotALink
MayBeOther(n) == IF n = Wild THEN TRUE ELSE n.href = NotALink

(* ... node->type == A: the reload is requested before the file is named.  *)
(* A wild node reads as one or the other, or faults.                       *)
InteractRequest ==
    /\ daemon.pc = "request"
    /\ \/ /\ MayBeLink(daemon.node)
          /\ mustReload' = TRUE
          /\ daemon' = [daemon EXCEPT !.pc = "href"]
          /\ UNCHANGED <<dom, doc, live, list, sel, stack, goingBack, file, draw, spoiled>>
       \/ /\ MayBeOther(daemon.node)
          /\ daemon' = Idle
          /\ UNCHANGED <<dom, doc, live, list, sel, stack, mustReload, goingBack, file, draw, spoiled>>
       \/ daemon.node = Wild /\ Panic

(* m_current_file = f.  load_file's argument points to its characters      *)
(* since line 242.  They may be those of the old name, of the new one, or  *)
(* of none, as a longer name moves to another place.                       *)
Assign(f) ==
    /\ file' = f
    /\ draw' = IF ~draw.boot /\ draw.pc \in {"open", "fill", "push"}
               THEN [draw EXCEPT !.paths = @ \cup {f, Torn}] ELSE draw

(* ... m_current_file = node->unique_attributes["href"].                   *)
InteractName ==
    /\ daemon.pc = "href"
    /\ \/ /\ \E f \in IF daemon.node = Wild THEN Names \cup {Torn} ELSE {daemon.node.href} :
                Assign(f)
          /\ daemon' = Idle
          /\ UNCHANGED <<dom, doc, live, list, sel, stack, mustReload, goingBack, spoiled>>
       \/ daemon.node = Wild /\ Panic

(* Is the draw task about to push to the stack, without a lock?            *)
Pushing == draw.pc = "push" /\ draw.add

BadGoBack ==
    /\ Begin
    /\ Len(stack) >= 1
    /\ stack' = Front(stack)
    /\ daemon' = [Idle EXCEPT !.pc = "popped"]
    /\ UNCHANGED <<dom, doc, live, list, sel, mustReload, goingBack, file, draw>>

(* Renderer::go_back, its four assignments one by one.                     *)
GoBack ==
    /\ Begin
    /\ Len(stack) >= 2
    /\ stack' = Front(stack)
    /\ daemon' = [Idle EXCEPT !.pc = "popped"]
    /\ UNCHANGED <<dom, doc, live, list, sel, mustReload, goingBack, file, draw>>

GoBackRequest ==
    /\ daemon.pc = "popped"
    /\ mustReload' = TRUE
    /\ daemon' = [daemon EXCEPT !.pc = "requested"]
    /\ UNCHANGED <<dom, doc, live, list, sel, stack, goingBack, file, draw, spoiled>>

GoBackFlag ==
    /\ daemon.pc = "requested"
    /\ goingBack' = TRUE
    /\ daemon' = [daemon EXCEPT !.pc = "top"]
    /\ UNCHANGED <<dom, doc, live, list, sel, stack, mustReload, file, draw, spoiled>>

(* m_current_file = m_file_stack.top(), which the draw task may be pushing. *)
GoBackName ==
    /\ daemon.pc = "top"
    /\ \E f \in {Last(stack)} \cup (IF Pushing THEN {Torn} ELSE {}) : Assign(f)
    /\ daemon' = Idle
    /\ UNCHANGED <<dom, doc, live, list, sel, stack, mustReload, goingBack, spoiled>>

Daemon ==
    \/ SelectNext \/ SelectPrev
    \/ Interact \/ InteractRequest \/ InteractName
    \/ GoBack \/ GoBackRequest \/ GoBackFlag \/ GoBackName

-----------------------------------------------------------------------------
(* The draw task                                                           *)

(* A step of a page load: the ghost notes whether a callback is under way. *)
LoadStep(from, to) ==
    /\ draw.pc = from
    /\ draw' = [draw EXCEPT !.pc = to]
    /\ spoiled' = (spoiled \/ daemon.pc # "idle")

(* What load_file's argument may read as, also amid an assignment.         *)
Path ==
    draw.paths \cup (IF ~draw.boot /\ daemon.pc \in {"href", "top"} THEN {Torn} ELSE {})

(* Renderer::render without a pending request, or without any page, goes   *)
(* on to draw.                                                             *)
NoReload ==
    /\ draw.pc = "render"
    /\ dom = Null \/ ~mustReload
    /\ draw' = [draw EXCEPT !.pc = "draw"]
    /\ UNCHANGED <<dom, doc, live, list, sel, stack, mustReload, goingBack, file, daemon, spoiled>>

Reload ==
    /\ dom # Null /\ mustReload
    /\ mustReload' = FALSE
    /\ LoadStep("render", "call")
    /\ UNCHANGED <<dom, doc, live, list, sel, stack, goingBack, file, daemon>>

BadCall ==
    /\ draw.pc = "call"
    /\ draw' = [draw EXCEPT !.pc = "open", !.add = goingBack, !.paths = {file}]
    /\ spoiled' = (spoiled \/ daemon.pc # "idle")
    /\ UNCHANGED <<dom, doc, live, list, sel, stack, mustReload, goingBack, file, daemon>>

(* The arguments of load_file(m_current_file.c_str(), !m_going_back).      *)
Call ==
    /\ draw.pc = "call"
    /\ draw' = [draw EXCEPT !.pc = "open", !.add = ~goingBack, !.paths = {file}]
    /\ spoiled' = (spoiled \/ daemon.pc # "idle")
    /\ UNCHANGED <<dom, doc, live, list, sel, stack, mustReload, goingBack, file, daemon>>

(* load_file: FFat.open fails and the page, if there is one, stays.  There *)
(* may be no such file, or the host has deleted it or is writing to the    *)
(* disk over USB.  A page that go_back asked for is off the stack by now.  *)
OpenFails ==
    /\ draw.pc = "open"
    /\ draw' = [draw EXCEPT !.pc = IF draw.boot THEN "render" ELSE "clear", !.boot = FALSE,
                           !.refused = IF draw.add THEN @ ELSE "last", !.paths = {}]
    /\ spoiled' = (spoiled \/ daemon.pc # "idle")
    /\ UNCHANGED <<dom, doc, live, list, sel, stack, mustReload, goingBack, file, daemon>>

(* ... or maybe_error ends in an endless loop, and the draw task with it.  *)
Reject ==
    /\ Path \cap Invalid # {}
    /\ LoadStep("open", "hung")
    /\ UNCHANGED <<dom, doc, live, list, sel, stack, mustReload, goingBack, file, daemon>>

BadInstall ==
    /\ draw.pc = "open"
    /\ \E p \in Path \cap Files, d \in DomIds \ live :
         /\ doc' = [doc EXCEPT ![d] = p]
         /\ dom' = d
         /\ live' = live \cup {d}
    /\ draw' = [draw EXCEPT !.pc = "push", !.old = dom]
    /\ spoiled' = (spoiled \/ daemon.pc # "idle")
    /\ UNCHANGED <<list, sel, stack, mustReload, goingBack, file, daemon>>

(* ... or the file is parsed into a new DOM, and load_dom installs it and  *)
(* clears the list of selectable nodes.                                    *)
Install ==
    /\ draw.pc = "open"
    /\ \E p \in Path \cap Files, d \in DomIds \ live :
         /\ doc' = [doc EXCEPT ![d] = p]
         /\ dom' = d
         /\ live' = live \cup {d}
    /\ list' = <<>>
    /\ draw' = [draw EXCEPT !.pc = "fill", !.old = dom]
    /\ spoiled' = (spoiled \/ daemon.pc # "idle")
    /\ UNCHANGED <<sel, stack, mustReload, goingBack, file, daemon>>

(* explore_dom pushes the selectable nodes one by one.  m_current_selected *)
(* keeps its value.  load_dom ends with the title.                         *)
Explore ==
    /\ draw.pc = "fill"
    /\ LET links == Links[doc[dom]]
           next  == Len(list) + 1
       IN  IF next <= Len(links)
           THEN /\ list' = Append(list, [dom |-> dom, href |-> links[next]])
                /\ UNCHANGED draw
           ELSE draw' = [draw EXCEPT !.pc = "push"] /\ UNCHANGED list
    /\ spoiled' = (spoiled \/ daemon.pc # "idle")
    /\ UNCHANGED <<dom, doc, live, sel, stack, mustReload, goingBack, file, daemon>>

BadPush ==
    /\ draw.pc = "push"
    /\ stack' \in {Append(stack, p) : p \in Path}
    /\ draw' = [draw EXCEPT !.pc = "free", !.refused = IF @ = "last" THEN "before" ELSE @]
    /\ spoiled' = (spoiled \/ daemon.pc # "idle")
    /\ UNCHANGED <<dom, doc, live, list, sel, mustReload, goingBack, file, daemon>>

(* children.front() of a title without text is no node.                    *)
NoTitle == draw.pc = "fill" /\ Len(list) >= Len(Links[doc[dom]]) /\ doc[dom] \in Hollow /\ Panic

(* m_file_stack.push(path), unless it is to go back.                       *)
Push ==
    /\ draw.pc = "push"
    /\ stack' \in IF draw.add THEN {Append(stack, p) : p \in Path} ELSE {stack}
    /\ draw' = [draw EXCEPT !.pc = "free", !.refused = IF @ = "last" THEN "before" ELSE @]
    /\ spoiled' = (spoiled \/ daemon.pc # "idle")
    /\ UNCHANGED <<dom, doc, live, list, sel, mustReload, goingBack, file, daemon>>

(* push and pop of go_back at once: either may come first, undo the other, *)
(* or leave an element between that has been destroyed; if not a fault.    *)
PopAmidPush ==
    /\ daemon.pc = "idle" /\ Pushing /\ Len(stack) >= 2
    /\ \/ /\ stack' \in {stack, Front(stack), Append(Front(stack), Torn)}
                \cup {Append(Front(stack), p) : p \in Path}
                \cup {Append(Append(Front(stack), Torn), p) : p \in Path}
          /\ Len(stack') <= MaxHistory
          /\ draw' = [draw EXCEPT !.pc = "free", !.refused = IF @ = "last" THEN "before" ELSE @]
          /\ daemon' = [Idle EXCEPT !.pc = "popped"]
          /\ spoiled' = TRUE
          /\ UNCHANGED <<dom, doc, live, list, sel, mustReload, goingBack, file>>
       \/ Panic

(* delete tmp: the nodes of the old page are gone, also for a callback     *)
(* that still holds one.                                                   *)
Free ==
    /\ live' = live \ {draw.old}
    /\ doc' = [d \in DomIds |-> IF d = draw.old THEN Home ELSE doc[d]]
    /\ daemon' = IF daemon.node # Wild /\ daemon.node.dom = draw.old
                 THEN [daemon EXCEPT !.node = Wild] ELSE daemon
    /\ draw.pc = "free"
    /\ draw' = [draw EXCEPT !.pc = IF draw.boot THEN "render" ELSE "clear", !.boot = FALSE,
                           !.paths = {}]
    /\ spoiled' = (spoiled \/ daemon.pc # "idle")
    /\ UNCHANGED <<dom, list, sel, stack, mustReload, goingBack, file>>

(* m_going_back = false, whatever a callback has asked for since.          *)
ClearFlag ==
    /\ goingBack' = FALSE
    /\ LoadStep("clear", "draw")
    /\ UNCHANGED <<dom, doc, live, list, sel, stack, mustReload, file, daemon>>

BadDraw ==
    /\ draw.pc = "draw"
    /\ draw' = [draw EXCEPT !.pc = "render", !.add = FALSE, !.old = Null]
    /\ mustReload' = FALSE
    /\ UNCHANGED <<dom, doc, live, list, sel, stack, goingBack, file, daemon, spoiled>>

HasNoText == dom # Null /\ doc[dom] \in Hollow

(* The DOM is drawn under m_dom_mutex; the next frame begins.              *)
Draw ==
    /\ draw.pc = "draw" /\ ~HasNoText
    /\ draw' = [draw EXCEPT !.pc = "render", !.add = FALSE, !.old = Null]
    /\ UNCHANGED <<dom, doc, live, list, sel, stack, mustReload, goingBack, file, daemon, spoiled>>

(* children.front() of an h1 or a link without text is no node either.     *)
NoText == draw.pc = "draw" /\ HasNoText /\ Panic

DrawTask ==
    \/ NoReload \/ Reload \/ Call \/ OpenFails \/ Reject \/ Install \/ Explore \/ NoTitle
    \/ Push \/ Free \/ ClearFlag \/ Draw \/ NoText

Next == Daemon \/ DrawTask \/ PopAmidPush

Spec == Init /\ [][Next]_vars

(* Both tasks run: neither blocks on anything but the display and the      *)
(* mutex, which only the draw task takes.  No press has to happen.         *)
FairSpec == Spec /\ WF_vars(DrawTask) /\ WF_vars(Daemon /\ daemon.pc # "idle")

-----------------------------------------------------------------------------
(* Every variable holds values of its type.                                *)
TypeOK ==
    /\ dom \in DomIds \cup {Null} /\ doc \in [DomIds -> Files] /\ live \subseteq DomIds
    /\ list \in Seq(Node) /\ sel \in Nat /\ stack \in Seq(Names \cup {Torn})
    /\ mustReload \in BOOLEAN /\ goingBack \in BOOLEAN /\ spoiled \in BOOLEAN
    /\ file \in Names \cup {Torn}
    /\ draw \in [pc : {"render", "call", "open", "hung", "fill", "push", "free", "clear", "draw"},
                boot : BOOLEAN, add : BOOLEAN, old : DomIds \cup {Null},
                paths : SUBSET (Names \cup {Torn}),
                refused : {"never", "last", "before"}]
    /\ daemon \in [pc : {"idle", "request", "href", "popped", "requested", "top"},
                   node : Node \cup {Wild}]

(* Whatever the callbacks and the draw task do to it together, and however *)
(* many files fail to open, the stack of files keeps the home page at its  *)
(* bottom once a page was loaded, so m_file_stack.top() in go_back never   *)
(* reads an empty stack (renderer.cpp:103-111, 233-244, 270-282).          *)
HistoryRooted ==
    /\ stack = <<>> <=> dom = Null \/ (draw.boot /\ draw.pc # "free")
    /\ stack # <<>> => stack[1] = Home

(* The draw task only draws a DOM that is allocated, with the selectable   *)
(* nodes of that DOM, and leaks none (renderer.cpp:269-306).               *)
PageOwned ==
    /\ dom # Null => dom \in live
    /\ live \subseteq {dom, draw.old}
    /\ draw.pc \in {"render", "draw"} =>
         /\ live = {dom} \ {Null}
         /\ list = IF dom = Null THEN <<>> ELSE
                   [i \in 1..Len(Links[doc[dom]]) |-> [dom |-> dom, href |-> Links[doc[dom]][i]]]

Quiet == daemon.pc = "idle" /\ ~mustReload /\ draw.pc \in {"render", "draw"}

(* As long as nothing spoiled the navigation, the file on top of the stack *)
(* is the page on the screen whenever nothing is under way.  A page that   *)
(* go_back has popped and could not load is the exception, and only until  *)
(* the next page is loaded (renderer.cpp:90-111, 240-282).                 *)
HistoryAgrees ==
    Quiet /\ ~spoiled /\ dom # Null /\ draw.refused # "last" =>
        Last(stack) = doc[dom]

(* renderer.h:76: interact "Interacts with the currently selected node, if *)
(* there is one", so with a list on the screen one of its nodes is the     *)
(* selected one.                                                           *)
SelectionInBounds ==
    Quiet /\ ~spoiled /\ list # <<>> => sel < Len(list)

(* A valid page that was asked for is on the screen in the end, unless its *)
(* file could not be opened, the navigation is spoiled or the firmware     *)
(* restarts meanwhile (renderer.cpp:240-244, 270-282).  Who asks for a     *)
(* file that is no valid page is not answered: the draw task ends in       *)
(* maybe_error.  The file that is shown is the one asked for, as to ask    *)
(* for another one before the answer spoils the navigation.                *)
Refused == draw.pc = "clear" /\ draw.old = Null
Answered ==
    mustReload /\ daemon.pc = "idle" /\ file \in Files
        ~> (draw.pc = "draw" /\ dom # Null /\ doc[dom] = file) \/ Refused \/ spoiled \/ draw.boot

(* The history a user sees: a page that go_back has popped counts until    *)
(* the page below is installed, a new page from its installation.          *)
BackPending ==
    \/ daemon.pc \in {"popped", "requested", "top"}
    \/ goingBack /\ (mustReload \/ draw.pc \in {"call", "open", "hung"})
PushPending == draw.pc \in {"fill", "push"} /\ draw.add
Seen == IF BackPending \/ PushPending THEN Append(stack, doc[dom]) ELSE stack

(* Until a callback overlaps a load or uses a stray selection, or the page *)
(* to go back to cannot be opened, navigation is a browser history         *)
(* (renderer.cpp:90-111, 240-298); after that nothing is promised until    *)
(* the firmware restarts.  A link that cannot be followed changes nothing. *)
History == INSTANCE Browser WITH
    history <- IF spoiled \/ draw.refused # "never" THEN <<>> ELSE Seen
Browses == History!Spec
=============================================================================
