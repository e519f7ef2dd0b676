# The Mouseless Mouse firmware in TLA+

The repository is the firmware of an ESP32-S3 pointing device with a small
display that shows pages in its own markup language, 3ML. It runs on FreeRTOS
on two cores. These modules model the parts whose correctness depends on the
order in which tasks, timers and interrupts run, and TLC and TLAPS check them.
`PROJECT.json` maps every definition to the lines it models.

## The system

| task or context | core, priority | runs |
|---|---|---|
| GPIO interrupt | any | `Button::ISR` |
| FreeRTOS timer daemon | 0, 1 | `Button::DebounceCB`, `Button::cbInvoker`, and through them the renderer's button callbacks |
| USB task | any, 24 | TinyUSB callbacks: shell input, line state, disk access |
| Draw Task | 1, 1 | `Renderer::load_file`, `Renderer::render` every 34 ms |
| IMU Polling, Touch Reporting | 1, 1 | pointer motion and mouse buttons over BLE |
| Shell Evaluator, Shell Greeter, Display Dimmer | 1, 1 | one-shot tasks started by the other ones |

The components, the state each keeps, and what makes it correct:

| component (source) | state | operations | correct when | status |
|---|---|---|---|---|
| Buttons (`button.cpp`) | level, press time, interrupt, debounce timer; the daemon's queue | attach, ISR, poll, DebounceCB, cbInvoker | events in the documented order, one state change per debounce interval, no button left without its interrupt, no lost send | modelled |
| Page navigation (`3ml_renderer.cpp`) | DOM, selectable nodes, selection, file stack, reload flags | select_next/prev, interact, go_back, render, load_file, load_dom | a browser history; no freed DOM drawn; requests for valid pages answered, also after a file could not be opened | modelled |
| Scrolling (`3ml_renderer.cpp`) | scroll height and target, total height | the same callbacks, render | viewport inside the document, selection visible once at rest, as far as the callbacks do not come between a frame's clamp and its filter | modelled |
| Task wrapper (`taskwrapper.h`) | parameters, handle, running flag | operator(), stop, apply | no block freed twice or used after free; a launch gets its own arguments | partly |
| Line editor (`state.cpp`) | buffer, cursor, parser stack, escape state | serialDataCB and the two parsers | edits a line that fits the buffer as a user expects; cursor in the text | modelled |
| Command parser, registry (`state.cpp`) | registry, the evaluator's arguments | parseCmd, registerCmd, the evaluator | words and quotes split as typed, arguments intact when read; a registered command is found | all but the commands |
| Logs and monitors (`state.cpp`) | two registries | TaskLog, TaskPrint | no concurrent modification; cursor save and restore paired | not modelled |
| 3ML parser (`3ml_parser.cpp`) | the tag stack and the tree of one call | parse_string, remove_escape_codes, trim | the tree is what was written; texts as meant | all but the spelling of tags |
| 3ML cleaner (`3ml_cleaner.cpp`) | none across calls | clean_dom | accepts exactly the valid pages; every word of the tree kept, lines not too wide; counts agree | all but heights |
| JavaScript (`3ml_jsbindings.cpp`) | the children of a node | get_element_by_id, inner3ML | what a script writes is shown like the text of a page | these two |
| Motion sensor and pointer (`sensor.cpp`, `main.cpp`) | the sensor, the time of the last report, `mouseInitialized`, the BLE mouse | init, poll, the IMU task | the pointer resumes after any fault; a working sensor is never restarted; no report before the mouse has begun | modelled |
| Touch pads (`touch.*`, `main.cpp`) | status bits, the left button | ISR, the touch task | the host ends up with the button as the pad is touched | modelled |
| Boot (`main.cpp` setup) | what is already started | setup | nothing used before it is initialised | registration of `tree`, start of the pointer |
| USB glue, display, battery, settings, diagnostics | registers, files | I/O | - | not modelled: I/O without a state machine of its own, or not called |
| `lib/` (Duktape, TinyUSB, BNO08x, BLE) | - | - | - | not modelled: third-party |

How they interact: a press raises the interrupt, whose event goes through the
timer daemon's queue to a callback of the renderer; the callback changes the
selection and sets flags that the draw task reads in its next frame. The host
sends bytes to the line editor; Enter hands the line to the command parser,
which starts the Shell Evaluator through the task wrapper; its prompt asks for
the next line. A change of the serial line state starts the greeter the same way. The
IMU task and the touch task share the report of the BLE mouse: each sends the button
with its motion, or the motion with its button.

What is hard: the callbacks and the draw task share the renderer without a lock
(`m_dom_mutex` is only ever taken by the draw task); the wrapper's fields are
written by the launching and by the launched task; every send to the timer queue
ignores its result; the interrupt and the daemon poll the same button. `hazards`
in `PROJECT.json` lists each of these at its line.

## Modules

**Button**, with the abstract **ButtonEvents**. One action for the pin, two for the ISR and one
each for the daemon's steps. Whoever polls a button reads the clock first (`EnterISR`,
`DebounceCB`) and the pin later (`ISR`, `PollDebounced`), and ticks may pass in between;
`callTime` is what was read. The other statements of the ISR are taken together: the daemon
may run on the other core at the same time, but the ISR only appends to the queue and otherwise
touches what nobody else does before it has detached the interrupt. The daemon takes a
command (`Dispatch`), or runs an expired timer up to the poll, the callbacks (`Invoke`) and
the end (`Rearm`). `queue` is the daemon's command queue, `daemon` the locals of a DebounceCB under
way; `Post` drops what does not fit, as a send without waiting does. `age`, `lag`, `held` and
`last` are ghosts: the ticks since a change of state was seen, since the clock was read for the
poll under way, and since it was read for the poll that saw the present press, and the last event.
A timer that is reset counts its period from the moment the reset was issued. The constructor
takes a button for released, so the initial states let the pin be either way.

**Renderer**, with the abstract **Browser**. Each statement of a callback or of
`load_file` that touches shared data is a step of its own. A DOM is an address out
of `DomIds` with the file it was parsed from, a selectable node is its DOM and its
href. Deleting the old DOM turns a node that a callback still holds into `Wild`;
an index beyond the list gives `Wild` too. What is read through a wild node is
arbitrary: either type, any path, or a fault that restarts the firmware (`Panic`).
`load_file` is given the characters of `m_current_file` (line 242), and reads them when it opens
the file and again when it pushes: `paths` is what they may read as, which are the name
as it was, and after a callback has assigned another one that, or garbage (`Torn`), too.
A file of `Invalid` is rejected by the parser or the cleaner, and the draw task ends in
`maybe_error`'s endless loop (`Reject`, "hung"); a page of `Hollow` has a title, heading or link without
text, whose `children.front()` is taken without a look (`NoTitle`, `NoText`) and is a fault.
The stack has no lock: when go_back pops while the draw task pushes (`PopAmidPush`), any of the outcomes
that two overlapping deque operations can leave is possible, or a fault. The ghost
`spoiled` remembers that a callback has overlapped a page load, or asked for a page that will
never come as the draw task hangs, or used a selection beyond the list; what the renderer does
in that case follows the code like everything else, only `HistoryAgrees`, `Browses` and
`Answered` promise nothing.
Any file may fail to open, as there may be none of that
name, or the host has deleted it or is writing to the disk over USB: at boot that
leaves a blank screen, later the page stays. When it happens to `go_back` the popped
page is still shown but is no longer in the history, which the ghost `refused` of `draw`
keeps apart. `Seen` is the refinement mapping: `go_back` pops the stack long before the page
changes and `load_file` pushes after it has, so the history a user sees is the
stack with the page on the screen put back while either is pending.

**Scroll** is the other half of `select_next` and `select_prev` with `render`'s
smoothing filter, one step per statement on the data they share: a callback sets the target,
tests it in `clamp_scroll_target` and assigns the clamped one, a frame tests, assigns and
filters, and either can come between any two statements of the other. (The two comparisons
of the clamp read the target once: they compile to one load.) The filter computes in
unsigned numbers, modulo `Word`. The first frame of a page draws its nodes one by one,
which sets their tops and bottoms. A load is one step at the start of a frame, which a callback may
be amid of, but none begins during a load; it keeps the selection valid (that it may not be
is `SelectionInBounds` of Renderer). Two ghosts keep apart what the properties except. `stale`:
the target was written after the frame has tested it, so the filter uses one that was never clamped.
`callback`: "select" is a selection made at rest; "early" is one made while the page still scrolls or was
not drawn yet, which is judged by a height that the page is leaving; "lost" is one whose target a
frame that had tested an older target wrote over.

**TaskContainer** has one step per statement of `operator()`, `stop` and
`apply`. The variable `client` says who launches and when: the greeter tests
`isRunning`; the dimmer is started and stopped in turn; the shell's evaluator is
launched unconditionally, by a host that waits for the prompt or for the end of
the task. The n-th launch allocates block n and creates task n. Two facts about the
surroundings are assumptions and stand in `MayReturn`: the dimmer never returns, and
the greeting cannot end while the USB task is still inside `operator()`, since it
is longer than the serial FIFO and only the USB task empties that.

**LineEditor**, with the abstract **Line**. One action per branch of the two
parsers; the shifting loops are recursive functions over the buffer with the loops'
order of assignment. Bytes left behind the NUL by older lines are kept, as the loops
that look for the end of the text could run into them. Nothing in the code stops a line that
fills the buffer: a byte more shifts the NUL out of it, and the loops run on through the memory
behind. The model goes to that step and ends there: the buffer is no longer `Terminated`, and `Overrun`
is all that follows. By itself the module lets
`parseCmd` leave NULs at any place of the line it has cut up. Of `seq` only the first
two bytes are kept, as the code only compares it with two sequences of that length.

**Shell** extends LineEditor with `parseCmd`: `Parsed` is its loop, one byte per
application of the function `loop`, which starts with `Start` and takes a `Turn` per byte, with
`Take`, `Quote` and `Space` for its branches; `RunLine` cuts the buffer with the result, looks the name up and launches the
evaluator, which keeps indices into the buffer and reads them in `Evaluate`. `Mount`
and `Inserted` are the end of `setup`, which inserts `tree` beside the running USB
task; a lookup during the insertion finds or misses any entry (should it crash, the
firmware starts again from `ShellInit`). `Written` and `Line` say how a user writes a
list of words, and `RunsAsWritten` and `FindsCommand` compare what the code does
with that. Bounds: the text changes at most once before the evaluator reads
its arguments, and no second line is entered before it has. A host that types on while the
evaluator still runs can write over the arguments, which is outside `RunsAsWritten`;
TaskContainer shows what happens to a second line.

**PlainText**, **Cleaner** and **Markup** take a page from text to DOM. PlainText
has the texts: escape codes byte by byte, and the wrapping into lines. Cleaner is
`clean_dom`: a node of the parser is a text or a name with attributes and children, a
DOM node keeps its type, lines, children and counts; a failed check is the value
`Hang`, as `maybe_error` never returns, and a text without a parent is `Fault`. Markup
is `parse_string` as a state machine that reads a text or a tag per step, with the tag
stack and the tree as variables, and then cleans the tree. `parse_string` first makes a list
of all tags and texts and then builds the tree; taking the two loops together only
changes which of two errors stops the firmware. The ghost `read` is the
page as it was meant, tag by tag and text by text; a text with more than one code counts as the code
reads it (`OneCode`).
A text with an unprintable character is an error (`Unprintable`); tabs and line ends are white space
like the space, which is all that the wrapping and the trimming ask of a character. At the end of the
file the tags that are still open are dropped with all that stands in them and behind
them, as the code only returns the first level: `Whole` is the part of what was read before
the first tag that is never closed, by a definition that counts tags and does not look at the tree. Widths are in characters, as the font has one width, and
`Columns` gives them for each type of node. Line breaks in texts and escape codes in
attributes are left out. A page that was cleaned can be written to by scripts:
`GetElementById` is the breadth-first search, by paths, and `SetInner3ML` puts what
`clean_node` makes of a script's text in place of the children, without the checks and
counts of `add_child`; `list` stays what it was when the page was loaded. The ghost `page`
is the tree the DOM should show: the one that was read without the empty texts in its
elements, and with what scripts have written; `KeepsText` compares it with `Whole` of what was
read until a script writes. Trees are the sets `Nodes[MaxDepth]` and `DomNodes[MaxDepth]`,
built level by level, so that what descends into them is a recursive function, which can be
proved about, and not a `RECURSIVE` operator. `MaxDepth` bounds the nesting of elements,
`Attributes` is the set of attribute lists that occur.

**Pointer** is `BNO086::init` and `poll`, the IMU task that runs them, the touch interrupt
and the touch task. Time stands in units of poll's shortest delay and only passes where
the IMU task waits, as `since`; a sensor warms up by the same time. A rotation vector
comes when the report has been enabled for `Warmup`. The sensor can reset by itself, hang
until it is restarted, or send other events, and every call to it can fail; a report to
the host can be lost. `Fault` counts these. A failing `init` ends the IMU task at boot and
is ignored later. Each `init` pulses the reset pin, at boot begins the bus, and begins the sensor,
in this order. `mouse.move` reads the buttons before it sends them (`Move`, `SendMove`),
so that it can carry an old button past the report of a new one. Both builds are there,
as `pulse`: the Basic edition holds the reset pin for 300 ms, the Pro has none.
The ghost `trouble` says what has befallen the sensor since its last reading: it was reset, it has
failed, or it has failed and an `init` has gone well since ("restarted"); a second blow makes it
"failed". Poll sets `lastReportTime` before it calls `init`, so the delays of a restart count towards the
next timeout.

The MC modules hold the constants TLC needs. **ButtonProofs**, **TaskProofs**,
**PointerProofs**, **RendererProofs**, **ScrollProofs**, **ShellProofs** (of LineEditor and
Shell) and **MarkupProofs** (of PlainText, Cleaner and Markup) hold the proofs; the last three
use **Induction**.

## Runs

| run | asks | bounds |
|---|---|---|
| ButtonOne | `Debounced`, `HoldIsLong` on a bouncing pin | debounce 2 ticks, long press 3, clock modulo 6: a press can be shorter, equal, longer and across the wrap, and any number of ticks can pass between a reading of the clock and of the pin |
| ButtonTwo | `OneOwner`, `SlotOrder`, `NoCommandLost`, `Delivers` for both buttons, and `Settles`, as neither starves behind the other | 1 tick each; a queue of 6, the least that `QueueAssumption` allows (the target has 10) |
| ButtonEdge | finding: an edge before the re-attachment is missed | as ButtonOne, with the callbacks the board registers |
| Renderer | `HistoryRooted`, `PageOwned`, `HistoryAgrees`, `Browses` under all interleavings, and `Answered` | a page with three links, one with two and one whose heading has no text; a file that is no valid page, and any file missing at times; a link of another type; two DOM addresses, as at most two are allocated; a stack of two files (more only for the theorems, which have no bound), so links are followed from the home page, and from the page reached when go_back could not open its file |
| RendererSelection | finding: the selection survives the load of a shorter page | as Renderer |
| Scroll | `StaysInDocument`, `ComesToRest`, `SelectedVisible` with callbacks between any two statements of a frame | the firmware's sizes in quarters of its pixels (viewport 37, step 10, padding 1), and a `size_t` of 1024 values, so that a wrap is far outside any page; a page of two and a half viewports and one that fits |
| Tasks | `MemorySafe`, `NoLeak`, `OwnArguments`, `OneBody`, `FlagTruthful`, `FlagClears` for three clients | four launches: any task can overlap the next launch, and a creation that fails can come before, between and after |
| TaskPrompted | finding: the evaluator frees the arguments of the next command | as Tasks |
| Shell | `EditsLine`, `CursorInText`, `OverrunsWhenFull`, `RunsAsWritten`, `FindsCommand` | a buffer of 6 bytes, that is lines of five and the sixth byte that overruns it: three words, or two with one quoted; a letter, the space and the quote as text, cursor keys and other escape sequences; commands of which one is a prefix of the other |
| Markup | `ReadsAll`, `KeepsText`, `CleansValid`, `CountsSelectable` | three elements, so two siblings in a body or a path of three; two texts that are not empty, one of them of three words about as wide as a line, with a code for a space, others with one and two escape codes or with an unprintable character; every order of 13 tags, valid or not, also with tags that are never closed; scripts that write any of three texts to an element with one of two ids, any number of times; a nesting of five, so that a script can write two levels below a path of three |
| MarkupIndex | finding: a link is drawn under another node's index | as Markup, without scripts |
| Pointer | `UsesBegunMouse`, `CrashIsReal`, `Resumes`, `FollowsTouch` | the firmware's times in units of 20 ms; both builds; a sensor as slow as init allows (200 ms); three faults, so that the restart after one fault can be hit by a second and its timeout by a third |

Each module that is run has one type invariant (`ShellTypeOK` contains LineEditor's; that of
TaskContainer is a theorem and not among the run's invariants).
`CHECK_DEADLOCK FALSE` stands in the runs of TaskContainer, where the
launches are bounded and the system stops after the last one, and in those of Markup,
where a page is read once and an error stops the firmware. Properties that only
speak of words a user may write (`RunsAsWritten`, `FindsCommand`) quantify over all
word lists up to the length of the buffer.

### Fairness

*Button*: ticks go on, a raised interrupt is served to its end, and the daemon never leaves its
loop. Its two kinds of work compete, so taking a command and running an expired
timer are strongly fair: FreeRTOS processes expired timers before each command and
all commands in order. *Renderer*: the draw task and a callback under way go on;
no press has to happen, and a draw task that hangs in an invalid page takes no step at all. *Scroll*: frames are drawn. *TaskContainer*: a launch that
has begun and a task that was created go on; nobody has to launch or stop anything.
*Pointer*: both tasks run (they share a core and a priority, and both sleep) and the touch
interrupt is served; the sensor's faults are bounded, and nobody has to touch anything.

### Findings

* **ButtonEdge** (`button.cpp:42`): the pin is sampled, then the interrupt is
  attached. A release in between leaves `state` pressed until the next change, so
  that press raises nothing and its release is taken for the end of a long press.
* **RendererSelection** (`3ml_renderer.cpp:94,140`): `m_current_selected` is never
  reset; on a shorter page it indexes past the end of the vector.
* **TaskPrompted** (`taskwrapper.h:54`): the prompt is printed before the evaluator
  frees its parameters, and the next launch may come in between.
* **MarkupIndex** (`3ml_renderer.cpp:190`): `render_node` counts the links it draws,
  but the list it indexes also holds buttons, sliders and text inputs; the position
  of a link after one of these is kept under the wrong node.

Three more places disagree with a comment and have no run of their own. `button.h:18` has HOLD for
a press longer than `LONG_PRESS_DURATION`, `poll` (`button.cpp:67`) also for one of just that duration;
`HoldIsLong` leaves that press open. `3ml_renderer.h:57-58` says that `clamp_scroll_target` keeps
the screen inside the document. But `select_prev` subtracts (`3ml_renderer.cpp:74`) before it clamps, and a
frame that has clamped before the one and filters before the other takes the unsigned viewport
from the top of a page below zero, that is a quarter of `size_t`'s range down, from where it takes dozens of
frames to come back; `StaysInDocument` leaves that frame out (`stale`). And `3ml_renderer.h:68-69` says that
`select_next` scrolls until the node is visible. It asks whether the node is visible where
the page is now (`3ml_renderer.cpp:59`), and before the first frame all nodes are at 0: a link that is
taken for visible and is not, or is about to scroll out, stays outside; `SelectedVisible` leaves
out what was selected then ("early").

Where nothing in the repository says otherwise, the models also show this:
the number of an escape code is never reset, so a second code in one text
continues the first (`EscapeEnd`); nothing keeps a line from running past the end of its buffer
(`state.cpp:57-63`; `OverrunsWhenFull` says exactly when); a page that is not valid leaves the draw task in an
endless loop, so that no later request is answered (`Reject`); a heading, link or title without text reads
`front()` of an empty vector (`NoText`, `NoTitle`); a closing tag without an open one reads `back()` of
an empty vector (`CloseTag`); tags still open at the end of the file vanish
with all that stands behind them (`EndOfFile`, `Whole`); an `<input>` without a type becomes a link or stops the firmware
(`InputType`); a button held down at boot is taken for released (Init of Button). When
`go_back` cannot open its file, the page on the screen has left the history, and the next
`go_back` skips to the page below it (`OpenFails`). A script that writes a link makes
`render_link` use an index that belongs to another node, or, in a page without
selectable nodes, to none (`LinkIndexed` fails there too once `Ids` is not empty). The 500 ms after
which a sensor is taken for crashed include the restart itself (`Restart` sets `since`
before `init`): on the Basic edition a restart takes 600 ms, so that a sensor that needs more
than the 200 ms of `TimeAssumption` for its first vector is restarted for ever. The
touch task looks every 500 ms, so a shorter tap may never be seen, and `FollowsTouch` only
speaks of touches that last. A sensor whose `init` fails at boot is never tried again.

## Proofs

Each theorem speaks of every value of the constants that the named assumptions of its
module allow, and TLC evaluates those assumptions in the runs. The inductive invariants
(`IInv`, or where a module has several `PageInv`, `SelectionInv`, `ShellInv`) were found to
hold by TLC before they were proved; those of Markup relate whole sets of trees, which TLC cannot
enumerate, so there TLC only checks the properties themselves.

### Button

`ButtonProofs` proves of `Spec`, for every set of buttons, every choice of
callbacks and every duration, under the assumptions of Button (durations and the
clock fit each other, `Buttons` is finite, and the queue has three slots per button):

* `TypeCorrect`: `[]TypeOK`
* `NeverForgotten`: `[]OneOwner`
* `CommandsInOrder`: `[]SlotOrder`
* `NothingLost`: `[]NoCommandLost`

The inductive invariant is `IInv == TypeOK /\ OneOwner /\ SlotOrder`. `OneOwner` alone is
enough for its own preservation by the daemon, and it is what `SlotOrder` needs: the
interrupt of a button can only be raised when none of its commands is queued, so
the commands one ISR appends are the only ones of that button and come in the order
of their slots. `NoCommandLost` is not inductive but follows: by `SlotOrder` the map from
queue positions to (button, slot) is injective, and the slots of a button whose
interrupt is raised, or which is being served, are all free; so the queue holds at
most three commands for each of the other buttons (`QueueBound`, `Room`), and what
remains is room for the two events and the reset. The invariant in turn relies on
that room, since `Post` would drop a reset otherwise: each step first shows
`NoCommandLost` of the present state (`InvariantHasRoom`), and then that the whole
of what it sends is appended (`PostAll`).

It also proves `BounceIsFiltered`, `Spec => Debounced`, and `HoldsAreLong`,
`[]HoldIsLong`. The first is about the ghost `age`, the ticks since a state changed. `Aged` says
that a button's debounce timer never runs ahead of it and that the interrupt is only
attached when the last change is a debounce duration ago, so that whichever of ISR and
DebounceCB changes the state next, it does so late enough. How long a press lasted the code only
knows by two readings of the clock, each some ticks before the pin is read: `HoldIsLong`
says HOLD if the time between the two samples of the pin, less the second delay, is more than
the duration, and CLICK if that time and the first delay together are less. Exactly the duration is
left open, because there the code and `button.h:18` differ. `Timed` says that while
a poll is under way the tick counter is `Ahead` of `callTime` by `lag`, and during a press shorter than
the clock's range of `pressTimestamp` by `held`, or has wrapped once since; the remainder `HeldFor`
is `held - lag` in all cases (`HeldForTicks`).

Last comes the refinement, `EventsInOrder`: `Spec => Delivers`, from the
assumption that every button has a callback for every event (with fewer callbacks the
sequence has gaps and Delivers does not hold; the board registers only some, and
then the other properties are what holds). An event is `Due` from the poll that raises it
until its callback is called, in the queue or in what DebounceCB has still to call. `Ordered`
relates what is due, the state and the event delivered last: nothing due means the last
event is that of the state; a PRESS is due only after a RELEASE, a CLICK or HOLD
only after a PRESS and with the RELEASE to come. A poll finds nothing due, because by
`OneOwner` its button is neither queued nor served (`NothingDue`), so what it raises is all
there is (`PollDue`); the daemon takes the commands of a button in slot order by
`SlotOrder`, and its own calls in the order of `Called`, so each delivery is the first of
what is due (`DeliverFirst`) and a step of ButtonEvents.

### TaskContainer

`TaskProofs` proves `TypeOK`, `MemorySafe`, `NoLeak`, `OwnArguments`, `OneBody` and
`FlagTruthful` for any number of launches, of the clients that look before they launch:
the greeter and the dimmer look at `isRunning`, the patient host waits until the task
is gone. Each theorem assumes `"prompted" \notin Clients`, the host that goes on at the
prompt; what happens then is the finding TaskPrompted.

`IInv` says that such a client has at most one task that still touches the container, the
one launched last, and none while it launches (`Newest`); what the client finds in
`isRunning` and `handle` at each of its statements (`Guarded`); and which block `params`
owns at each statement of the launcher and of that task (`Owned`). `MemorySafe` and
`OwnArguments` are parts of it, because a block freed twice is only known by having
been noted. `NoLeak` needs `Owned`: while a task has freed the block and not yet
cleared `params`, the block is gone and the pointer is not.

### Pointer

`PointerProofs` proves `TypeOK`, `UsesBegunMouse` and `CrashIsReal` for every build, any
delays that fit `TimeAssumption` and any number of faults.

`UsesBegunMouse` follows from `Begun`: the flag is only set after the mouse has
begun, and both tasks are past it when they use the mouse. `CrashIsReal` says that poll
only restarts a sensor that has failed, or suffered twice, since its last reading, and that one restart
that went well is enough. It needs an account of time (`Healthy`, `Clock`): while
`trouble` is "none" or "reset", poll has waited no longer than the sensor has been warming
up, plus one delay for a reset that poll has not noticed; with `Warmup` within the bound of
`TimeAssumption` the wait stays below the timeout. After a restart `since` already counts its
delays, which on the Basic edition are longer than the timeout; but the sensor has warmed up
during the last two of them, so the reading is there when poll looks next ("restarted" in `Healthy`).
A second reset before a reading makes `trouble` "failed", since two
warm-ups in a row may take longer than the timeout.

### Renderer

`RendererProofs` proves `TypeOK`, `HistoryRooted` and `PageOwned` for any pages, any links
between them and any number of visited files.

`IInv` follows the draw task, which alone installs and frees DOMs and fills the list: at
each of its statements `Allocated` says which DOMs are allocated, and when there is
one at all (none is only possible at boot), and `Listed` that the list holds the first nodes of
the page, all of them once it is filled. `Pending` is what a callback under way
relies on: go_back has looked at the length of the stack before it pops and reads the
top, and only the draw task adds to it in between. The stack grows with `Append` and
shrinks with `Front`, so the home page stays first (`FrontForm`), also when the two meet
(`PopAmidPushForm`): the entry at the bottom is touched by neither, as go_back leaves one.

It also proves `ScreenIsTop`, `[]HistoryAgrees`, and the refinement
`NavigationIsHistory`, `Spec => Browses`. Both speak of runs in which no callback overlaps a
load, which the ghost `spoiled` notes, so the invariant `Tidy` is that `~spoiled` implies four
parts. `Turns` says that the two tasks then take turns, and what the flags
`mustReload` and `goingBack` are at each statement of either. `Asked` follows
`m_current_file`: what was asked for is the file below when going back, it is all that the argument of
`load_file` can read as, and it is the file the page was parsed from. `OnTop` is `HistoryAgrees` during a request as well: the
stack's top is the page shown unless a push or a pop is pending. `Linked` says
that a link which is followed is one of the page shown, which is Browser's guard. In
the refinement the load that puts the page on the screen (`Install`) is the step of Browser,
whether it follows a link or goes back: until then a popped entry still counts, and from
then on one not yet pushed does. All other steps stutter, except those that spoil the
navigation or restart the firmware, which are Browser's restart.

### Induction

The loops of the code are recursive functions in the models, over the places of a buffer,
of a page or of a text. An induction theorem with a predicate for its parameter cannot be
used by the provers, so `Induction` says it with sets: a set that contains the
beginning of an interval and with each number the next one contains the interval (`UpTo`,
`DownTo` backwards, `FromAbove` with all greater numbers as the hypothesis). They follow from the
well-foundedness of the natural numbers. With them, `Recursion`, `RecursionDown` and
`RecursionAbove` show that a function exists that satisfies a recursive definition: this is what
makes the value of a `LET f[n \in S] == ...` known at all.

On this rest the facts about sequences that the proofs about texts, trees and tokens share: a sequence is
built prefix by prefix (`Prefix`), `FlattenSeq` joins sequences one after the other (`FlattenIs`), `Map` and `Chosen`
are what becomes of each member and which members are in a set. `LevelRecursion` says that a step that
looks only at what it has made of the levels below defines a function, as trees need it.

### Scroll

`ScrollProofs` proves `TypeOK`, `StaysInDocument` and `SelectedVisible`, for pages with any
number of nodes of any height, and callbacks between any two statements of a frame. That a node's
height is the sum of those before it, and that the
list of links leads to links in the order of the page, comes by `UpTo` (`StartSums`,
`LinksAreLinks`). `PageInv` says that once a page is drawn its height is the one the
nodes add up to and the selection is an index of the list; that the target is one to rest at (`Targets`)
except between a callback's first assignment and its clamp; and that what a frame will assign, or will use
unless a callback writes it in between, is inside the document. The viewport itself may be anything
the filter can make of a target below zero, and still stays where the filter does not overflow
(`Wraps`, `FilterBounds`).

`SelectedComesIntoView` assumes `LinksFit`, that no link is taller than the viewport, as a taller one
cannot be seen whole (renderer.h:68-69 asks for the whole node). A target `Aims` at the link if it clamps
to where the link's own top does. `SelectionInv` says that after a selection at rest either the link is in
the viewport and nothing moves (`Shown`), or the callback is about to assign such a target (`Pending`),
or has (`Settling`); a frame that clamps between may assign the same or makes the callback "lost". At rest
the viewport is at most three pixels above the target, and a target that was clamped leaves the link
visible at the page's end.

### LineEditor and Shell

`ShellProofs` proves, of `ShellSpec`, for a buffer of any size and lines of any length:
`ShellTypeOK`, `CursorInText`, `OverrunsWhenFull`, the refinement `EditsLine`, `RunsAsWritten` and
`FindsCommand`.

The first part is the editor. `LineInv` says that the buffer has a NUL at or behind the cursor
and only letters before it, so the search for the end stops inside the buffer and the text
is what precedes that NUL (`NulIs`). No bound in the code keeps it so, and it is no invariant of the
specification: the invariant is `ShellInv \/ LostInv`, that the shell has its line or has lost
the NUL. `FullLineOverruns` shows that the way from the one to the other is a byte typed into a line
of `Size - 1` bytes (`OverrunStep`), always and only; so the other theorems hold up to there. The two shifting loops work in place, in opposite
directions; `ShiftRightMoves` and `ShiftLeftMoves` show that each byte is read before it is
overwritten, `InsertBuffer` and `EraseBuffer` that the text changes as a sequence would, and
`EditStep` that every action is the step of Line of that name, or a stutter, unless it is the byte too
many (`FullLine`).

The second part is parseCmd, on lines that a user composes of `Words` as `WordAssumption` describes
them: no quote within a word, and a space or nothing only between quotes. `LineLayout` computes
where each word stands in such a line. `LoopReads` is the loop's invariant over the words: at the beginning
of a word (`Before`) the words before it are taken and the line behind is as it was
entered (`Intact`); behind a word (`Behind`) it is whole in the buffer, from `word` up to here or to
the NUL put over its closing quote. `Taken` says what it means to be taken: each argument is
an index where the word `Holds`, ended by a NUL in front of anything the loop has yet to touch. So
later turns leave it alone, and so do the NUL that Enter puts at the start and at most one edit there
before the evaluator reads: `ReadsWords`, from which `RunsAsWritten` follows. No argument is at
index 0, as the first word is the name, which is copied.

### Markup

`MarkupProofs` proves of `Spec`, for any texts, tags, scripts and widths, pages of any size
and elements nested to any depth:

* `TreeIsRead`: `[]ReadsAll`
* `MarkupTypes`: `[]TypeOK`
* `SelectableCounted`: `[]CountsSelectable`
* `ValidIsCleaned`: `Spec => CleansValid`
* `TextIsKept`: `[]KeepsText`

The assumptions are those of the three modules. `PlainTextAssumption` says that four literals are
strings, as the prover does not know that; `MarkupAssumption` says what the constants
contain, and that an ampersand that is meant as a letter is written as a code.

*Wrapping.* It gives up exactly on the texts that are not `Wrappable` (`WrapFails`), the
lines one after the other are the text (`WrapKeepsText`), and no line is empty, too wide,
broken within a word, or short of a word that would have gone in (`WrapFillsLines`). A line
starts where the one before it ends, so all of it is shown for the last line first (`FromAbove`).

*Reading.* `ReadsAll` is about the tree and the stack together. `TreeOK` adds that the finished
nodes and those on the stack are trees of the parser, each the shallower the deeper it stands in
the stack, so that closing a tag never nests deeper than `MaxDepth`. A node attached to the top of
the stack is read behind all that is there (`AttachStack`); a tag that closes moves a pair of
tokens from the stack into the tree (`TagClosed`). For the texts `ReadNext` follows the
loop of `remove_escape_codes` piece by piece: up to the first code the number is 0, so this
code is read for itself, and as long as there is one code only, what has been read is
what was meant. `ModeOK` is the part of `TypeOK` that ties the mode to the last token.

*Counting.* `Counts` says of a node of the DOM that its number of selectable children is the
length of what `Explore` finds in it. `CleanNode` is defined level by level, so
`CleanTyped` and `CleansCounted` show of each level what they have shown of the one below; `AddOne` and `TopOne`
are the loop bodies, and `UpTo` carries them along the children. `DomOK`, that
the DOM is made of trees and only there on a page that was cleaned, is kept by scripts too; they
change neither the count of the page nor the list.

*Validity.* The code makes and adds one node after the other and hangs at the first that does not
fit; `Valid` looks at whole nodes. `Allows` is the part of `Valid` about the children of a type, and `AllowsAppend` shows that it
grows as `add_child` checks: a child more is allowed if those before it were and the node still
`Takes` it. So after each child the node is there if and only if all so far are as
`Valid` wants them (`Accepted`, `AcceptedStep`). `IsJudged` then says of an element that cleaning it fails if and only if it is not
valid, one level after the other, and `CleanDomJudged` of the whole page.

*Texts.* `Shows` relates a node of the DOM with a node of the page: they are both texts, the one
the other in lines of the width of the parent, or both elements with children that show one another
one for one. The invariant `PageOK` says that the DOM shows the page. Cleaning establishes it (`CleanShown`). A
script replaces the children at the same path in both (`WithMatches`): `GetElementById` finds
a place with the id, by levels (`PathFound`); along the path to it the siblings in both trees
correspond (`MatchAlong`), and only an element can have an id, so the place in the page has
children too. From `PageOK` the lines follow by the two ways of listing
texts: `TextNodes` of the DOM descends by nodes, `Tokens` of the page mentions tags as well
(`SaysText`, `ForestSays`). That the page in turn is what was read is an account of the tags: with `OpenIn`
the tags open after some tokens, `WholeOK` says that the finished tree has the tokens of a part of
what was read that leaves none open, and behind which at least one tag stays open, one for
each in the stack. At the end of the file this part is `Whole` (`WholeIs`), whose definition
only counts tags. `PageReadOK` keeps that the page is the pruned tree, and pruning takes nothing but
empty texts (`ForestShows`, `PageShows`).

Trees and texts are data without a bound, and the induction over them is that of `Induction`:
`TreeInduction` shows that a set of nodes that contains each node whose children it contains
is all of them, and `TreeRecursion` and `DomRecursion` that a function over trees exists that satisfies
its definition. Without the latter nothing at all is known of `Valid`, `Pruned` or `Explore`.

### Only model-checked

What the findings refute cannot be proved. `FollowsTouch` of Pointer speaks of what eventually happens,
like the liveness properties `Settles`, `Answered`, `ComesToRest`, `FlagClears` and `Resumes`: the
provers have no rule for what fairness brings about. Everything else that the passing runs
check is a theorem.

Where the code goes wrong the statements stop short of it, in the runs and in the theorems alike:
`HistoryAgrees` and `Browses` at the first callback that overlaps a load, `SelectedVisible` and
`StaysInDocument` where a callback meets a frame's clamp, `EditsLine` where a line overruns its buffer,
`RunsAsWritten` at a byte typed while the evaluator runs, `ReadsAll` at texts with two codes, and `CleansValid`
judges only the elements that were closed. What the code does there is in the models.

## Plan

1. Proofs: every safety property and refinement that the runs find to hold is proved. What is left
   are the restrictions of the statements themselves.
2. In Markup: the events of a page (`onload`, `onbeforeunload`), which `load_dom` and
   `load_file` hand to the engine inside the draw task, so that a script may write to a
   page between its load and its first frame.

## Not modelled, and why

The registries of task logs and monitors (`state.cpp:199`): several tasks insert into a
`std::unordered_map` without a lock, whose outcome is undefined, and the repository
promises nothing that could be compared with it. Wording, colours and layout of output;
the echo of the line editor; the Duktape engine, the objects a script is given
and `load_js_file`; the events of a page; the BLE and USB stacks; the display's registers and DMA (`render` waits
for the previous frame before it draws, and nothing else uses the display);
the floating-point arithmetic of the pointer's motion; settings, which nothing calls. The
constructor and destructor of `Renderer`, `Button` and `TaskContainer` run at static
initialisation and never, respectively, as all instances are globals.
