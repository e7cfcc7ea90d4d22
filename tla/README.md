# A TLA+ model of libuiohook

libuiohook is a C library that hooks keyboard and mouse input of the whole
desktop and hands it to a callback of the application. It has one back end
for each of X11, Windows and macOS ("Darwin"). This directory holds TLA+
specifications of the back ends' own logic, the TLC configurations that check
them on small instances, and TLAPS proofs for every instance.

Source paths below are relative to the repository's root (`src/x11/...`); in
`PROJECT.json`, which maps each definition to the lines it models, they carry
the name of the directory the repository is checked out in.

## 1. Inventory

### Parts of the system

| Part | Source | State it keeps | Operations | Module |
|---|---|---|---|---|
| Public contract | `include/uiohook.h` | none | `hook_run`, `hook_stop`, `hook_set_dispatch_proc` | `UioHook` |
| X11 hook lifecycle | `x11/input_hook.c` 844-1139 | global `hook`, two displays, record context and range, xkb references | `hook_run`, `hook_stop`, `xrecord_*`, library constructor and destructor | `X11Lifecycle` |
| X11 event processing | `x11/input_hook.c` 100-842 | `hook->input`: mask, click counter, drag flag, xkb state | `hook_event_proc`, `initialize_modifiers` | `X11Input` |
| X11 input helper | `x11/input_helper.c` | keycode map, pointer map, which key table is used | load, unload, lookups | in `X11Lifecycle`, `X11Input`, `X11Post` |
| X11 system properties | `x11/system_properties.c` | helper display, `xrandr_resources` and its mutex, settings thread | screen and settings queries, constructor, destructor | `Screens`, `Settings`, `X11Lifecycle` |
| X11 posting | `x11/post_event.c` | the lock of the helper's display | `hook_post_event` | `X11Post` |
| Windows hook lifecycle | `windows/input_hook.c` 560-741 | three hook handles, `hook_thread_id`, `hInst`, message queue | `hook_run`, `hook_stop`, window event, `DllMain` | `WindowsHook` |
| Windows event processing | `windows/input_hook.c` 30-558 | modifiers, click counter, last point, static event | both hook procedures, reading the modifiers again | `WindowsInput` |
| Windows input helper | `windows/input_helper.c` | list of layouts, current layout, dead key, wheel remainders | load, refresh, translate, unload, wheel | `WindowsLocale`, `WindowsWheel` |
| Windows posting | `windows/post_event.c` | none (it rewrites the caller's event) | `hook_post_event` | `WindowsPost` |
| Windows system properties | `windows/system_properties.c` | the array that grows during a query | screen and settings queries, `DllMain` | `Screens`, `Settings`, `WindowsHook` |
| Darwin hook lifecycle | `darwin/input_hook.c` 1016-1436 | global `event_loop`, `hook`, message, main run loop source, mutex | `hook_run`, `hook_stop`, the hand-over of keys to the main loop | `DarwinHook` |
| Darwin event processing | `darwin/input_hook.c` 130-1014 | modifiers, click counter, drag flag, static event | `hook_event_proc` | `DarwinInput` |
| Darwin input helper | `darwin/input_helper.c` | `prev_keyboard_layout`, dead key state | `keycode_to_unicode`, `unload_input_helper` | in `DarwinHook` |
| Darwin posting | `darwin/post_event.c` | posted modifiers, kind and button of motions | `hook_post_event` | `DarwinPost` |
| Darwin system properties | `darwin/system_properties.c` | a connection to IOKit | screen and settings queries | `Screens`, `Settings` |
| Demo of a hook on its own thread | `demo/demo_hook_async.c` | two mutexes, a condition variable, the thread's status | `hook_enable`, `hook_thread_proc`, `dispatch_proc`, `main` | `DemoAsync` |
| Logger, other demos | `logger.c`, `demo/` | a function pointer | | not modelled |

### How the parts interact

The application calls `hook_run()`, which blocks its thread until the hook
ends. It installs the platform's hook, reads the state of the keyboard and
pointer, loads the input helper, and then serves events: each is translated
with the input helper into zero to three `uiohook_event`s that
`dispatch_event()` passes to the application's callback on the same thread.
On Windows and Darwin the callback may set `event.reserved` to keep the input
from the system. Any thread, and the callback itself, may call `hook_stop()`,
which only signals.

`hook_post_event()` may be called from any thread, the callback's included; on
X11 it uses the display and the tables of the input helper, which
`hook_run()` loads and unloads. The queries of `system_properties.c` may be
called at any time; X11's XRandR build answers them from what a thread of the
library's own keeps up to date.

No part of the library uses a lock between `hook_run()` and `hook_stop()`:
they share the global `hook` (X11, Darwin), the hook thread's id (Windows) and
the input helper (Darwin). The X server, Windows, and the Darwin run loops are
the other party of each platform's protocol: they hold the record context, the
message queues and silently removed hooks, the event tap and the main loop.

### What is hard here

* `hook_stop()` on one thread against every step of `hook_run()` on another.
* Stops from the callback, inside the delivery of an event, with more events in flight.
* A start of many acquisitions, each of which can fail.
* State that is read once and then followed by events: what changes in
  between, or while a hook was removed or a tap disabled, is missed.
* A key that has to be translated on another thread that may stop listening.
* Counters and clocks at their width, and click counts that depend on events
  long before.
* A cache of keyboard layouts while the user adds and removes them.
* An event posted as several requests, from several threads, with tables and
  buffers that a starting or ending hook replaces.
* An application that has to tell, on another thread, whether its hook started.

`PROJECT.json` lists these as hazards, each at its line, with the properties
that cover it. Where the code does go wrong, and a property names that case as
its exception or a configuration excludes it, the hazard has a note instead.

### What makes each part correct

* Lifecycle (all platforms): one `hook_run()` gives HOOK_ENABLED, input,
  HOOK_DISABLED and success, or nothing and an error; it ends exactly if it
  was stopped; nothing it acquired is left when it returns; the helper lives
  as long as keys are translated; a stop from the callback is never lost.
* Event processing: masks follow the keys and locks; events carry the right
  mask; click counts count presses; a click is not reported after a drag;
  motion is a drag exactly while a button is down; another `hook_run()` in the
  same process changes none of that.
* Helpers: a cache without dangling entries, dead keys that compose once,
  wheel rotation that is neither lost nor invented.
* Posting: a button goes down where it was asked to, the system holds what was
  posted and not released, what it is told about modifiers and drags agrees
  with that, and every post returns.
* Properties: the screens' array is as long as the count says and is filled
  within its bounds, from resources that are still there; a setting is the
  same whichever service answers.
* The demo: the status it reports is true, nothing is used after it is freed.

## 2. Modules

`UioHook` is the abstract specification. The three lifecycle modules each
instantiate it under a refinement mapping (`Contract == INSTANCE UioHook WITH
...`) and have `ImplementsContract == Contract!Spec` as a property. `DemoAsync`
uses it from the other side: its hook thread calls a library of which nothing
is known but the contract. The input
modules specify what happens while a hook is live and can be read on their
own: lifecycle modules reduce the events to "an input event was fired".

**Conventions.** Variables and operators have the names of the code where TLA+
allows it. Variables marked `history` are not in the code and no action reads
them in a guard except to keep a bound or to restrict the application
(`StopOnce`); properties compare the code's state
with them. A few definitions stand before the operator they vary and are
named as mutants in a comment: each is a plausible bug in that place
(`PROJECT.json` pairs each property with one) and the property fails when the
operator is replaced by it. The MC modules only define values for constants.

### X11

`X11Lifecycle` has the hook thread's control point `pc`, the fields of
`hook_info` as a concurrent reader finds them ("junk" before they are
assigned, "closed" and "freed" between a release and the assignment of NULL),
the record context on the server and the records on the wire, and for every
caller of `hook_stop()` its own control point. One action is one step between
two accesses another thread can see. Using a dangling value is undefined: the
process may die, `fault` then naming the culprit, or the step goes on with any
value the read could return. `EarlyStop` says whether other threads may call
`hook_stop()` before HOOK_ENABLED.

`X11Input` has the keyboard and pointer as the server knows them, the three
reads of the start (xkb state, `XQueryKeymap`, `XQueryPointer`) as phases with
user input between them, and one action per kind of recorded event. A key is
named for what it is to the code: a modifier, a lock, a keypad key, a key
with a character, a key with a character of two UTF-16 units. Coordinates and
wheel amounts are left out; no decision depends on them.

### Windows

`WindowsHook` has threads with message queues, three handles that are NULL,
live or stale, and how many hooks Windows really calls. A slow hook is removed
without notice; a window event reinstalls both input hooks. `WM_QUIT`s are
counted per thread. `StopOnce` restricts the application to one `hook_stop()`
per HOOK_ENABLED.

`WindowsInput` has both procedures, `current_modifiers` and the moments they
are read again from `GetKeyState()`, the click counter and the point of the
last click, the static event's `reserved`, and the clock modulo `TimeWrap`.
The dispatcher's decision to consume is a choice per event. `HookReturns` and
`HookRun` are the end of a run and the next one, which finds the click state
and the static event as they were left.

`WindowsLocale` has the list of layouts, `locale_current`, the DLLs loaded for
it and the dead key. A call that does not find the layout of the focused window
in the list (`Miss`) refreshes the list in a step of its own
(`SwitchUncached`), which reads the focus again: layouts and focus may change
in between (`missed` is the key that waits). One refresh is one step. The
history variable `refreshed` says that the list was refreshed since the pending
dead key was typed. Characters are pairs of bytes, since the code writes one
of them with `memset()`. `WindowsWheel` is `get_scroll_wheel_rotation()` with
its 16-bit accumulators; `MCWindowsInput` runs it beside `WindowsInput`.

### Darwin

`DarwinHook` has `hook_run()` on the main or another thread, the three ways a
key is handed to the main thread (directly, `dispatch_sync_f()`, or a run loop
source with a condition variable), the main loop that the application enters
and leaves, and `prev_keyboard_layout` with each of its unprotected tests and
releases. `DarwinInput` has `hook_event_proc()` with a tap that the system may
disable; what changes without a tap is unseen, and the next `hook_run()` reads
the modifiers and resets nothing else (X11's resets everything, so that
`X11Input` has one run). The build modelled is the default one, with the
application services and Objective-C.

### Posting

`PostEvent` has what the platforms share: the threads that post, the event
each has passed, the system's keys, buttons and pointer, and the history the
properties compare them with (`posted`: what was last pressed, by the name the
caller used; `lost`: what the system failed to take; `click`: where a button
was asked for and where it was; `overlap`: whether posts ran at once).

`X11Post` is the XTest build: one action per request, the lock of the display,
and `load_input_helper()` and `unload_input_helper()` on the hook's thread with
the lock only where Xlib takes it. The table a key is looked up in is the one
of the moment. `button_map_lookup()` reads the pointer to the button map three
times, in three steps (`LookupMap`, `FillMap`, `ReadMap`), while a hook may
free the map, set the pointer to NULL and allocate another map. Through NULL
the process ends (`pc` is "fault", and nothing moves any more); memory that was
freed, or a new map that was not filled, gives any button (`wild`). `caught`
has the threads whose post is in these three steps when a map is freed. What
else writing to freed memory may do is left out. `WindowsPost` has the mapping of an event to an `INPUT`,
the nested post of the motion, and the scaling to 65536 steps and back.
`DarwinPost` has the three static variables, every read and every write of
which is a step. `Post` composes them: one of the three for a behaviour, with
the tables and the events of each as constants; `MCPost` gives these values.

### System properties

`Screens` has `hook_create_screen_info()` of every build against the settings
thread of X11's XRandR build; an access out of bounds or to freed resources is
recorded in `wild` and ends the query. `zeroed` notes that Darwin's query let
`CGGetActiveDisplayList()` write 32 bits through the caller's pointer to 8.
`Settings` has the settings as functions
from what the user has set and which services answer to what is returned, with
the services' units and the conversions between them: the truncation of seconds
to milliseconds on Darwin, and on X11 `sscanf("%4i")`, which reads at most four
characters and takes a number after a zero as octal. Which times lose a
millisecond to the truncation is a matter of binary fractions; they are the
constant `Short`, of which the module assumes only that no multiple of 125 ms,
an exact fraction, is among them. `MCSystem` runs either.

### The demo

`DemoAsync` has `main()` and `hook_thread_proc()` as two control points, two
mutexes with their owners, the condition variable (a signal to nobody is
lost; a wait may end by itself), the status the thread is given, and the
library as `UioHook`. An unlock of a mutex that another thread holds frees it,
as glibc's default mutex does.

## 3. Runs

Every run is `tlc -config <cfg> <module>`; the largest take two to three
minutes. `CHECK_DEADLOCK FALSE` is set everywhere because the application is
bounded: after its last call of `hook_run()`, its last press or its last post
it may stop. That nobody waits for ever is stated by the liveness properties.

| Run | Configuration | What it shows |
|---|---|---|
| `x11_lifecycle` | two runs, one thread and the callback stopping, early stops, two records in flight | the contract, including that a signalled hook returns; callback stops are safe and not lost; nothing held at return; a start settles |
| `x11_stop_race` | one run, one thread, no early stop | **violation**: `hook_stop()` on another thread, called after HOOK_ENABLED, can use a freed `hook_info` (section 6) |
| `x11_input` | a modifier pair, a lock, keys with characters; a primary, a wheel and an extra button on a left-handed map | modifier, lock and button bits follow the devices; click counts, drags and clicks |
| `windows_hook` | two threads, four runs, hooks that fail, time out and come back | the contract; handles and hooks agree; no hook or WM_QUIT left behind |
| `windows_input` | a modifier, a lock, a character; two buttons, two points, a clock that wraps in the run; any number of calls of `hook_run()`; wheel deltas of both signs | bits follow the keys through lost hooks; click counts over the wrap, drags, a still release clicks; rotation is conserved |
| `windows_locale` | three layouts, two changes | no dangling or double cache entry, tables stay loaded, keys typed in the focused layout also if the focus changes during the call, a dead key composes once and in its own layout unless the list was refreshed since |
| `darwin_hook` | two runs, one thread and the callback stopping, the three ways to translate | the contract; no lost callback stop; layout released once and keys translated once outside the stated races |
| `darwin_input` | a pair, Caps Lock, a plain key, a primary and an extra button, two ticks to a millisecond | bits follow the devices, Caps Lock the light, with the stated exceptions; click counts and clicks |
| `demo_async` | every outcome of a start, lost and spurious wake-ups | a success is one; nothing is used after it is freed; a wait that began before the first signal ends; Escape ends the program |
| `demo_status` | the same, without spurious wake-ups | **violation**: HOOK_ENABLED was delivered and `hook_enable()` returns a status nobody wrote (section 6) |
| `post_event` | two threads, one of them the hook's, three posts, each platform; a hook that starts and stops meanwhile; calls that fail | a button goes down where it was asked for; the system holds what was posted; a hook leaves no pointer to a freed button map, and none to one that is read before it is filled; Darwin's account agrees with the posts; every post returns |
| `system_properties` | all builds, 1, 2, 255 or 257 screens, two changes of the screens, short memory; every setting with every set of services | count, array and entries agree; no query uses freed resources or waits for ever; settings are what was set whichever service answers, with the named losses of the conversions |

### Bounds, and why they are enough

* *Runs of the hook* (`MaxRuns`): two, because nothing but globals survives a
  run and the second run meets everything the first can leave; on Windows
  four, so that two threads can each run, fail and run again.
* *Threads* (`External`): one besides the callback. Callers of `hook_stop()`
  do not interact with each other except through the hook thread and the
  server's context; the X11 proofs hold for any number.
* *Records in flight* (`MaxWire`): two, an event before EndOfData.
* *Keys and buttons*: one of each class the code distinguishes, and two where
  a pair interacts. Every bit is handled by the same code with its own mask.
* *`ClickMax`*: two or three instead of 65535; the counter meets its limit
  within the presses allowed. *`MultiClick`*: with the clock's bound one apart
  and two apart are both possible. `MaxPresses` is one more than `ClickMax`.
* *Clock*: `TimeWrap = 8` on Windows, and the run starts at 6, so it wraps.
* *Wheel*: deltas of both signs, whole notches and parts that sum to one.
* *Posts* (`MaxPosts`): three: one that presses, one that releases, and one in
  between or at the same time. Every event type is among them, with a key
  without a code, a button that is none, a primary one and one that is X's
  wheel. Starts and stops of the hook are not bounded. The run is the longest,
  480,000 states in about two minutes; `windows_locale` has 255,000.
* *Screens*: `UCHAR_MAX` is 255, as in the code, and 257 is past it by more
  than one. `MaxChanges`: two, a change before a query and one during it.
* *Settings*: both ends and the steps of the sliders between them that the code's
  comments list; an acceleration that is off, and a negative one. Times of one
  to six digits: 0, 200, 1005 (`Short`: 1.005 s is 1004 ms after truncation),
  5000, 9998 (with X11's two resources, one and two more, the last of four
  digits and the first of five) and 120000. `MaxTime` is 999997, so that all
  have at most six digits.

### What the configurations leave out, on purpose

The code deviates from these properties in the following cases. The
configurations exclude them, so that the property can be checked in all
others; section 6 lists the deviations.

* `X11Input.cfg` has `TimeWrap` above `MaxTime`: the X11 click counter is
  wrong across a wrap. It has only one extra button: extra buttons share a
  mask bit.
* `WindowsLocale.cfg` has `FarAccents = FALSE`: composed characters outside
  Latin-1 come out wrong.
* `WindowsHook.cfg` has `StopOnce = TRUE`: a stop too many ends the next run.
  Its refinement mapping leaves out the HOOK_DISABLED that a failed start
  fires without HOOK_ENABLED.
* `MaskTracked`, `ModifiersTracked` and `DragsTracked` name their exceptions in
  the history variables `stale`, `shadowed` and `missed`: exactly what changed
  while nothing was listening, and on Darwin the key of a pair released while
  the other was down.
* `LayoutReleasedOnce` and `TranslatedOnce` name theirs in `outside` and
  `early`.
* `PostEvent.cfg` has no two keys with the same code in X11's two tables: what
  one presses the other would release. `HeldIsPosted` leaves out keys posted by
  one table while down by the other (`split`), and buttons after something
  that was no button map was used for one (`wild`). `MapIsLive` leaves out the
  posts during whose lookup the map is freed (`caught`), and `PostsReturn` the
  process that has ended at NULL; `PressedAtPosition` on Windows, and `StateFollowsPosts`,
  hold while posts do not overlap and none is lost.
* `CountWithinArray` leaves out Windows with short memory or more than 255
  monitors, and an array that could not be had; `ValueIsSetting` leaves out
  resources of X11 that are not numbers and negative settings. Of a time it
  says that it is the one that was set, with two exceptions: a time in `Short`
  is one millisecond less from Darwin's preferences; a resource of X11 with
  more than four digits, or with a zero before them, is some time between none
  and the one that was set, never a longer one.
* `DeadComposesOnce` leaves out the dead key that was pending when the list was
  refreshed (`refreshed`): only that path keeps it over a change of the layout.
* `SuccessMeansEnabled` is about the success that `hook_enable()` concludes
  from the running mutex, not the one it may read where nobody wrote.
  `WokenReturns` and `EscapeExits` leave out waits that begin after the
  thread's first signal; a wait before HOOK_ENABLED that ends by itself hangs
  the program (`spurious`).

## 4. Fairness

* X11 and Windows: weak fairness of the hook thread's own steps. It is a
  thread the system schedules, and between its calls it waits only for the
  server or its queue. Delivery of a record that is on the wire, and of a
  posted WM_QUIT, is the system's promise. The application owes nothing: it
  need not call `hook_stop()`, so a hook that nobody stops runs for ever.
* X11 `StartSettles`, from the same fairness: a start ends in HOOK_ENABLED or
  in an error.
* Darwin: weak fairness of the hook thread, strong fairness where an
  ever-flowing stream of input could otherwise keep the loop from noticing
  that it was stopped, and that the callback returns. Fairness of the main
  thread says that the application keeps running its main loop and that the
  loop serves its sources; without that `dispatch_sync_f()` blocks for ever.
  `demo/demo_hook_async.c` says so: "NOTE Darwin requires that you start your
  own runloop from main."
* The demo: weak fairness of `main()` and of the hook's thread, whose step of
  starting ends in HOOK_ENABLED or an error (what `UioHook` promises). Escape
  need not be pressed and no wait need end by itself.
* Posting: weak fairness of each thread that is inside `hook_post_event()`.
  X11's lock is always free again because the number of posts is bounded;
  with unbounded posts a thread could starve, which X makes no promise about.
* Screens: weak fairness of the query and of what the settings thread does
  once it has an event. Nobody has to ask, and no event has to come.

## 5. Proofs

`tlapm <module>.tla` for each of
* `X11LifecycleProofs`, `WindowsHookProofs`, `DarwinHookProofs`: the lifecycles;
* `X11InputProofs`, `WindowsInputProofs` (with the wheel and the layouts),
  `DarwinInputProofs`: the event processors;
* `ScreensProofs`: screens and settings;
* `ApplicationProofs`: what an application does with the library, that is
  posting on the three back ends, and the demo.

Every invariant and every action property of the passing runs has a theorem.
The proofs assume what the modules' named ASSUMEs say of the constants (types;
that the callback is not one of the other threads; that tables are functions
and the screen's width has 16 bits; that the layouts are finitely many) and
hold for any number of threads, keys, buttons, records, runs, posts, layouts
and screens. Where a theorem needs more, it says so in a hypothesis with a name
and the name is explained below; each hypothesis is true of the configuration
that checks the same property, and each excludes a deviation of section 6.

**X11Lifecycle.** None of the safety properties is inductive. `IInv` adds to
`TypeOK`: *HeldInv*, for each control point of `hook_run()` which fields are
assigned, released or NULL, so that the suffix of the clean-up each error
enters at releases exactly what is there; *ContextInv*, that the server knows
the context between its creation and its release; *StreamInv*, what may be on
the wire for each state of the context, so that EndOfData comes last and once;
*CallbackInv*, that the callback is inside `hook_stop()` only while the hook
thread is in a dispatch, hence all fields are live; and *HelperSpansStream*.
From it follow `TypeCorrect`, `CallbackStopIsNotLost`, `CallbackStopIsSafe`,
`NothingIsHeldAtReturn`, `HelperIsLoadedForStream`, and
`ImplementsContractSafely`: the initial state maps to an initial state of
`UioHook` and every step to a step or a stutter.

**X11Input.** `IInv` adds to `TypeOK`: *StartInv*, what each phase of the
start has read, and that a key which differs from what was read is in
`stale`; *ModifierInv* and *LockInv*, the same relation for the mask and for
the hook's own xkb state against the server's; *BitsInv*, that a button bit is
only set for a recorded press or one held at the start; *EventsCarryMask*;
*DraggedMeansHeld*. It gives `TypeCorrect`, `ModifiersAreTracked`,
`LocksAreTracked` and `EventsAllCarryMask`, which together are `MaskIsTracked`,
and `DragsHaveButtons`. That a held button makes motion a drag
(`HeldIsDragged`, and with the former `DragsAreTracked`), and that a moved
button does not click (`DragIsNoClick`), need that no two buttons share a bit,
and are proved under exactly that assumption (`DistinctMasks`).

`ClicksArePresses` compares the counter with a row in the sequence of presses.
What makes it inductive without induction over the sequence is that *CountInv*
names a witness: the press that the row began with, from which on each press
follows the one before. A further press either extends the row by one or begins
a new one, and the maximum in the property is then the length of that row. Two
hypotheses: `DistinctButtons` (each button that is no wheel has a number of its
own; past the fifth they do not) and `ClockFits` (the server's clock does not
wrap). The same argument serves the other two back ends.

**WindowsHook.** `IInv` is `TypeOK`, *RunnerInv* (a run has a thread and its
id is the one `hook_stop()` posts to), *HandleInv* (no handles outside the part
of `hook_run()` that uses them, which is why installing hooks cannot double
them), `HooksHaveHandles` and `HelperSpansHook`; it holds whatever the
application does. For an application that stops each enabled hook once
(`StopOnce`), *ProgressInv* says what has been fired, which status was set and
whether a stop was signalled at each control point, and is inductive together
with `NoQuitLeft`: the loop is only left by a WM_QUIT of this run's stop. From
it follow `NoQuitIsLeft` and `ImplementsContractSafely`. Without `StopOnce`
both are false (section 6).

**DarwinHook.** `IInv` adds to `TypeOK`: *RunInv*, which event was fired last
at each control point; *CallbackInv*, that the callback stops the hook only
while it is called itself; *HeldInv*, what is in the main run loop and whether
there is a tap; *PathInv*, the control points of each of the three ways to
translate a key; *KeyInv*, that until a wait ends early at most one translation
is under way and the hook's thread waits for it; hence *LayoutInv*, that the
main thread, the end of `hook_run()` and the callback, which share the previous
layout without a lock, cannot meet; *FaultInv*, which says by what the first
undefined behaviour can have been caused. It gives `TypeCorrect`,
`CallbackStopIsNotLost`, `LayoutIsReleasedOnce`, `KeyIsTranslatedOnce`,
`NothingIsHeldAtReturn`, `SafeWithoutFallback` (what the first faults need
cannot happen with `dispatch_sync_f()` or on the main thread if only the
callback stops the hook) and `ImplementsContractSafely`.

**WindowsInput.** *MaskInv* is `ModifiersTracked` together with the same for
the buttons (`ButtonsTracked`: the bit of a button whose events were seen is set
while it is down, and no other button bit is set). A message of an extended
button that names neither XBUTTON1 nor XBUTTON2 uses a number as a mask, which
has bits of keys; the hypothesis `NoExtraButtons` excludes it. It gives `ModifiersAreTracked` and `DragsAreTracked`.
`ClicksArePresses` needs `NoExtraButtons` too, and `ClockFits`, which here
allows the wrap of the 32-bit clock: differences are right over it as long as
the hook runs for less than half its range. `StillReleaseIsAClick` rests on
*StillInv* (a button that was not moved is at the last click point) and on
nothing else.

**WindowsWheel.** `RotationConserved` is inductive together with `WheelTypeOK`.
The remainder is less than a notch, so the sum with any delta fits the 16 bits;
division towards zero, for either sign, does the rest.

**WindowsLocale.** `LocaleInv` is `LocaleTypeOK`, `CacheIsSound`, *DeadInv*
(a dead key is pending exactly if it has a layout), *KeptInv* (a pending dead
key is of the current layout, or a refresh has happened since it was typed) and
*MissInv* (between a miss and its refresh nothing is current, and a pending
dead key is marked). `CacheIsSound` is about a
list that loses and gains items: `EachOnce` shows, from the theorems on finite
sets, that a sequence of as many different elements as a set has contains all
of them, and `Joined` that two lists without common elements make one without
repetition. They give `LocaleCacheIsSound` for any finite set of layouts. The
action properties follow with it: `KeysAreTypedInFocus`, and
`DeadKeyComposesOnce` for a layout that composes within Latin-1 (`FarAccents`
is FALSE; otherwise `memset()` writes half of the character).

**DarwinInput.** `CapsFollowsLight` is inductive and `CapsIsTracked` follows
without any hypothesis; `MaskIsTracked` adds the keys and the primary buttons
and needs `NoAliases`, that no button of the mouse has the bit of a key of the
keyboard (the fourth and the fifth have). `DragIsNoClick` rests on *DragInv*,
and `ClicksArePresses` on *CountInv* as above; neither needs a hypothesis: the
clock is 64 bits wide, and buttons have numbers of their own.

**Posting.** `PostInv` has a part for each back end. X11: *LockInv*, who has
the display, hence *PositionInv*, that between a motion and its button nothing
else moves the pointer, and *MapInv*: the pointer to the button map is NULL
without a hook and dangles only between `free()` and the assignment of NULL,
which makes `MapIsLive` inductive. Windows: *InputInv*, what the `INPUT` of each
thread is at each control point; *SoloInv*, that without overlap at most one
thread is inside; *LandedInv*, where the pointer is then, which rests on
`LandsThere`: scaling a coordinate to 65536 steps and back is the identity for
every width of 16 bits. Darwin: *SoloInv* as well; *MaskInv* and *MotionInv*,
what the registers and static variables amount to at each control point. They
give `ButtonIsAtPosition`, `MapIsLiveUnlessCaught` and `AccountFollowsPosts`
without further hypotheses. `HeldIsAsPosted` adds *HeldInv*, which relates
what is down, by key codes and numbers, to what was posted, by name. It needs
`OwnCodes` (no two of the keys posted have one code on a back end, over X11's
two tables too: otherwise the release of one lets go of the other) and
`WheelIsMapped` (the wheel is not mapped to one of the first three buttons,
which a turn would release).

**DemoAsync.** `SuccessMeansEnabled` speaks of a moment long after the one that
decides it: the attempt at the running mutex. `IInv` carries what was known
then to the return: *FiredInv* and *EnabledInv*, which control points of the
hook's thread come after which event, so that whoever else holds the running
mutex has had HOOK_ENABLED; *DecidedInv*, what `hook_enable()` found; *StatusInv*
and *ReturnInv*, where its status comes from; *MemoryInv* and *JoinsInv*, that
memory is freed and mutexes are destroyed only after a join, hence after the
thread's last step. It gives `TypeCorrect`, `SuccessIsEnabled` and
`NothingIsUsedAfterFree`, for every set of error codes and with waits that end
by themselves.

**Screens.** `IInv` adds to `TypeOK`: *MutexInv*, who holds `xrandr_mutex` at
which control point, and *ResourcesInv*, that the resources dangle only while
the settings thread has it, hence *CrtcInv*, that during a query they are the
ones that were counted; *EnumInv*, that on Windows the array is as long as the
count until memory is short or the count wraps (`CountWraps`), and *WildInv*;
*FreshInv* and *AnswerInv*, what a query starts from and ends with. It gives
`TypeCorrect` and `CountIsWithinArray` (with *ZeroedInv*: only Darwin's query
writes past the count) for every width of the count, any number
of screens and any number of changes.

**Settings.** `ValueIsAsSet`: each call of a function returns what
`ValueIsSetting` says, so the proof is a case for each function, resting on a
lemma for what it returns for each set of services that answer. The one that is
not obvious is `IOKitAgrees`: IOKit's time for a slider, which is truncated,
gives after the multiplication and the rounding what the preferences give, for
all positions of the slider. For the times it is what `sscanf()` makes of a
number: `LeadingValue` and `ZeroNumberValue` bound it by the number itself, and
`X11MultiClickValue` puts the toolkit and the two resources together. The
theorem is about all times up to `MaxTime` and every `Short` that the
assumption allows.

**Only model-checked.** Liveness, that is the fairness half of the contract
(`ImplementsContract`), `StartSettles`, `WokenReturns`, `EscapeExits`,
`PostsReturn` and `QueriesReturn`: ENABLED and fairness are out of the prover's
reach. The inductive invariants were also checked with TLC, on the
configurations above or, for `Screens`, with a count of two bits.

## 6. Deviations found while modelling

The findings. `x11_stop_race`: `hook_stop()` in `src/x11/input_hook.c` tests
`hook` and its fields before it uses them ("We need to make sure the context is
still valid."), but `hook_run()` frees them on its own thread in between. The
callback is safe (proved), another thread is not. `demo_status`:
`demo/demo_hook_async.c` says that "If EVENT_HOOK_ENABLED was delivered, the
status will always succeed", but a hook that is stopped again before
`hook_enable()` tries the running mutex is taken for a failed start, and a
status nobody wrote is returned.

Others, read in the code and either excluded by a configuration, named as an
exception by a property, or part of the modelled behaviour. Lines are those of
`input_hook.c` of the platform unless another file is named.

*X11*
* The keycode map is freed at EndOfData and again at library unload (`input_helper.c` 1836, `system_properties.c` 482).
* Each run takes two references on the xkb state and context and drops one (989, 1015; `input_helper.c` 1666).
* A key without a character is typed as code point zero in some layouts (`input_helper.c` 1680).
* Buttons 2 and 3 are exchanged when recorded, not when read at the start (225; `input_helper.c` 1778).
* Buttons past the fifth share one mask bit (559) and one click counter (574).
* The click time is wrong when the server's clock wraps (574).
* A remapped wheel is taken for what it was (520).
* A drag flag outlives the release until the next motion (702).
* Posting, `post_event.c`: buttons 2 and 3 are passed on as they are (214)
  though recording exchanges them; buttons 4 and 5 are X's wheel; a wheel's
  amount is ignored (324); what XTest returns is compared with the wrong
  constant (139), which nobody notices. `input_helper.c`: without a hook keys
  are looked up in the XFree86 table whatever the server uses (1600), a key
  pressed before and released after a hook starts or stops may stay down
  (1838), and the button map may be freed under another thread's wheel (1843),
  which then writes to and reads freed memory, reads a map of the next hook
  that was not filled, or goes through NULL (1765, 1767).
* `system_properties.c`: the settings thread waits for an event type the server
  does not send for it (88: a mask is added where the event's number belongs),
  so in practice the resources stay NULL and no screen is reported; the count
  is kept when there is no memory for the array (135, 165); an entry whose
  controller cannot be read stays unwritten (190); a resource that is no
  number gives an uninitialised click time, one of five digits or more is cut to
  the first four, and one that starts with a zero is read as octal (402, 412).

*Windows*
* A `hook_stop()` after the end leaves a WM_QUIT that ends the next run on that thread (719).
* A failed start fires HOOK_DISABLED without HOOK_ENABLED (710), and its status may be overwritten (655).
* Extra buttons use their number as a mask (512).
* Two presses more than 2^31 ms apart can count as one click (292).
* A move onto the last click point is not reported (391) and may be swallowed by what the previous event left in `reserved` (584).
* `refresh_locale_list()` dereferences NULL when the first item goes (`input_helper.c` 550) and keeps the DLLs it should free (558).
* Posting, `post_event.c`: a caller's event is a press afterwards even if it was a release (181); nothing keeps another post out between motion and button (151); of the extended keys only the first of the table can match (103).
* `system_properties.c`: the count wraps with the 256th monitor (56), memory for the array is not checked (59), and the fallback drops the array (104).
* A dead key survives a switch to a layout that is not in the list, which is refreshed then (714), though the comment at 706-708 says that "If they layout changes the dead key state needs to be reset"; so it does if the focus has left the layout before the refresh reads it again (500). Composed characters are written with `memset()` (860), a second dead key replaces the first (819), all in `input_helper.c`.

*Darwin*
* The release of a button past the second is processed as a press (961); their numbers are used as masks (929-933, 955-959).
* The release of one key of a pair while the other is down is processed as a press (391).
* Caps Lock is toggled, not read (471).
* An event that fires nothing is swallowed by what the last one left in `reserved` (1006).
* Errors after the tap is in place leave it there (1297, 1306, 1355).
* `destroy_main_runloop_info()` tests an uninitialised `source` (1117).
* `hook_stop()` unloads the helper on the caller's thread (1427) and uses an `event_loop` that may be NULL or gone (1419).
* The wait for the main loop has no predicate (314); a source performed late uses a freed message (1394).
* `kCGEventTapDisabledByUserInput` is not answered (997).
* `dispatch_sync_f()` blocks for ever if the main loop is not run (280).
* Posting, `post_event.c`: the account of modifiers and drags is not locked (28), is changed before the event is known to be posted (41, 153), and cannot tell two keys of a pair or two buttons apart (64, 174).
* `system_properties.c`: the count is written as 32 bits through a pointer to 8 (63) and kept without an array (71); a display without size leaves its entry unwritten (77); a time in seconds is truncated, so that 1.005 s gives 1004 ms (394); two settings do not note that they were found (344, 394): the second service, if it answers, replaces the value by the same one or, for such a time, by the exact one.

*Demo* (lines of `demo_hook_async.c`)
* The hook's thread can signal before `hook_enable()` waits (109, 224 against 294): after a failed start nothing ends that wait, contrary to the comment at 287.
* A wait that ends by itself before HOOK_ENABLED takes the running mutex, which the callback then waits for (300, 101): both threads hang. `WokenReturns` names it.
* Mutexes are unlocked by threads that do not hold them (110, 225).
* A status that happens to read as success makes `main()` join the thread a second time (374); without a thread the status stays allocated (326).

## 7. Not modelled

* Scancode and keysym tables, layout DLLs, what `UCKeyTranslate()` and xkb
  return: data. `unicode_to_keysym()` and its table: nothing calls it.
* Builds: X11 without XTest (posting with `XSendEvent()`), with XF86Misc;
  Darwin with Carbon; the Windows build of the demo, which has the same steps.
* Wheel amounts, coordinates outside the places that compare or scale them,
  flags for extended keys and the keypad.
* Resources of X11 with a sign or in hexadecimal, which `%4i` reads too.
* A change of the layouts within one `refresh_locale_list()`, between its read
  of the list and its read of the focus.
* The logger: one function pointer, text only. The other demos: straight-line
  calls.
* The dispatcher pointer's own race: `hook_set_dispatch_proc()` is one step.
* The key code of a keypad key under Num Lock, which may differ between press
  and release.

## 8. Plan

Done: the contract, the three lifecycles, the three event processors, the
Windows helper, posting, screens and settings of the three back ends, the
demo of a hook on its own thread.

Proved: the safety half of the contract for the three lifecycles, and every
invariant and action property that a run checks.

Next:
1. read the hypotheses of section 5 once more against the code and replace
   those that can be by weaker ones, `OwnCodes` first: it could be asked of the
   keys that are down at the same time only;
2. a composition of an event processor with a lifecycle, so that what is
   assumed of the start and the end of a hook in the former is proved in the
   latter.
