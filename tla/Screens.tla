------------------------------ MODULE Screens -------------------------------
(***************************************************************************)
(* hook_create_screen_info(): an array of screens and an 8-bit count of    *)
(* them.  X11 has three builds of it; the one for XRandR reads resources   *)
(* that a settings thread replaces when the screens change.  Windows lets  *)
(* the array grow as it is called back for each monitor; Darwin asks for   *)
(* at most UCHAR_MAX displays.                                             *)
(***************************************************************************)
EXTENDS Integers

CONSTANTS
  UCHAR_MAX,    \* 255
  Monitors,     \* how many screens the system may report
  Unreadable,   \* screens that the system may fail to describe
  MaxChanges    \* bound on the events of the settings thread

ASSUME CountAssumption == UCHAR_MAX \in Nat \ {0} /\ MaxChanges \in Nat
ASSUME MonitorsAssumption == Monitors \subseteq Nat \ {0} /\ Unreadable \subseteq Nat

VARIABLES
  build,        \* which back end, and which build of X11's
  helper,       \* helper_disp was opened
  pc,           \* where in hook_create_screen_info() its caller is
  count,        \* *count
  size,         \* entries of the array, or NULL
  written,      \* those that were filled in
  i,            \* the next screen
  found,        \* the screens there are
  skipped,      \* history: the system would not describe one
  short,        \* history: memory was short
  wild,         \* history: an access out of bounds, or to what was freed
  zeroed,       \* history: the caller's bytes next to *count were overwritten
  settings,     \* where the settings thread is
  changes,      \* events it has received
  mutex,        \* who holds xrandr_mutex
  resources     \* screens in xrandr_resources, NULL, or FREED

queryVars == <<count, size, written, i, found, skipped, short>>
settingsVars == <<settings, changes>>
vars == <<build, helper, zeroed, pc, queryVars, wild, settingsVars, mutex, resources>>

NULL  == -1
FREED == -2
None  == "none"
Builds == {"xinerama", "xrandr", "plain", "windows", "darwin"}

Init ==
  /\ build \in Builds
  /\ helper \in BOOLEAN /\ (build \in {"windows", "darwin"} => helper)
  /\ pc = "idle"
  /\ count = 0 /\ size = NULL /\ written = {} /\ i = 0 /\ found = 0
  /\ skipped = FALSE /\ short = FALSE /\ wild = FALSE /\ zeroed = FALSE
  /\ settings = IF build = "xrandr" THEN "start" ELSE "ended"
  /\ changes = 0 /\ mutex = None /\ resources = NULL
-----------------------------------------------------------------------------
Indices(n) == 0 .. n - 1
FixedElsewhere == UNCHANGED <<build, helper, wild, settingsVars, mutex, resources>>
Fixed == FixedElsewhere /\ UNCHANGED zeroed

(* What the caller gets: c in *count and an array of n of which w are      *)
(* filled in, or no array if memory is short.                              *)
Answer(c, n, w) ==
  /\ pc = "idle" /\ pc' = "done"
  /\ count' = c
  /\ size' \in {n, NULL}
  /\ written' = IF size' = NULL THEN {} ELSE w
  /\ found' = n /\ short' = (size' = NULL)
  /\ UNCHANGED <<i, skipped>>

Nothing ==
  /\ pc = "idle" /\ pc' = "done"
  /\ count' = 0 /\ size' = NULL /\ written' = {} /\ found' = 0
  /\ UNCHANGED <<i, skipped, short>>

(* One screen, counted only if there is an array for it.                   *)
AnswerOne ==
  /\ pc = "idle" /\ pc' = "done"
  /\ size' \in {1, NULL} /\ count' = (IF size' = NULL THEN 0 ELSE 1)
  /\ written' = Indices(count') /\ found' = 1 /\ short' = (size' = NULL)
  /\ UNCHANGED <<i, skipped>>

(* The count stops at UCHAR_MAX; the array does not.                       *)
Capped(n) == IF n > UCHAR_MAX THEN UCHAR_MAX ELSE n

NoDisplay == build \in {"xinerama", "xrandr", "plain"} /\ ~helper /\ Nothing /\ Fixed

Xinerama ==
  /\ build = "xinerama" /\ helper
  /\ Nothing \/ \E n \in Monitors : Answer(Capped(n), n, Indices(n))
  /\ Fixed

DefaultScreen == build = "plain" /\ helper /\ (Nothing \/ AnswerOne) /\ Fixed

(* CGGetActiveDisplayList() is given *count as the address of 32 bits: it  *)
(* also clears the three bytes next to it.  A display without size is      *)
(* counted and left out.                                                   *)
DarwinDisplays(n) ==
  /\ n <= UCHAR_MAX
  /\ \/ Answer(n, n, Indices(n))
     \/ /\ pc = "idle" /\ pc' = "done"
        /\ count' = n /\ size' = n /\ written' = Indices(n) \ Unreadable
        /\ found' = n /\ skipped' = TRUE
        /\ UNCHANGED <<i, short>>
  /\ zeroed' = TRUE

(* Without memory for the displays it is not called, and it may fail.      *)
Darwin ==
  /\ build = "darwin"
  /\ \/ \E n \in Monitors : DarwinDisplays(n)
     \/ (Nothing \/ AnswerOne) /\ zeroed' \in {zeroed, TRUE}
  /\ FixedElsewhere

(* The application frees the array.                                        *)
Return ==
  /\ pc = "done" /\ pc' = "idle"
  /\ count' = 0 /\ size' = NULL /\ written' = {} /\ i' = 0 /\ found' = 0
  /\ skipped' = FALSE /\ short' = FALSE
  /\ Fixed
-----------------------------------------------------------------------------
(* XRandR: the resources are read under the mutex, by one request for each *)
(* controller, which may fail.                                             *)
RandrLock ==
  /\ build = "xrandr" /\ helper /\ pc = "idle" /\ pc' = "locking"
  /\ UNCHANGED <<build, helper, zeroed, queryVars, wild, settingsVars, mutex, resources>>

RandrCount ==
  /\ pc = "locking" /\ mutex = None /\ mutex' = "query"
  /\ IF resources = NULL
     THEN pc' = "unlocking" /\ UNCHANGED <<count, size, found, short>>
     ELSE /\ found' = resources /\ count' = Capped(resources)
          /\ size' \in {resources, NULL}
          /\ short' = (size' = NULL)
          /\ pc' = IF size' = NULL THEN "unlocking" ELSE "crtc"
  /\ UNCHANGED <<build, helper, zeroed, written, i, skipped, wild, settingsVars, resources>>

RandrCrtc ==
  /\ pc = "crtc" /\ ~wild
  /\ IF i = found THEN pc' = "unlocking" /\ UNCHANGED <<written, skipped, i, wild>>
     ELSE /\ wild' = (i >= resources \/ i >= size)
          /\ \/ written' = written \union {i} /\ UNCHANGED skipped
             \/ i \in Unreadable /\ skipped' = TRUE /\ UNCHANGED written
          /\ i' = i + 1
          /\ UNCHANGED pc
  /\ UNCHANGED <<build, helper, zeroed, count, size, found, short, settingsVars, mutex, resources>>

RandrUnlock ==
  /\ pc = "unlocking" /\ pc' = "done" /\ mutex' = None
  /\ UNCHANGED <<build, helper, zeroed, queryVars, wild, settingsVars, resources>>
-----------------------------------------------------------------------------
(* Windows: EnumDisplayMonitors() calls back for every monitor.            *)
EnumDisplayMonitors ==
  /\ build = "windows" /\ pc = "idle" /\ pc' = "enum"
  /\ found' \in Monitors
  /\ UNCHANGED <<count, size, written, i, skipped, short>>
  /\ Fixed

monitor_enum_proc ==
  /\ pc = "enum" /\ i < found /\ ~wild
  /\ i' = i + 1
  /\ count' = (count + 1) % (UCHAR_MAX + 1)
  /\ size' \in {IF size = NULL THEN 1 ELSE count', NULL}
  /\ short' = (short \/ size' = NULL)
  /\ written' = written \union {count}
  /\ wild' = (count >= size')
  /\ UNCHANGED <<build, helper, zeroed, pc, found, skipped, settingsVars, mutex, resources>>

(* A monitor without size.                                                 *)
monitor_enum_skip ==
  /\ pc = "enum" /\ i < found /\ ~wild
  /\ i' = i + 1
  /\ UNCHANGED <<pc, count, size, written, found, skipped, short>>
  /\ Fixed

(* It may fail on the way.  Without a monitor there is still the desktop,  *)
(* counted if memory serves; the array there was is lost.                  *)
EnumFails ==
  /\ pc = "enum" /\ ~wild
  /\ pc' = "done"
  /\ \/ count' = 0 /\ UNCHANGED <<size, written>>
     \/ /\ size' \in {1, NULL} /\ count' = (IF size' = NULL THEN 0 ELSE 1)
        /\ written' = Indices(count')
  /\ UNCHANGED <<i, found, skipped, short>>
  /\ Fixed

EnumReturns ==
  /\ pc = "enum" /\ ~wild /\ i = found /\ count # 0
  /\ pc' = "done"
  /\ UNCHANGED queryVars
  /\ Fixed
-----------------------------------------------------------------------------
(* settings_thread_proc().  It selects one kind of event but waits for     *)
(* another (`event_base + RRScreenChangeNotifyMask'), which the server     *)
(* sends only if somebody else has it sent.                                *)
RRScreenChangeNotify == 0
RRScreenChangeNotifyMask == 1

SettingsStep(from, to) == settings = from /\ settings' = to
SettingsOnly == UNCHANGED <<build, helper, zeroed, pc, queryVars, wild, mutex, resources>>

OpenSettings ==
  /\ SettingsStep("start", "ended") \/ SettingsStep("start", "wait")
     \/ SettingsStep("start", "cleanup")
  /\ UNCHANGED changes /\ SettingsOnly

NextEvent(type) ==
  /\ SettingsStep("wait", IF type = RRScreenChangeNotifyMask THEN "lock" ELSE "wait")
  /\ changes < MaxChanges /\ changes' = changes + 1
  /\ SettingsOnly

(* Mutant: without the mutex.                                              *)
LockSettingsNever ==
  /\ SettingsStep("lock", "free")
  /\ UNCHANGED <<build, helper, zeroed, pc, queryVars, wild, changes, mutex, resources>>

LockSettings ==
  /\ SettingsStep("lock", "free")
  /\ mutex = None /\ mutex' = "settings"
  /\ UNCHANGED <<build, helper, zeroed, pc, queryVars, wild, changes, resources>>

FreeResources ==
  /\ SettingsStep("free", "get")
  /\ resources' = IF resources = NULL THEN NULL ELSE FREED
  /\ UNCHANGED <<build, helper, zeroed, pc, queryVars, wild, changes, mutex>>

(* Mutant: an early return when there are none.                            *)
GetResourcesReturns ==
  /\ resources' \in Monitors \union {NULL}
  /\ SettingsStep("get", IF resources' = NULL THEN "wait" ELSE "unlock")
  /\ UNCHANGED <<build, helper, zeroed, pc, queryVars, wild, changes, mutex>>

GetResources ==
  /\ SettingsStep("get", "unlock")
  /\ resources' \in Monitors \union {NULL}
  /\ UNCHANGED <<build, helper, zeroed, pc, queryVars, wild, changes, mutex>>

UnlockSettings ==
  /\ SettingsStep("unlock", "wait") /\ mutex' = None
  /\ UNCHANGED <<build, helper, zeroed, pc, queryVars, wild, changes, resources>>

(* settings_cleanup_proc() runs if there is no XRandR, and gives up if the *)
(* mutex is taken.                                                         *)
Cleanup ==
  /\ SettingsStep("cleanup", "ended")
  /\ resources' = IF mutex = None THEN NULL ELSE resources
  /\ UNCHANGED <<build, helper, zeroed, pc, queryVars, wild, changes, mutex>>
-----------------------------------------------------------------------------
Query ==
  \/ NoDisplay \/ Xinerama \/ DefaultScreen \/ Darwin
  \/ RandrLock \/ EnumDisplayMonitors

QueryStep ==
  \/ RandrCount \/ RandrCrtc \/ RandrUnlock
  \/ monitor_enum_proc \/ monitor_enum_skip \/ EnumFails \/ EnumReturns \/ Return

SettingsProc ==
  \/ LockSettings \/ FreeResources \/ GetResources \/ UnlockSettings \/ Cleanup

Next ==
  \/ Query \/ QueryStep \/ OpenSettings \/ SettingsProc
  \/ \E type \in {RRScreenChangeNotify, RRScreenChangeNotifyMask} : NextEvent(type)

(* Both threads run; nobody has to ask for the screens or change them.     *)
Spec == Init /\ [][Next]_vars /\ WF_vars(QueryStep) /\ WF_vars(SettingsProc)
-----------------------------------------------------------------------------
TypeOK ==
  /\ build \in Builds /\ helper \in BOOLEAN
  /\ pc \in {"idle", "locking", "crtc", "unlocking", "enum", "done"}
  /\ count \in 0..UCHAR_MAX /\ size \in Nat \union {NULL} /\ written \subseteq Nat
  /\ i \in Nat /\ found \in Nat
  /\ skipped \in BOOLEAN /\ short \in BOOLEAN /\ wild \in BOOLEAN
  /\ zeroed \in BOOLEAN
  /\ settings \in {"start", "cleanup", "wait", "lock", "free", "get", "unlock", "ended"}
  /\ changes \in 0..MaxChanges
  /\ mutex \in {None, "query", "settings"}
  /\ resources \in Nat \union {NULL, FREED}

(* The array is filled within its bounds and from resources that are still *)
(* there, and it has as many screens as *count says, all described unless  *)
(* the system would not.  Windows' callback trusts memory to be there and  *)
(* monitors to be at most UCHAR_MAX; Darwin writes next to *count.         *)
CountWithinArray ==
  /\ wild => build = "windows" /\ (short \/ found > UCHAR_MAX)
  /\ zeroed => build = "darwin"
  /\ pc = "done" /\ size # NULL =>
       /\ count <= size
       /\ skipped \/ Indices(count) \subseteq written

(* hook_create_screen_info() returns, whatever the settings thread does    *)
(* with the mutex.                                                         *)
QueriesReturn == pc # "idle" /\ ~wild ~> pc = "idle" \/ wild

=============================================================================
