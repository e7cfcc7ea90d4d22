------------------------------ MODULE Settings ------------------------------
(***************************************************************************)
(* hook_get_auto_repeat_rate() and the other settings.  Each asks one      *)
(* service after the other, in units of the service, until one has noted   *)
(* success, and converts.  Darwin's is the build with application services *)
(* and IOKit, X11's the one with the X Toolkit and without XF86Misc.       *)
(***************************************************************************)
EXTENDS Integers

MaxTime == 999997   \* bound: times, and the next two, have six digits

CONSTANTS
  Sliders,      \* keyboard settings, in steps of 15 ms
  Scalings,     \* pointer settings, in eighths
  Times,        \* click times, in ms
  Short         \* those that are more than 1000 times their seconds as a double

ASSUME SlidersAssumption == Sliders \subseteq 1..120
ASSUME ScalingsAssumption == Scalings \subseteq Int
(* Eighths of a second are exact as doubles.                               *)
ASSUME TimesAssumption == Times \subseteq {ms \in Nat : ms <= MaxTime}
ASSUME ShortAssumption == Short \subseteq {ms \in Times : ms % 125 # 0}

VARIABLES
  getter,       \* the last function called, or "none"
  setting,      \* what the user has set
  known,        \* the services that answered
  value         \* what it returned

settingVars == <<getter, setting, known, value>>

MOUSE_ACCELERATION_MULTIPLIER == 65536
Junk == -99     \* a variable that was not initialized

SettingsInit == getter = "none" /\ setting = 0 /\ known = {} /\ value = 0
-----------------------------------------------------------------------------
(* A service, what the function makes of its answer, and whether it notes  *)
(* success then.                                                           *)
Source(name, v) == [name |-> name, value |-> v, notes |-> TRUE]
Unnoted(name, v) == [name |-> name, value |-> v, notes |-> FALSE]

(* What a function has before it asks.                                     *)
Unknown(v) == [value |-> v, successful |-> FALSE]

(* It asks a service if it has not noted success yet.                      *)
Ask(r, s, knowing) ==
  IF ~r.successful /\ s.name \in knowing
  THEN [value |-> s.value, successful |-> s.notes] ELSE r

-----------------------------------------------------------------------------
(* What IOKit has for a slider, in tens of nanoseconds, and for a time, in *)
(* microseconds.                                                           *)
SliderTime(v) == (v * 10000000) \div 6
TimeMicros(ms) == ms * 1000

(* Mutant: without rounding.                                               *)
FromIOKitTruncated(t) == (9 * t) \div 1000000

(* 900 * t / 1000.0 / 1000.0 / 1000.0 + 0.5, t in nanoseconds              *)
FromIOKit(t) == (9 * t + 500000) \div 1000000

(* hook_get_auto_repeat_rate() and hook_get_auto_repeat_delay()            *)
DarwinAutoRepeat(v, knowing) ==
  LET preferences == Ask(Unknown(-1), Source("preferences", v * 15), knowing)
  IN Ask(preferences, Source("IOKit", FromIOKit(SliderTime(v))), knowing).value

(* hook_get_pointer_sensitivity(): both services are always asked.         *)
DarwinSensitivity(x, knowing) ==
  LET scaled == (x * MOUSE_ACCELERATION_MULTIPLIER) \div 8
      preferences == Ask(Unknown(-1), Unnoted("preferences", scaled), knowing)
  IN Ask(preferences, Source("IOKit", scaled), knowing).value

(* (long) (time * 1000): the preferences have seconds, as a double.        *)
FromSeconds(ms) == IF ms \in Short THEN ms - 1 ELSE ms

(* hook_get_multi_click_time(): likewise.                                  *)
DarwinMultiClick(ms, knowing) ==
  LET preferences == Ask(Unknown(-1), Unnoted("preferences", FromSeconds(ms)), knowing)
  IN Ask(preferences, Source("IOKit", TimeMicros(ms) \div 1000), knowing).value

(* The multiplier and the threshold are there if the sensitivity is not    *)
(* negative.                                                               *)
DarwinMultiplier(x, knowing) ==
  IF DarwinSensitivity(x, knowing) < 0 THEN 0 ELSE MOUSE_ACCELERATION_MULTIPLIER
DarwinThreshold(x, knowing) == IF DarwinSensitivity(x, knowing) < 0 THEN 0 ELSE 1

(* X11: the keyboard extension, the pointer's control, both through the    *)
(* helper's display.                                                       *)
X11AutoRepeat(v, knowing) == Ask(Unknown(-1), Source("display", v * 15), knowing).value
X11Pointer(x, knowing) ==
  IF x >= 0 THEN Ask(Unknown(-1), Source("display", x), knowing).value ELSE -1

(* The number that the leading digits of n give, as many as fit.           *)
Leading(n, limit) ==
  CHOOSE m \in {n \div p : p \in {1, 10, 100, 1000, 10000, 100000}} :
    m < limit /\ (m = n \/ m >= limit \div 10)

(* The octal number of up to three digits, until one that is not octal.    *)
FromOctal(m) ==
  LET a == m \div 100
      b == (m \div 10) % 10
      c == m % 10
  IN IF a > 7 THEN 0 ELSE IF b > 7 THEN a ELSE IF c > 7 THEN 8 * a + b
     ELSE 64 * a + 8 * b + c

(* sscanf("%4i") of n, and of n written with a zero before it.             *)
ReadNumber(n) == Leading(n, 10000)
ReadZeroNumber(n) == FromOctal(Leading(n, 1000))

(* The X Toolkit and two resources, each with a time of its own.  What is  *)
(* in a resource may start with a zero, or be no number: sscanf() is only  *)
(* asked whether there was any text, and click_time stays as it was.       *)
X11ClickTime(name, ms) ==
  CASE name = "multiClickTime" -> ms + 1 [] name = "MultiClickTimeout" -> ms + 2 [] OTHER -> ms
ZeroNumber(name) == IF name = "multiClickTime" THEN "zero_time" ELSE "zero_timeout"
NotNumber(name) == IF name = "multiClickTime" THEN "no_time" ELSE "no_timeout"
Texts(name) == {name, ZeroNumber(name), NotNumber(name)}

X11MultiClick(ms, knowing) ==
  LET toolkit == Ask(Unknown(200), Source("toolkit", ms), knowing)
      Resource(r, name) ==
        LET n      == X11ClickTime(name, ms)
            number == Ask(r, Source(name, ReadNumber(n)), knowing)
            zero   == Ask(number, Source(ZeroNumber(name), ReadZeroNumber(n)), knowing)
        IN Ask(zero, Source(NotNumber(name), Junk), knowing)
  IN Resource(Resource(toolkit, "multiClickTime"), "MultiClickTimeout").value

(* Windows: SystemParametersInfo() answers or not, GetDoubleClickTime()    *)
(* always does.  The pointer has two thresholds, which are averaged.       *)
WindowsParameter(v, knowing) == Ask(Unknown(-1), Source("system", v), knowing).value
WindowsThreshold(x, y, knowing) == WindowsParameter((x + y) \div 2, knowing)
WindowsMultiClick(ms) == ms
-----------------------------------------------------------------------------
DarwinSources == {"preferences", "IOKit"}
X11Defaults == {"multiClickTime", "MultiClickTimeout"}
X11ClickSources == {"toolkit"} \union UNION {Texts(n) : n \in X11Defaults}

(* A resource has one text, if any.                                        *)
X11Answers == {k \in SUBSET X11ClickSources :
                 \A n \in X11Defaults : \A s, t \in k \intersect Texts(n) : s = t}

Called(g, s, k, v) == getter' = g /\ setting' = s /\ known' = k /\ value' = v

GetSetting ==
  \/ \E v \in Sliders, k \in SUBSET DarwinSources :
       Called("darwin_auto_repeat", v, k, DarwinAutoRepeat(v, k))
  \/ \E x \in Scalings, k \in SUBSET DarwinSources :
       \/ Called("darwin_sensitivity", x, k, DarwinSensitivity(x, k))
       \/ Called("darwin_multiplier", x, k, DarwinMultiplier(x, k))
       \/ Called("darwin_threshold", x, k, DarwinThreshold(x, k))
  \/ \E ms \in Times, k \in SUBSET DarwinSources :
       Called("darwin_multi_click", ms, k, DarwinMultiClick(ms, k))
  \/ \E v \in Sliders, k \in SUBSET {"display"} :
       Called("x11_auto_repeat", v, k, X11AutoRepeat(v, k))
  \/ \E x \in Scalings, k \in SUBSET {"display"} :
       Called("x11_pointer", x, k, X11Pointer(x, k))
  \/ \E ms \in Times, k \in X11Answers :
       Called("x11_multi_click", ms, k, X11MultiClick(ms, k))
  \/ \E v \in Sliders, k \in SUBSET {"system"} :
       \/ Called("windows_parameter", v, k, WindowsParameter(v, k))
       \/ Called("windows_threshold", v, k, WindowsThreshold(v, v, k))
  \/ \E ms \in Times : Called("windows_multi_click", ms, {"system"}, WindowsMultiClick(ms))
SettingsSpec == SettingsInit /\ [][GetSetting]_settingVars
-----------------------------------------------------------------------------
(* Was the last value that of a resource, of which, and of what text?      *)
FromResource == getter = "x11_multi_click" /\ "toolkit" \notin known /\ known # {}
Resource ==
  IF known \intersect Texts("multiClickTime") # {} THEN "multiClickTime" ELSE "MultiClickTimeout"

(* The value of a setting in the unit the functions return.  A time whose  *)
(* seconds fall short of it loses a millisecond in Darwin's preferences.   *)
Returned ==
  CASE getter \in {"darwin_auto_repeat", "x11_auto_repeat"} -> setting * 15
    [] getter = "darwin_sensitivity" -> (setting * 65536) \div 8
    [] getter = "darwin_multi_click" /\ "IOKit" \notin known /\ setting \in Short -> setting - 1
    [] FromResource -> X11ClickTime(Resource, setting)
    [] OTHER -> setting

NoNumber == FromResource /\ NotNumber(Resource) \in known
Misread  == FromResource /\ (Returned > 9999 \/ ZeroNumber(Resource) \in known)

(* Whichever services answer, a function returns what the user has set,    *)
(* converted to one unit (one less if only Darwin's preferences know the   *)
(* time, and it is one of the Short ones); it returns what stands for      *)
(* unknown (-1, and 200 for X11's click time) only if none does.  Of X11's *)
(* resources a number of more than four digits, or with a zero before it,  *)
(* is read as a shorter time, never as a longer one.  Out are the ones     *)
(* that are no numbers, and settings that are negative.                    *)
ValueIsSetting ==
  /\ getter \in {"darwin_multiplier", "darwin_threshold"} =>
       (value > 0 <=> known # {} /\ setting >= 0)
  /\ /\ getter \notin {"none", "darwin_multiplier", "darwin_threshold"}
     /\ getter = "x11_pointer" => setting >= 0
     /\ ~NoNumber
     => IF known = {} THEN value = (IF getter = "x11_multi_click" THEN 200 ELSE -1)
        ELSE IF Misread THEN value \in 0..Returned ELSE value = Returned

=============================================================================
