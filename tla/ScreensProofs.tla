---------------------------- MODULE ScreensProofs ----------------------------
(***************************************************************************)
(* Proofs about the system properties: Screens for every width of the      *)
(* count, any numbers of screens, and any number of changes of the         *)
(* resources; Settings for every value that the user may have set.         *)
(***************************************************************************)
EXTENDS Screens, Settings, TLAPS

(* Each thread has the mutex between its lock and its unlock.              *)
MutexInv ==
  /\ mutex = "query" <=> pc \in {"crtc", "unlocking"}
  /\ mutex = "settings" <=> settings \in {"free", "get", "unlock"}

(* xrandr_resources dangles only under the mutex.                          *)
ResourcesInv == resources = FREED => settings = "get"

(* A query starts from nothing.                                            *)
FreshInv ==
  pc \in {"idle", "locking"} =>
    count = 0 /\ size = NULL /\ i = 0 /\ found = 0 /\ ~skipped /\ ~short

(* While the controllers are read there is an array for all of them, and   *)
(* the resources are the ones that were counted.                           *)
CrtcInv ==
  pc = "crtc" =>
    /\ resources = found /\ size = found /\ count = Capped(found)
    /\ i <= found
    /\ skipped \/ Indices(i) \subseteq written

(* The array of the monitor callback is as long as the count.              *)
EnumInv ==
  pc = "enum" /\ ~wild =>
    /\ build = "windows"
    /\ count <= i
    /\ IF size = NULL THEN count = 0 ELSE count <= size
    /\ Indices(count) \subseteq written

AnswerInv ==
  pc \in {"unlocking", "done"} /\ size # NULL =>
    count <= size /\ (skipped \/ Indices(count) \subseteq written)

(* Only the monitor callback goes out of bounds, and is not left then.     *)
WildInv == wild => pc = "enum" /\ build = "windows" /\ (short \/ found > UCHAR_MAX)

(* Only Darwin's list of displays writes next to *count.                   *)
ZeroedInv == zeroed => build = "darwin"

IInv ==
  /\ TypeOK /\ MutexInv /\ ResourcesInv /\ FreshInv /\ CrtcInv /\ EnumInv /\ AnswerInv /\ WildInv

-----------------------------------------------------------------------------
LEMMA CappedType ==
  ASSUME NEW n \in Nat
  PROVE  Capped(n) \in 0..UCHAR_MAX /\ Capped(n) <= n
BY CountAssumption DEF Capped

LEMMA IndicesMonotone ==
  ASSUME NEW m \in Nat, NEW n \in Nat, m <= n
  PROVE  Indices(m) \subseteq Indices(n)
BY DEF Indices

LEMMA IndicesNext ==
  ASSUME NEW n \in Nat, NEW S, Indices(n) \subseteq S
  PROVE  Indices(n + 1) \subseteq S \union {n}
BY DEF Indices

LEMMA IndicesType == \A n \in Nat : Indices(n) \subseteq Nat /\ Indices(0) = {}
BY DEF Indices

(* The 8-bit count wraps after UCHAR_MAX.                                  *)
LEMMA CountWraps ==
  ASSUME NEW n \in 0..UCHAR_MAX
  PROVE  (n + 1) % (UCHAR_MAX + 1) = IF n = UCHAR_MAX THEN 0 ELSE n + 1
<1>1. UCHAR_MAX \in Nat  BY CountAssumption
<1>2. CASE n = UCHAR_MAX  BY <1>1, <1>2
<1>3. CASE n # UCHAR_MAX  BY <1>1, <1>3
<1> QED  BY <1>2, <1>3

LEMMA InvInit == Init => IInv
<1> SUFFICES ASSUME Init PROVE IInv  OBVIOUS
<1> USE DEF Init
<1>1. TypeOK
  <2>1. helper \in BOOLEAN /\ skipped \in BOOLEAN /\ short \in BOOLEAN /\ wild \in BOOLEAN
        /\ zeroed \in BOOLEAN
    OBVIOUS
  <2>2. 0 \in 0..UCHAR_MAX /\ 0 \in 0..MaxChanges  BY CountAssumption
  <2>3. settings \in {"start", "ended"}  OBVIOUS
  <2> QED  BY <2>1, <2>2, <2>3 DEF TypeOK
<1>2. MutexInv /\ ResourcesInv  BY DEF MutexInv, ResourcesInv, None, NULL, FREED
<1>3. FreshInv  BY DEF FreshInv
<1>4. CrtcInv /\ EnumInv /\ AnswerInv /\ WildInv
  BY DEF CrtcInv, EnumInv, AnswerInv, WildInv
<1> QED  BY <1>1, <1>2, <1>3, <1>4 DEF IInv

(* What is left to show of a step that ends a query at once.               *)
LEMMA Answered ==
  ASSUME IInv, FixedElsewhere, zeroed' \in BOOLEAN,
         pc = "idle", pc' = "done", UNCHANGED i,
         count' \in 0..UCHAR_MAX, size' \in Nat \union {NULL}, written' \subseteq Nat,
         found' \in Nat, skipped' \in BOOLEAN, short' \in BOOLEAN,
         size' # NULL => count' <= size' /\ (skipped' \/ Indices(count') \subseteq written')
  PROVE  IInv'
<1>1. TypeOK'  BY DEF IInv, TypeOK, FixedElsewhere, settingsVars
<1>2. MutexInv' /\ ResourcesInv'  BY DEF IInv, MutexInv, ResourcesInv, FixedElsewhere, settingsVars
<1>3. FreshInv' /\ CrtcInv' /\ EnumInv'  BY DEF FreshInv, CrtcInv, EnumInv
<1>4. AnswerInv' /\ WildInv'
  BY DEF IInv, AnswerInv, WildInv, FixedElsewhere
<1> QED  BY <1>1, <1>2, <1>3, <1>4 DEF IInv

LEMMA QueryStarts == IInv /\ Query => IInv'
<1> SUFFICES ASSUME IInv, Query PROVE IInv'  OBVIOUS
<1> USE DEF IInv
<1>0. UCHAR_MAX \in Nat \ {0} /\ Monitors \subseteq Nat \ {0}
  BY CountAssumption, MonitorsAssumption
<1> DEFINE Quiet == FixedElsewhere /\ zeroed' \in BOOLEAN
<1>q. Fixed => Quiet  BY DEF Fixed, TypeOK
<1>1. ASSUME Nothing, Quiet PROVE IInv'
  <2>1. short' \in BOOLEAN /\ skipped' \in BOOLEAN  BY <1>1 DEF Nothing, TypeOK
  <2> QED  BY <1>0, <1>1, <2>1, Answered DEF Nothing
<1>2. ASSUME AnswerOne, Quiet PROVE IInv'
  <2>1. short' \in BOOLEAN /\ skipped' \in BOOLEAN  BY <1>2 DEF AnswerOne, TypeOK
  <2>2. count' \in {0, 1} /\ (size' # NULL => count' = 1 /\ size' = 1)  BY <1>2 DEF AnswerOne
  <2>3. count' \in 0..UCHAR_MAX  BY <2>2, <1>0
  <2>4. written' = Indices(count') /\ written' \subseteq Nat
    BY <1>2, <2>2, IndicesType DEF AnswerOne
  <2> QED  BY <1>0, <1>2, <2>1, <2>2, <2>3, <2>4, Answered DEF AnswerOne
<1>3. ASSUME NEW n \in Monitors, NEW c \in 0..UCHAR_MAX, c <= n, Answer(c, n, Indices(n)), Quiet
      PROVE  IInv'
  <2>1. short' \in BOOLEAN /\ skipped' \in BOOLEAN  BY <1>3 DEF Answer, TypeOK
  <2>2. n \in Nat /\ c \in Nat /\ Indices(n) \subseteq Nat  BY <1>0, IndicesType
  <2>3. Indices(c) \subseteq Indices(n)  BY <1>3, <2>2, IndicesMonotone
  <2>4. count' = c /\ found' = n /\ size' \in {n, NULL} /\ pc = "idle" /\ pc' = "done"
        /\ UNCHANGED i
    BY <1>3 DEF Answer
  <2>5. size' # NULL => written' = Indices(n)  BY <1>3 DEF Answer
  <2>6. written' \subseteq Nat  BY <1>3, <2>2 DEF Answer
  <2>7. size' # NULL => count' <= size' /\ Indices(count') \subseteq written'
    BY <1>3, <2>3, <2>4, <2>5
  <2> QED  BY <1>3, <2>1, <2>2, <2>4, <2>6, <2>7, Answered
<1>4. CASE NoDisplay  BY <1>4, <1>1, <1>q DEF NoDisplay
<1>5. CASE Xinerama
  <2>1. ASSUME NEW n \in Monitors, Answer(Capped(n), n, Indices(n)), Quiet PROVE IInv'
    <3>1. n \in Nat  BY <1>0
    <3> QED  BY <2>1, <3>1, <1>3, CappedType
  <2> QED  BY <1>5, <1>1, <1>q, <2>1 DEF Xinerama
<1>6. CASE DefaultScreen  BY <1>6, <1>1, <1>2, <1>q DEF DefaultScreen
<1>7. CASE Darwin
  <2>1. ASSUME NEW n \in Monitors, n <= UCHAR_MAX, Answer(n, n, Indices(n)), Quiet PROVE IInv'
    <3>1. n \in 0..UCHAR_MAX /\ n <= n  BY <1>0, <2>1
    <3> QED  BY <2>1, <3>1, <1>3
  <2>2. ASSUME NEW n \in Monitors, n <= UCHAR_MAX, pc = "idle", pc' = "done",
               count' = n, size' = n, written' = Indices(n) \ Unreadable,
               found' = n, skipped' = TRUE, UNCHANGED <<i, short>>, Quiet
        PROVE  IInv'
    <3>1. n \in 0..UCHAR_MAX /\ n <= n  BY <1>0, <2>2
    <3>2. Indices(n) \subseteq Nat  BY <3>1, <1>0, IndicesType
    <3>3. short' \in BOOLEAN  BY <2>2 DEF TypeOK
    <3> QED  BY <2>2, <3>1, <3>2, <3>3, <1>0, Answered
  <2>3. FixedElsewhere /\ (zeroed' \in {zeroed, TRUE} => Quiet)  BY <1>7 DEF Darwin, TypeOK
  <2>4. ASSUME NEW n \in Monitors, DarwinDisplays(n) PROVE IInv'
    <3>1. Quiet  BY <2>3, <2>4 DEF DarwinDisplays
    <3> HIDE DEF Quiet
    <3> QED  BY <2>1, <2>2, <2>4, <3>1 DEF DarwinDisplays
  <2> HIDE DEF Quiet
  <2> QED  BY <1>7, <1>1, <1>2, <2>3, <2>4 DEF Darwin
<1>8. CASE RandrLock
  <2> USE <1>8 DEF RandrLock, queryVars, settingsVars
  <2>1. TypeOK'  BY DEF TypeOK
  <2>2. MutexInv' /\ ResourcesInv' /\ FreshInv'  BY DEF MutexInv, ResourcesInv, FreshInv
  <2>3. CrtcInv' /\ EnumInv' /\ AnswerInv' /\ WildInv'
    BY DEF CrtcInv, EnumInv, AnswerInv, WildInv
  <2> QED  BY <2>1, <2>2, <2>3
<1>9. CASE EnumDisplayMonitors
  <2> USE <1>9 DEF EnumDisplayMonitors, Fixed, FixedElsewhere, settingsVars
  <2>1. TypeOK'  BY <1>0 DEF TypeOK
  <2>2. MutexInv' /\ ResourcesInv' /\ FreshInv'  BY DEF MutexInv, ResourcesInv, FreshInv
  <2>3. EnumInv'  BY IndicesType DEF EnumInv, FreshInv
  <2>4. CrtcInv' /\ AnswerInv' /\ WildInv'  BY DEF CrtcInv, AnswerInv, WildInv
  <2> QED  BY <2>1, <2>2, <2>3, <2>4
<1> QED  BY <1>4, <1>5, <1>6, <1>7, <1>8, <1>9 DEF Query

LEMMA QueryContinues == IInv /\ QueryStep => IInv'
<1> SUFFICES ASSUME IInv, QueryStep PROVE IInv'  OBVIOUS
<1> USE DEF IInv
<1>0. UCHAR_MAX \in Nat \ {0}  BY CountAssumption
<1>1. CASE RandrCount
  <2> USE <1>1
  <2>1. mutex = None /\ mutex' = "query" /\ pc = "locking"  BY DEF RandrCount
  <2>2. resources # FREED  BY <2>1 DEF ResourcesInv, MutexInv, None
  <2>3. UNCHANGED <<build, helper, zeroed, written, i, skipped, wild, settingsVars, resources>>
    BY DEF RandrCount
  <2>4. CASE resources = NULL
    <3>1. pc' = "unlocking" /\ UNCHANGED <<count, size, found, short>>
      BY <2>4 DEF RandrCount
    <3> QED
      BY <2>1, <2>3, <2>4, <3>1
      DEF TypeOK, MutexInv, ResourcesInv, FreshInv, CrtcInv, EnumInv, AnswerInv, WildInv, None,
          NULL, FREED, settingsVars
  <2>5. CASE resources # NULL
    <3>1. resources \in Nat  BY <2>2, <2>5 DEF TypeOK
    <3>2. /\ found' = resources /\ count' = Capped(resources) /\ size' \in {resources, NULL}
          /\ pc' = IF size' = NULL THEN "unlocking" ELSE "crtc"
      BY <2>5 DEF RandrCount
    <3>3. short' \in BOOLEAN  BY <2>5 DEF RandrCount
    <3>4. count' \in 0..UCHAR_MAX  BY <3>1, <3>2, CappedType
    <3>5. TypeOK'  BY <2>1, <2>3, <3>1, <3>2, <3>3, <3>4 DEF TypeOK, settingsVars
    <3>6. MutexInv' /\ ResourcesInv' /\ FreshInv'
      BY <2>1, <2>3, <3>2 DEF MutexInv, ResourcesInv, FreshInv, None, settingsVars
    <3>7. CrtcInv'
      BY <2>1, <2>3, <3>1, <3>2, IndicesType DEF CrtcInv, FreshInv, Capped
    <3>8. EnumInv' /\ AnswerInv' /\ WildInv'
      BY <2>1, <2>3, <3>2 DEF EnumInv, AnswerInv, WildInv
    <3> QED  BY <3>5, <3>6, <3>7, <3>8
  <2> QED  BY <2>4, <2>5
<1>2. CASE RandrCrtc
  <2> USE <1>2
  <2>1. pc = "crtc" /\ ~wild
        /\ UNCHANGED <<build, helper, zeroed, count, size, found, short, settingsVars, mutex, resources>>
    BY DEF RandrCrtc
  <2>2. /\ resources = found /\ size = found /\ count = Capped(found) /\ i <= found
        /\ found \in Nat /\ i \in Nat
    BY <2>1 DEF CrtcInv, TypeOK
  <2>3. CASE i = found
    <3>1. pc' = "unlocking" /\ UNCHANGED <<written, skipped, i, wild>>  BY <2>3 DEF RandrCrtc
    <3>2. Capped(found) \in Nat /\ Capped(found) <= found  BY <2>2, <1>0, CappedType
    <3>3. Indices(Capped(found)) \subseteq Indices(found)  BY <3>2, <2>2, IndicesMonotone
    <3>4. AnswerInv'  BY <2>1, <2>2, <2>3, <3>1, <3>2, <3>3 DEF AnswerInv, CrtcInv
    <3> QED
      BY <2>1, <3>1, <3>4
      DEF TypeOK, MutexInv, ResourcesInv, FreshInv, CrtcInv, EnumInv, WildInv, settingsVars
  <2>4. CASE i # found
    <3>1. i < found /\ ~(i >= resources \/ i >= size)  BY <2>2, <2>4
    <3>2. ~wild' /\ i' = i + 1 /\ UNCHANGED pc  BY <2>4, <3>1 DEF RandrCrtc
    <3>3. \/ written' = written \union {i} /\ UNCHANGED skipped
          \/ skipped' = TRUE /\ UNCHANGED written
      BY <2>4 DEF RandrCrtc
    <3>4. skipped' \in BOOLEAN  BY <3>3 DEF TypeOK
    <3>5. wild' \in BOOLEAN  BY <2>4 DEF RandrCrtc
    <3>6. written' \subseteq Nat /\ i' \in Nat
      <4>1. written' = written \union {i} \/ written' = written  BY <3>3
      <4>2. i' = i + 1 /\ i \in Nat /\ written \subseteq Nat  BY <2>2, <3>2 DEF TypeOK
      <4>3. i' \in Nat  BY <4>2
      <4>4. {i} \subseteq Nat  BY <4>2
      <4>5. written' \subseteq Nat  BY ONLY <4>1, <4>2, <4>4, Zenon
      <4> QED  BY <4>3, <4>5
    <3>7. TypeOK'  BY <2>1, <3>2, <3>4, <3>5, <3>6 DEF TypeOK, settingsVars
    <3>8. skipped' \/ Indices(i + 1) \subseteq written'
      <4>1. CASE skipped' = TRUE  BY <4>1
      <4>2. CASE written' = written \union {i} /\ UNCHANGED skipped
        BY <2>1, <2>2, <4>2, IndicesNext DEF CrtcInv
      <4> QED  BY <4>1, <4>2, <3>3
    <3>9. CrtcInv'  BY <2>1, <2>2, <3>1, <3>2, <3>8 DEF CrtcInv
    <3> QED
      BY <2>1, <3>2, <3>7, <3>9
      DEF MutexInv, ResourcesInv, FreshInv, EnumInv, AnswerInv, WildInv, settingsVars
  <2> QED  BY <2>3, <2>4
<1>3. CASE RandrUnlock
  <2> USE <1>3 DEF RandrUnlock, queryVars, settingsVars
  <2>1. TypeOK' /\ MutexInv' /\ ResourcesInv'  BY DEF TypeOK, MutexInv, ResourcesInv, None
  <2>2. FreshInv' /\ CrtcInv' /\ EnumInv' /\ AnswerInv' /\ WildInv'
    BY DEF FreshInv, CrtcInv, EnumInv, AnswerInv, WildInv
  <2> QED  BY <2>1, <2>2
<1>4. CASE Return
  <2> USE <1>4 DEF Return, Fixed, FixedElsewhere, settingsVars
  <2>1. TypeOK'
    <3>1. skipped' \in BOOLEAN /\ short' \in BOOLEAN  OBVIOUS
    <3>2. count' \in 0..UCHAR_MAX /\ written' \subseteq Nat /\ i' \in Nat /\ found' \in Nat
      BY <1>0
    <3> QED  BY <3>1, <3>2 DEF TypeOK
  <2>2. MutexInv' /\ ResourcesInv' /\ FreshInv'  BY DEF MutexInv, ResourcesInv, FreshInv
  <2>3. CrtcInv' /\ EnumInv' /\ AnswerInv' /\ WildInv'
    BY DEF CrtcInv, EnumInv, AnswerInv, WildInv
  <2> QED  BY <2>1, <2>2, <2>3
<1>5. CASE monitor_enum_proc
  <2> USE <1>5
  <2>1. /\ pc = "enum" /\ i < found /\ ~wild /\ i' = i + 1
        /\ UNCHANGED <<build, helper, zeroed, pc, found, skipped, settingsVars, mutex, resources>>
    BY DEF monitor_enum_proc
  <2>2. /\ build = "windows" /\ count <= i /\ Indices(count) \subseteq written
        /\ IF size = NULL THEN count = 0 ELSE count <= size
    BY <2>1 DEF EnumInv
  <2>3. count \in 0..UCHAR_MAX /\ count \in Nat /\ i \in Nat /\ found \in Nat
    BY <1>0 DEF TypeOK
  <2>4. count' = IF count = UCHAR_MAX THEN 0 ELSE count + 1
    BY <2>3, CountWraps DEF monitor_enum_proc
  <2>5. count' \in 0..UCHAR_MAX /\ count' \in Nat  BY <1>0, <2>3, <2>4
  <2>6. /\ size' \in {IF size = NULL THEN 1 ELSE count', NULL}
        /\ written' = written \union {count}
    BY DEF monitor_enum_proc
  <2>7. wild' \in BOOLEAN /\ short' \in BOOLEAN  BY DEF monitor_enum_proc
  <2>8. wild' <=> count >= size'  BY DEF monitor_enum_proc
  <2>9. short \/ size' = NULL => short'  BY DEF monitor_enum_proc
  <2>10. TypeOK'
    <3>1. size' \in Nat \union {NULL} /\ written' \subseteq Nat
      BY <2>3, <2>5, <2>6 DEF TypeOK
    <3> QED  BY <2>1, <2>3, <2>5, <2>7, <3>1 DEF TypeOK, settingsVars
  <2>11. EnumInv'
    <3> SUFFICES ASSUME ~wild' PROVE EnumInv'  BY DEF EnumInv
    <3>1. count < size' /\ size' # NULL  BY <2>3, <2>5, <2>6, <2>8 DEF NULL
    <3>2. count' <= size' /\ count' <= i'
      BY <1>0, <2>1, <2>2, <2>3, <2>4, <2>5, <2>6, <3>1 DEF NULL
    <3>3. Indices(count + 1) \subseteq written'  BY <2>2, <2>3, <2>6, IndicesNext
    <3>4. Indices(count') \subseteq written'
      <4>1. CASE count' = 0  BY <4>1, IndicesType
      <4>2. CASE count' = count + 1  BY <4>2, <3>3
      <4> QED  BY <4>1, <4>2, <2>4
    <3> QED  BY <2>1, <2>2, <3>1, <3>2, <3>4 DEF EnumInv
  <2>12. WildInv'
    <3> SUFFICES ASSUME wild' PROVE WildInv'  BY DEF WildInv
    <3>1. CASE size' = NULL  BY <2>1, <2>2, <2>9, <3>1 DEF WildInv
    <3>2. CASE size' # NULL
      <4>1. count = UCHAR_MAX
        BY <1>0, <2>2, <2>3, <2>4, <2>5, <2>6, <2>8, <3>2 DEF NULL
      <4>2. found > UCHAR_MAX  BY <1>0, <2>1, <2>2, <2>3, <4>1
      <4> QED  BY <2>1, <2>2, <4>2 DEF WildInv
    <3> QED  BY <3>1, <3>2
  <2> QED
    BY <2>1, <2>10, <2>11, <2>12
    DEF MutexInv, ResourcesInv, FreshInv, CrtcInv, AnswerInv, settingsVars
<1>6. CASE monitor_enum_skip
  <2> USE <1>6 DEF monitor_enum_skip, Fixed, FixedElsewhere, settingsVars
  <2>1. TypeOK'  BY DEF TypeOK
  <2>2. MutexInv' /\ ResourcesInv' /\ FreshInv'  BY DEF MutexInv, ResourcesInv, FreshInv
  <2>3. EnumInv'  BY <1>0 DEF EnumInv, TypeOK
  <2>4. CrtcInv' /\ AnswerInv' /\ WildInv'  BY DEF CrtcInv, AnswerInv, WildInv
  <2> QED  BY <2>1, <2>2, <2>3, <2>4
<1>7. CASE EnumFails
  <2> USE <1>7
  <2>1. /\ pc = "enum" /\ ~wild /\ pc' = "done" /\ UNCHANGED <<i, found, skipped, short>>
        /\ Fixed
    BY DEF EnumFails
  <2>2. \/ count' = 0 /\ UNCHANGED <<size, written>>
        \/ /\ size' \in {1, NULL} /\ count' = (IF size' = NULL THEN 0 ELSE 1)
           /\ written' = Indices(count')
    BY DEF EnumFails
  <2>3. count' \in {0, 1}  BY <2>2
  <2>4. count' \in 0..UCHAR_MAX /\ size' \in Nat \union {NULL}  BY <1>0, <2>2, <2>3 DEF TypeOK
  <2>5. written' \subseteq Nat  BY <2>2, <2>3, IndicesType DEF TypeOK
  <2>6. TypeOK'  BY <2>1, <2>4, <2>5 DEF TypeOK, Fixed, FixedElsewhere, settingsVars
  <2>7. AnswerInv'
    <3>1. Indices(0) = {}  BY IndicesType
    <3> QED  BY <2>2, <2>4, <3>1 DEF AnswerInv, NULL
  <2> QED
    BY <2>1, <2>6, <2>7
    DEF MutexInv, ResourcesInv, FreshInv, CrtcInv, EnumInv, WildInv, Fixed, FixedElsewhere, settingsVars
<1>8. CASE EnumReturns
  <2> USE <1>8 DEF EnumReturns, Fixed, FixedElsewhere, queryVars, settingsVars
  <2>1. TypeOK' /\ MutexInv' /\ ResourcesInv'  BY DEF TypeOK, MutexInv, ResourcesInv
  <2>2. AnswerInv'  BY DEF AnswerInv, EnumInv
  <2>3. FreshInv' /\ CrtcInv' /\ EnumInv' /\ WildInv'  BY DEF FreshInv, CrtcInv, EnumInv, WildInv
  <2> QED  BY <2>1, <2>2, <2>3
<1> QED  BY <1>1, <1>2, <1>3, <1>4, <1>5, <1>6, <1>7, <1>8 DEF QueryStep

(* The settings thread takes the mutex where it changes the resources.     *)
LEMMA SettingsSteps ==
  IInv /\ (OpenSettings \/ SettingsProc \/ \E type : NextEvent(type)) => IInv'
<1> SUFFICES ASSUME IInv, OpenSettings \/ SettingsProc \/ \E type : NextEvent(type)
             PROVE  IInv'
  OBVIOUS
<1> USE DEF IInv
<1>1. UNCHANGED <<build, helper, zeroed, pc, queryVars, wild>>
  BY DEF OpenSettings, SettingsProc, NextEvent, LockSettings, FreeResources, GetResources,
         UnlockSettings, Cleanup, SettingsOnly
<1>2. changes' \in 0..MaxChanges
  <2>1. MaxChanges \in Nat /\ changes \in 0..MaxChanges  BY CountAssumption DEF TypeOK
  <2>2. changes' = changes \/ (changes < MaxChanges /\ changes' = changes + 1)
    BY DEF OpenSettings, SettingsProc, NextEvent, LockSettings, FreeResources, GetResources,
           UnlockSettings, Cleanup
  <2> QED  BY <2>1, <2>2
<1>3. settings' \in {"start", "cleanup", "wait", "lock", "free", "get", "unlock", "ended"}
  BY DEF OpenSettings, SettingsProc, NextEvent, LockSettings, FreeResources, GetResources,
         UnlockSettings, Cleanup, SettingsStep
<1>4. mutex' \in {None, "query", "settings"} /\ resources' \in Nat \union {NULL, FREED}
  BY MonitorsAssumption
  DEF OpenSettings, SettingsProc, NextEvent, LockSettings, FreeResources, GetResources,
      UnlockSettings, Cleanup, SettingsOnly, TypeOK
<1>5. TypeOK'  BY <1>1, <1>2, <1>3, <1>4 DEF TypeOK, queryVars
<1>6. MutexInv' /\ ResourcesInv' /\ (mutex = "query" => resources' = resources)
  <2> USE DEF TypeOK, MutexInv, ResourcesInv, SettingsStep, None
  <2>1. CASE OpenSettings \/ \E type : NextEvent(type)
    BY <1>1, <2>1 DEF OpenSettings, NextEvent, SettingsOnly
  <2>2. CASE LockSettings  BY <1>1, <2>2 DEF LockSettings
  <2>3. CASE FreeResources  BY <1>1, <2>3 DEF FreeResources, NULL, FREED
  <2>4. CASE GetResources
    <3>1. resources' # FREED  BY <2>4, MonitorsAssumption DEF GetResources, NULL, FREED
    <3> QED  BY <1>1, <2>4, <3>1 DEF GetResources
  <2>5. CASE UnlockSettings  BY <1>1, <2>5 DEF UnlockSettings
  <2>6. CASE Cleanup  BY <1>1, <2>6 DEF Cleanup, NULL, FREED
  <2> QED  BY <2>1, <2>2, <2>3, <2>4, <2>5, <2>6 DEF SettingsProc
<1>7. FreshInv' /\ EnumInv' /\ AnswerInv' /\ WildInv'
  BY <1>1 DEF FreshInv, EnumInv, AnswerInv, WildInv, queryVars
<1>8. CrtcInv'  BY <1>1, <1>6 DEF CrtcInv, MutexInv, queryVars
<1> QED  BY <1>5, <1>6, <1>7, <1>8

LEMMA InvStep == IInv /\ [Next]_vars => IInv'
<1> SUFFICES ASSUME IInv, [Next]_vars PROVE IInv'  OBVIOUS
<1>1. CASE Query  BY <1>1, QueryStarts
<1>2. CASE QueryStep  BY <1>2, QueryContinues
<1>3. CASE OpenSettings \/ SettingsProc \/ \E type : NextEvent(type)  BY <1>3, SettingsSteps
<1>4. CASE UNCHANGED vars
  BY <1>4
  DEF IInv, TypeOK, MutexInv, ResourcesInv, FreshInv, CrtcInv, EnumInv, AnswerInv, WildInv,
      vars, queryVars, settingsVars
<1> QED  BY <1>1, <1>2, <1>3, <1>4 DEF Next

LEMMA ZeroedStep == ZeroedInv /\ [Next]_vars => ZeroedInv'
<1>1. ASSUME UNCHANGED <<build, zeroed>>, ZeroedInv PROVE ZeroedInv'  BY <1>1 DEF ZeroedInv
<1>2. Query => UNCHANGED <<build, zeroed>> \/ (build = "darwin" /\ UNCHANGED build)
  BY DEF Query, NoDisplay, Xinerama, DefaultScreen, Darwin, RandrLock, EnumDisplayMonitors,
         Fixed, FixedElsewhere
<1>3. QueryStep => UNCHANGED <<build, zeroed>>
  BY DEF QueryStep, RandrCount, RandrCrtc, RandrUnlock, monitor_enum_proc, monitor_enum_skip,
         EnumFails, EnumReturns, Return, Fixed, FixedElsewhere
<1>4. OpenSettings \/ SettingsProc \/ (\E type : NextEvent(type)) => UNCHANGED <<build, zeroed>>
  BY DEF OpenSettings, SettingsProc, NextEvent, LockSettings, FreeResources, GetResources,
         UnlockSettings, Cleanup, SettingsOnly
<1>5. UNCHANGED vars => UNCHANGED <<build, zeroed>>  BY DEF vars
<1>6. [Next]_vars => UNCHANGED <<build, zeroed>> \/ (build = "darwin" /\ UNCHANGED build)
  BY <1>2, <1>3, <1>4, <1>5 DEF Next
<1>7. build = "darwin" /\ UNCHANGED build => ZeroedInv'  BY DEF ZeroedInv
<1> QED  BY <1>1, <1>6, <1>7

LEMMA Inductive == Spec => []IInv
BY InvInit, InvStep, PTL DEF Spec

(* Every variable keeps its type: *count, which monitor_enum_proc() lets   *)
(* wrap, stays in eight bits.                                              *)
THEOREM TypeCorrect == Spec => []TypeOK
<1>1. IInv => TypeOK  BY DEF IInv
<1> QED  BY Inductive, <1>1, PTL

(* hook_create_screen_info() never reads resources that the settings       *)
(* thread freed, and what it returns has as many described screens as it   *)
(* says, for any number of screens.  Only Windows' callback can go out of  *)
(* bounds: without memory, or with more monitors than the count can tell;  *)
(* and only Darwin writes more than *count.                                *)
THEOREM CountIsWithinArray == Spec => []CountWithinArray
<1>1. IInv /\ ZeroedInv => CountWithinArray
  BY DEF IInv, CountWithinArray, WildInv, ZeroedInv, AnswerInv
<1>2. Init => ZeroedInv  BY DEF Init, ZeroedInv
<1> QED  BY Inductive, ZeroedStep, <1>1, <1>2, PTL DEF Spec

-----------------------------------------------------------------------------
(* What the functions return, for each set of services that answer.        *)

(* The float arithmetic on IOKit's tens of nanoseconds gives the number    *)
(* of milliseconds that the preferences give.                              *)
LEMMA IOKitAgrees ==
  ASSUME NEW v \in 1..120
  PROVE  FromIOKit(SliderTime(v)) = v * 15
BY DEF FromIOKit, SliderTime

LEMMA DarwinAutoRepeatValue ==
  ASSUME NEW v \in 1..120, NEW k \in SUBSET DarwinSources
  PROVE  DarwinAutoRepeat(v, k) = IF k # {} THEN v * 15 ELSE -1
<1>1. FromIOKit(SliderTime(v)) = v * 15  BY IOKitAgrees
<1>2. "preferences" \in k \/ "IOKit" \in k \/ k = {}  BY DEF DarwinSources
<1>3. k = {} => "preferences" \notin k /\ "IOKit" \notin k  OBVIOUS
<1> QED  BY <1>1, <1>2, <1>3 DEF DarwinAutoRepeat, Ask, Source, Unknown

LEMMA DarwinSensitivityValue ==
  ASSUME NEW x \in Int, NEW k \in SUBSET DarwinSources
  PROVE  DarwinSensitivity(x, k) = IF k # {} THEN (x * 65536) \div 8 ELSE -1
<1>1. "preferences" \in k \/ "IOKit" \in k \/ k = {}  BY DEF DarwinSources
<1>2. k = {} => "preferences" \notin k /\ "IOKit" \notin k  OBVIOUS
<1> QED
  BY <1>1, <1>2
  DEF DarwinSensitivity, Ask, Source, Unnoted, Unknown, MOUSE_ACCELERATION_MULTIPLIER

LEMMA DarwinMultiClickValue ==
  ASSUME NEW ms \in Nat, NEW k \in SUBSET DarwinSources
  PROVE  DarwinMultiClick(ms, k) =
           IF "IOKit" \in k THEN ms ELSE IF k # {} THEN FromSeconds(ms) ELSE -1
<1>1. "preferences" \in k \/ "IOKit" \in k \/ k = {}  BY DEF DarwinSources
<1>2. k = {} => "preferences" \notin k /\ "IOKit" \notin k  OBVIOUS
<1>3. TimeMicros(ms) \div 1000 = ms  BY DEF TimeMicros
<1> QED  BY <1>1, <1>2, <1>3 DEF DarwinMultiClick, Ask, Source, Unnoted, Unknown

LEMMA OneSource ==
  ASSUME NEW name, NEW v, NEW k \in SUBSET {name}
  PROVE  Ask(Unknown(-1), Source(name, v), k).value = IF k # {} THEN v ELSE -1
<1>1. (name \in k) <=> (k # {})  OBVIOUS
<1> QED  BY <1>1 DEF Ask, Source, Unknown

(* The leading digits give a smaller number, or the same if all fit.       *)
LEMMA LeadingFits ==
  ASSUME NEW n \in Nat, n \div 100000 < 10, NEW limit \in Nat, limit >= 10
  PROVE  /\ Leading(n, limit) \in 0..n /\ Leading(n, limit) < limit
         /\ Leading(n, limit) >= n \/ Leading(n, limit) <= n \div 10
         /\ Leading(n, limit) >= n \/ Leading(n, limit) >= limit \div 10
<1> DEFINE S == {n \div p : p \in {1, 10, 100, 1000, 10000, 100000}}
           Fits(m) == m < limit /\ (m = n \/ m >= limit \div 10)
<1>1. /\ n \in S /\ n \div 10 \in S /\ n \div 100 \in S
      /\ n \div 1000 \in S /\ n \div 10000 \in S /\ n \div 100000 \in S
  <2>1. n = n \div 1  OBVIOUS
  <2> QED  BY <2>1
<1>2. \/ Fits(n) \/ Fits(n \div 10) \/ Fits(n \div 100)
      \/ Fits(n \div 1000) \/ Fits(n \div 10000) \/ Fits(n \div 100000)
  <2>1. /\ n \div 100 = (n \div 10) \div 10 /\ n \div 1000 = (n \div 100) \div 10
        /\ n \div 10000 = (n \div 1000) \div 10 /\ n \div 100000 = (n \div 10000) \div 10
    OBVIOUS
  <2>2. \A x \in Nat : x >= limit => x \div 10 >= limit \div 10  OBVIOUS
  <2> QED  BY <2>1, <2>2
<1>3. \E m \in S : Fits(m)
  <2> HIDE DEF S, Fits
  <2> QED  BY <1>1, <1>2
<1>4. Leading(n, limit) \in S /\ Fits(Leading(n, limit))
  <2>1. Leading(n, limit) = CHOOSE m \in S : Fits(m)  BY DEF Leading
  <2> HIDE DEF S, Fits
  <2> QED  BY <1>3, <2>1
<1>5. \A m \in S : m \in 0..n /\ (m >= n \/ m <= n \div 10)  OBVIOUS
<1>6. Leading(n, limit) \in 0..n /\ (Leading(n, limit) >= n \/ Leading(n, limit) <= n \div 10)
  BY <1>4, <1>5
<1>7. Leading(n, limit) < limit /\ (Leading(n, limit) >= n \/ Leading(n, limit) >= limit \div 10)
  <2> HIDE DEF S
  <2> QED  BY <1>4
<1> HIDE DEF S, Fits
<1> QED  BY <1>6, <1>7

LEMMA LeadingValue ==
  ASSUME NEW n \in Nat, n \div 100000 < 10, NEW limit \in Nat, limit >= 10, limit % 10 = 0
  PROVE  /\ Leading(n, limit) \in 0..n /\ Leading(n, limit) < limit
         /\ n < limit => Leading(n, limit) >= n
<1>1. ASSUME NEW x \in 0..n, x >= n \/ x <= n \div 10, x >= n \/ x >= limit \div 10, n < limit
      PROVE  x >= n
  <2>1. CASE n >= 10
    <3>1. PICK q \in Nat : q = limit \div 10 /\ limit = 10 * q  OBVIOUS
    <3>2. PICK r \in Nat : r = n \div 10 /\ 10 * r <= n /\ n < 10 * r + 10  OBVIOUS
    <3> QED  BY <1>1, <2>1, <3>1, <3>2
  <2>2. CASE n < 10  BY <1>1, <2>2
  <2> QED  BY <2>1, <2>2
<1> QED  BY <1>1, LeadingFits

(* Octal digits give a smaller number than decimal ones.                   *)
LEMMA ZeroNumberValue ==
  ASSUME NEW n \in Nat, n \div 100000 < 10
  PROVE  ReadZeroNumber(n) \in 0..n
<1>1. PICK m \in 0..n : m = Leading(n, 1000) /\ m < 1000  BY LeadingValue
<1>2. PICK a \in 0..9, b \in 0..9, c \in 0..9 :
        a = m \div 100 /\ b = (m \div 10) % 10 /\ c = m % 10 /\ m = 100 * a + 10 * b + c
  <2>1. /\ m \div 100 \in 0..9 /\ (m \div 10) % 10 \in 0..9 /\ m % 10 \in 0..9
        /\ m = 100 * (m \div 100) + 10 * ((m \div 10) % 10) + (m % 10)
    BY <1>1
  <2> QED  BY <2>1
<1>3. FromOctal(m) = IF a > 7 THEN 0 ELSE IF b > 7 THEN a ELSE IF c > 7 THEN 8 * a + b
                     ELSE 64 * a + 8 * b + c
  BY <1>2 DEF FromOctal
<1>4. FromOctal(m) \in 0..m  BY <1>2, <1>3
<1> QED  BY <1>1, <1>4 DEF ReadZeroNumber

LEMMA X11MultiClickValue ==
  ASSUME NEW ms \in Nat, NEW k \in X11Answers
  PROVE  X11MultiClick(ms, k) =
           IF "toolkit" \in k THEN ms
           ELSE IF "multiClickTime" \in k THEN ReadNumber(ms + 1)
           ELSE IF "zero_time" \in k THEN ReadZeroNumber(ms + 1)
           ELSE IF "no_time" \in k THEN Junk
           ELSE IF "MultiClickTimeout" \in k THEN ReadNumber(ms + 2)
           ELSE IF "zero_timeout" \in k THEN ReadZeroNumber(ms + 2)
           ELSE IF "no_timeout" \in k THEN Junk ELSE 200
<1>1. /\ X11ClickTime("multiClickTime", ms) = ms + 1
      /\ X11ClickTime("MultiClickTimeout", ms) = ms + 2
  BY DEF X11ClickTime
<1>2. /\ ZeroNumber("multiClickTime") = "zero_time" /\ ZeroNumber("MultiClickTimeout") = "zero_timeout"
      /\ NotNumber("multiClickTime") = "no_time" /\ NotNumber("MultiClickTimeout") = "no_timeout"
  BY DEF ZeroNumber, NotNumber
<1> QED  BY <1>1, <1>2 DEF X11MultiClick, Ask, Source, Unknown

-----------------------------------------------------------------------------
(* Times have at most six digits, also those of X11's resources.           *)
LEMMA TimeDigits ==
  ASSUME NEW ms \in Times, NEW n \in Nat, n <= ms + 2
  PROVE  ms \in Nat /\ n \div 100000 < 10
<1>1. ms \in Nat /\ ms <= MaxTime  BY TimesAssumption
<1>2. n < 10 * 100000  BY <1>1 DEF MaxTime
<1> QED  BY <1>1, <1>2

LEMMA GetterReturnsSetting == GetSetting => ValueIsSetting'
<1> SUFFICES ASSUME GetSetting PROVE ValueIsSetting'  OBVIOUS
<1> USE SlidersAssumption, ScalingsAssumption, TimesAssumption
<1>1. ASSUME NEW v \in Sliders, NEW k \in SUBSET DarwinSources,
             Called("darwin_auto_repeat", v, k, DarwinAutoRepeat(v, k))
      PROVE  ValueIsSetting'
  <2>1. value' = IF k # {} THEN v * 15 ELSE -1
    BY <1>1, DarwinAutoRepeatValue DEF Called
  <2> QED  BY <1>1, <2>1 DEF Called, ValueIsSetting, Returned, Misread, NoNumber, FromResource
<1>2. ASSUME NEW x \in Scalings, NEW k \in SUBSET DarwinSources,
             Called("darwin_sensitivity", x, k, DarwinSensitivity(x, k))
      PROVE  ValueIsSetting'
  <2>1. value' = IF k # {} THEN (x * 65536) \div 8 ELSE -1
    BY <1>2, DarwinSensitivityValue DEF Called
  <2> QED  BY <1>2, <2>1 DEF Called, ValueIsSetting, Returned, Misread, NoNumber, FromResource
<1>3. ASSUME NEW x \in Scalings, NEW k \in SUBSET DarwinSources,
             \/ Called("darwin_multiplier", x, k, DarwinMultiplier(x, k))
             \/ Called("darwin_threshold", x, k, DarwinThreshold(x, k))
      PROVE  ValueIsSetting'
  <2>1. (DarwinSensitivity(x, k) < 0) <=> ~(k # {} /\ x >= 0)
    BY DarwinSensitivityValue
  <2>2. value' > 0 <=> (k # {} /\ x >= 0)
    BY <1>3, <2>1 DEF Called, DarwinMultiplier, DarwinThreshold, MOUSE_ACCELERATION_MULTIPLIER
  <2> QED  BY <1>3, <2>2 DEF Called, ValueIsSetting
<1>4. ASSUME NEW ms \in Times, NEW k \in SUBSET DarwinSources,
             Called("darwin_multi_click", ms, k, DarwinMultiClick(ms, k))
      PROVE  ValueIsSetting'
  <2>1. value' = IF "IOKit" \in k THEN ms ELSE IF k # {} THEN FromSeconds(ms) ELSE -1
    BY <1>4, DarwinMultiClickValue DEF Called
  <2>2. k = {} => "IOKit" \notin k  OBVIOUS
  <2> QED  BY <1>4, <2>1, <2>2 DEF Called, ValueIsSetting, Returned, Misread, NoNumber, FromResource, FromSeconds
<1>5. ASSUME NEW v \in Sliders, NEW k \in SUBSET {"display"},
             Called("x11_auto_repeat", v, k, X11AutoRepeat(v, k))
      PROVE  ValueIsSetting'
  <2>1. \A w : Ask(Unknown(-1), Source("display", w), k).value = IF k # {} THEN w ELSE -1
    BY OneSource, Zenon
  <2>2. value' = IF k # {} THEN v * 15 ELSE -1
    BY <1>5, <2>1 DEF Called, X11AutoRepeat
  <2> QED  BY <1>5, <2>2 DEF Called, ValueIsSetting, Returned, Misread, NoNumber, FromResource
<1>6. ASSUME NEW x \in Scalings, NEW k \in SUBSET {"display"},
             Called("x11_pointer", x, k, X11Pointer(x, k))
      PROVE  ValueIsSetting'
  <2>1. x >= 0 => value' = IF k # {} THEN x ELSE -1
    BY <1>6, OneSource DEF Called, X11Pointer
  <2> QED  BY <1>6, <2>1 DEF Called, ValueIsSetting, Returned, Misread, NoNumber, FromResource
<1>7. ASSUME NEW ms \in Times, NEW k \in X11Answers,
             Called("x11_multi_click", ms, k, X11MultiClick(ms, k))
      PROVE  ValueIsSetting'
  <2> DEFINE n == IF k \intersect {"multiClickTime", "zero_time", "no_time"} # {} THEN ms + 1 ELSE ms + 2
             zero == IF n = ms + 1 THEN "zero_time" ELSE "zero_timeout"
             none == IF n = ms + 1 THEN "no_time" ELSE "no_timeout"
             name == IF n = ms + 1 THEN "multiClickTime" ELSE "MultiClickTimeout"
  <2>1. n \in Nat /\ n \div 100000 < 10 /\ ms \in Nat
    <3>1. ms \in Nat  OBVIOUS
    <3> QED  BY <3>1, TimeDigits
  <2>2. \A s, t \in k : ({s, t} \subseteq {"multiClickTime", "zero_time", "no_time"}
                           \/ {s, t} \subseteq {"MultiClickTimeout", "zero_timeout", "no_timeout"})
                          => s = t
    BY DEF X11Answers, X11Defaults, Texts, ZeroNumber, NotNumber
  <2>3. k \subseteq {"toolkit", "multiClickTime", "zero_time", "no_time",
                     "MultiClickTimeout", "zero_timeout", "no_timeout"}
    BY DEF X11Answers, X11ClickSources, X11Defaults, Texts, ZeroNumber, NotNumber
  <2>4. /\ getter' = "x11_multi_click" /\ setting' = ms /\ known' = k
        /\ value' = X11MultiClick(ms, k)
    BY <1>7 DEF Called
  <2>5. CASE "toolkit" \in k \/ k = {}
    <3>1. ~FromResource'  BY <2>4, <2>5 DEF FromResource
    <3>2. value' = IF "toolkit" \in k THEN ms ELSE 200
      BY <2>1, <2>4, <2>5, X11MultiClickValue
    <3>3. Returned' = ms  BY <2>4, <3>1 DEF Returned
    <3> QED  BY <2>4, <2>5, <3>1, <3>2, <3>3 DEF ValueIsSetting, Misread
  <2>6. CASE "toolkit" \notin k /\ k # {}
    <3>1. FromResource' /\ Resource' = name /\ ZeroNumber(name) = zero /\ NotNumber(name) = none
      BY <2>4, <2>6 DEF FromResource, Resource, Texts, ZeroNumber, NotNumber
    <3>2. Returned' = n  BY <2>4, <3>1 DEF Returned, X11ClickTime
    <3>3. NoNumber' <=> none \in k  BY <2>4, <3>1 DEF NoNumber
    <3>4. Misread' <=> n > 9999 \/ zero \in k  BY <2>4, <3>1, <3>2 DEF Misread
    <3>5. name \in k \/ zero \in k \/ none \in k
      <4>1. PICK text \in k : text # "toolkit"  BY <2>6
      <4>2. CASE n = ms + 1
        <5>1. k \intersect {"multiClickTime", "zero_time", "no_time"} # {}  BY <2>1, <4>2
        <5> QED  BY <4>2, <5>1
      <4>3. CASE n # ms + 1
        <5>1. k \intersect {"multiClickTime", "zero_time", "no_time"} = {}  BY <4>3
        <5>2. text \in {"MultiClickTimeout", "zero_timeout", "no_timeout"}  BY <2>3, <4>1, <5>1
        <5> QED  BY <4>1, <4>3, <5>2
      <4> QED  BY <4>2, <4>3
    <3>6. none \notin k => value' = IF zero \in k THEN ReadZeroNumber(n) ELSE ReadNumber(n)
      <4>1. value' =
           IF "multiClickTime" \in k THEN ReadNumber(ms + 1)
           ELSE IF "zero_time" \in k THEN ReadZeroNumber(ms + 1)
           ELSE IF "no_time" \in k THEN Junk
           ELSE IF "MultiClickTimeout" \in k THEN ReadNumber(ms + 2)
           ELSE IF "zero_timeout" \in k THEN ReadZeroNumber(ms + 2)
           ELSE IF "no_timeout" \in k THEN Junk ELSE 200
        BY <2>1, <2>4, <2>6, X11MultiClickValue
      <4> QED  BY <2>1, <2>2, <3>5, <4>1
    <3> HIDE DEF n, zero, none, name
    <3>7. ReadNumber(n) \in 0..n /\ (n <= 9999 => ReadNumber(n) = n)
      BY <2>1, LeadingValue DEF ReadNumber
    <3>8. ReadZeroNumber(n) \in 0..n  BY <2>1, ZeroNumberValue
    <3> QED  BY <2>1, <2>4, <2>6, <3>2, <3>3, <3>4, <3>6, <3>7, <3>8 DEF ValueIsSetting
  <2> QED  BY <2>5, <2>6
<1>8. ASSUME NEW v \in Sliders, NEW k \in SUBSET {"system"},
             \/ Called("windows_parameter", v, k, WindowsParameter(v, k))
             \/ Called("windows_threshold", v, k, WindowsThreshold(v, v, k))
      PROVE  ValueIsSetting'
  <2>1. (v + v) \div 2 = v  OBVIOUS
  <2>2. WindowsParameter(v, k) = IF k # {} THEN v ELSE -1
    BY OneSource DEF WindowsParameter
  <2>3. value' = IF k # {} THEN v ELSE -1
    BY <1>8, <2>1, <2>2 DEF Called, WindowsThreshold
  <2> QED  BY <1>8, <2>3 DEF Called, ValueIsSetting, Returned, Misread, NoNumber, FromResource
<1>9. ASSUME NEW ms \in Times, Called("windows_multi_click", ms, {"system"}, WindowsMultiClick(ms))
      PROVE  ValueIsSetting'
  BY <1>9 DEF Called, ValueIsSetting, Returned, Misread, NoNumber, FromResource, WindowsMultiClick
<1> QED  BY <1>1, <1>2, <1>3, <1>4, <1>5, <1>6, <1>7, <1>8, <1>9 DEF GetSetting

(* Every function that returns a setting returns what the user has set, in *)
(* one unit, whichever of the services it asks in turn know it, and says   *)
(* that it is unknown only if none does: for every time of six digits and  *)
(* whichever times fall short as doubles, which lose one millisecond in    *)
(* Darwin's preferences.  A number that X11's "%4i" does not read as it is *)
(* written comes out smaller.                                              *)
THEOREM ValueIsAsSet == SettingsSpec => []ValueIsSetting
<1>1. SettingsInit => ValueIsSetting  BY DEF SettingsInit, ValueIsSetting
<1>2. ValueIsSetting /\ [GetSetting]_settingVars => ValueIsSetting'
  <2>1. ASSUME ValueIsSetting, UNCHANGED settingVars PROVE ValueIsSetting'
    <3>1. getter' = getter /\ setting' = setting /\ known' = known /\ value' = value
      BY <2>1 DEF settingVars
    <3>2. Returned' = Returned /\ (NoNumber' <=> NoNumber) /\ (Misread' <=> Misread)
      BY <3>1 DEF Returned, NoNumber, Misread, FromResource, Resource
    <3> QED  BY <2>1, <3>1, <3>2, Zenon DEF ValueIsSetting
  <2> QED  BY <2>1, GetterReturnsSetting
<1> QED  BY <1>1, <1>2, PTL DEF SettingsSpec
=============================================================================
