---------------------------- MODULE WindowsLocale ---------------------------
(***************************************************************************)
(* The Windows input helper: the linked list of keyboard layouts that      *)
(* refresh_locale_list() keeps in step with the ones the user has          *)
(* activated, the layout keys are translated with, and the dead key that   *)
(* keycode_to_unicode() remembers between two keys.                        *)
(*                                                                         *)
(* A character is a pair of bytes, since memset() writes bytes.  What the  *)
(* buffer holds before it is written to is whatever the stack held.        *)
(***************************************************************************)
EXTENDS Naturals, Sequences, SequencesExt, FiniteSets

CONSTANTS
  Layouts,      \* keyboard layouts; none of them is NoLayout
  FarAccents,   \* are there composed characters outside Latin-1?
  MaxChanges    \* bound on the changes to the activated layouts

NoLayout == "no layout"     \* NULL

ASSUME LayoutsAssumption == IsFiniteSet(Layouts) /\ NoLayout \notin Layouts
ASSUME PolicyAssumption == FarAccents \in BOOLEAN
ASSUME BoundAssumption == MaxChanges \in Nat

VARIABLES
  active,         \* GetKeyboardLayoutList()
  focus,          \* the layout of the window that has the focus, if it has one
  list,           \* the list that starts at locale_first
  locale_current,
  libraries,      \* layout DLLs loaded and not freed, for each layout
  deadChar,
  deadLayout,     \* history: the layout that deadChar was typed with
  refreshed,      \* history: the list was refreshed since deadChar was typed
  missed,         \* the key of a call that did not find its layout in the list
  typed,          \* the last call of keycode_to_unicode() since the helper was loaded
  loaded,         \* between load_input_helper() and unload_input_helper()
  fault,          \* a NULL pointer was dereferenced
  changes         \* changes to the activated layouts so far

cacheVars  == <<list, locale_current, libraries>>
deadVars   == <<deadChar, deadLayout, refreshed>>
layoutVars == <<active, focus, changes>>
localeVars == <<layoutVars, cacheVars, deadVars, missed, typed, loaded, fault>>
-----------------------------------------------------------------------------
(* Characters as <<high byte, low byte>>: a base, another letter, the      *)
(* diacritic, and what the layout composes of base and diacritic.          *)
Base      == <<0, 101>>
Letter    == <<0, 120>>
Diacritic == <<0, 96>>
Composed  == IF FarAccents THEN <<1, 27>> ELSE <<0, 232>>
WCH_NONE  == <<255, 255>>

Chars == {Base, Letter, Diacritic, Composed, WCH_NONE}

KeyNames == {"base", "letter", "dead", "none"}
NoKey == "-"

(* What memset() makes of the first n bytes of a little-endian character.  *)
Memset(char, byte, n) ==
  IF n = 0 THEN char ELSE IF n = 1 THEN <<char[1], byte>> ELSE <<byte, byte>>

Results == [key : KeyNames \union {NoKey}, layout : Layouts \union {NoLayout},
            before : Chars, buffer : Seq((0..255) \X (0..255))]

LocaleTypeOK ==
  /\ active \subseteq Layouts
  /\ focus \in Layouts \union {NoLayout}
  /\ list \in Seq(Layouts)
  /\ locale_current \in Layouts \union {NoLayout}
  /\ libraries \in [Layouts -> Nat]
  /\ deadChar \in Chars
  /\ deadLayout \in Layouts \union {NoLayout}
  /\ refreshed \in BOOLEAN
  /\ missed \in KeyNames \union {NoKey}
  /\ typed \in Results
  /\ loaded \in BOOLEAN /\ fault \in BOOLEAN
  /\ changes \in 0..MaxChanges

Nothing == [key |-> NoKey, layout |-> NoLayout, before |-> WCH_NONE, buffer |-> <<>>]

LocaleInit ==
  /\ active \in SUBSET Layouts
  /\ focus \in active \union {NoLayout}
  /\ list = <<>> /\ locale_current = NoLayout
  /\ libraries = [l \in Layouts |-> 0]
  /\ deadChar = WCH_NONE /\ deadLayout = NoLayout /\ refreshed = FALSE
  /\ missed = NoKey
  /\ typed = Nothing
  /\ loaded = FALSE /\ fault = FALSE
  /\ changes = 0

Cached == ToSet(list)
-----------------------------------------------------------------------------
(* refresh_locale_list().                                                  *)

(* Removing the first item goes through a previous item that is not there. *)
RemovesFirst == active # {} /\ list # <<>> /\ Head(list) \notin active

(* Mutant: the pointer to a removed item is kept.                          *)
CurrentKept(current, focused) ==
  IF focused \in Cached \intersect active THEN focused ELSE current

(* The current layout after the removals: NULL if it was removed, and the  *)
(* focused one if that was found in the list.                              *)
CurrentAfterRemoval(current, focused) ==
  IF focused \in Cached \intersect active THEN focused
  ELSE IF current \in active THEN current ELSE NoLayout

(* The list without the layouts that are no longer activated, in order.    *)
Precedes(l, m) ==
  \E i, j \in DOMAIN list : i < j /\ list[i] = l /\ list[j] = m

Kept == {s \in SetToSeqs(Cached \intersect active) :
           \A i, j \in DOMAIN s : i < j => Precedes(s[i], s[j])}

(* The layouts that get inserted, in the order of the system's list: each  *)
(* layout that is not in the list, unless its DLL cannot be found.         *)
Insertable == UNION {SetToSeqs(s) : s \in SUBSET (active \ Cached)}

(* The DLL of an inserted layout stays loaded, and the one of a removed    *)
(* layout is not freed.                                                    *)
LibrariesAfter(new) ==
  [l \in Layouts |-> libraries[l] + IF l \in ToSet(new) THEN 1 ELSE 0]

Refresh(current, focused) ==
  \E kept \in Kept, new \in Insertable :
    /\ list' = kept \o new
    /\ locale_current' = IF focused \in ToSet(new) THEN focused
                         ELSE CurrentAfterRemoval(current, focused)
    /\ libraries' = LibrariesAfter(new)

RefreshLocaleList(current, focused) ==
  IF active = {} THEN locale_current' = current /\ UNCHANGED <<list, libraries>>
                 ELSE Refresh(current, focused)

Crash ==
  fault' = TRUE /\ UNCHANGED <<layoutVars, cacheVars, deadVars, missed, typed, loaded>>

(* History: a dead key that is pending lives through a refresh.            *)
NoteRefresh ==
  /\ refreshed' = (deadChar # WCH_NONE)
  /\ UNCHANGED <<deadChar, deadLayout>>
-----------------------------------------------------------------------------
(* hook_run() may load the helper twice before the first key.              *)
LoadInputHelper ==
  /\ ~fault /\ missed = NoKey /\ typed = Nothing
  /\ IF RemovesFirst THEN Crash
     ELSE /\ RefreshLocaleList(locale_current, focus)
          /\ NoteRefresh
          /\ loaded' = TRUE
          /\ UNCHANGED <<layoutVars, missed, typed, fault>>

Freed == Cached

UnloadInputHelper ==
  /\ ~fault /\ loaded /\ missed = NoKey
  /\ list' = <<>> /\ locale_current' = NoLayout
  /\ libraries' = [l \in Layouts |-> libraries[l] - IF l \in Freed THEN 1 ELSE 0]
  /\ loaded' = FALSE
  /\ typed' = Nothing
  /\ UNCHANGED <<layoutVars, deadVars, missed, fault>>

(* The table of a layout: what the key gives, and how many units.          *)
(* `stack' is what the buffer holds when it is not written to.             *)
FirstChar(key, stack) ==
  CASE key = "base" -> Base [] key = "letter" -> Letter [] OTHER -> stack

DeadAfter(found, dead) == IF found THEN WCH_NONE ELSE dead

(* keycode_to_unicode() once the layout is known, with the dead key that   *)
(* is pending.  A dead key is kept; a second one writes two bytes and      *)
(* reports two characters; a composed character replaces as many bytes as  *)
(* there are characters.                                                   *)
Translate(key, stack, layout, pending) ==
  LET second == key = "dead" /\ pending # WCH_NONE
      dead   == IF key # "dead" THEN pending ELSE IF second THEN WCH_NONE ELSE Diacritic
      n      == CASE second -> 2 [] key \in {"base", "letter"} -> 1 [] OTHER -> 0
      first  == IF second THEN Memset(stack, pending[2], 2) ELSE FirstChar(key, stack)
      found  == dead = Diacritic /\ first = Base
      result == IF found THEN Memset(first, Composed[2], n) ELSE first
  IN
  /\ deadChar' = DeadAfter(found, dead)
  /\ deadLayout' = IF deadChar' = WCH_NONE THEN NoLayout
                   ELSE IF key = "dead" THEN layout ELSE deadLayout
  /\ refreshed' = (refreshed /\ deadChar' # WCH_NONE /\ key # "dead")
  /\ typed' = [key |-> key, layout |-> layout, before |-> pending,
               buffer |-> CASE n = 0 -> <<>> [] n = 1 -> <<result>> [] n = 2 -> <<result, stack>>]

(* Mutant: the dead key outlives a change of the layout.                   *)
SwitchKeepsDead(key, stack, layout) ==
  /\ layout \in Cached
  /\ locale_current' = layout
  /\ Translate(key, stack, layout, deadChar)
  /\ UNCHANGED <<list, libraries, missed>>

(* Another layout than the current one, found in the list: the dead key is *)
(* dropped.                                                                *)
Switch(key, stack, layout) ==
  /\ layout \in Cached
  /\ locale_current' = layout
  /\ Translate(key, stack, layout, WCH_NONE)
  /\ UNCHANGED <<list, libraries, missed>>

(* Mutant: the current layout stays until another one is found.            *)
MissLater(key, layout) ==
  /\ layout \notin Cached
  /\ missed' = key
  /\ NoteRefresh
  /\ UNCHANGED <<cacheVars, typed>>

(* ... and not found: the list is about to be refreshed, which leaves the  *)
(* dead key.                                                               *)
Miss(key, layout) ==
  /\ layout \notin Cached
  /\ locale_current' = NoLayout
  /\ missed' = key
  /\ NoteRefresh
  /\ UNCHANGED <<list, libraries, typed>>

(* keycode_to_unicode(): the focused window's layout, or this thread's.    *)
KeycodeToUnicode(key, stack, own) ==
  LET layout == IF focus = NoLayout THEN own ELSE focus IN
  /\ ~fault /\ loaded /\ missed = NoKey
  /\ IF locale_current = layout
     THEN Translate(key, stack, layout, deadChar) /\ UNCHANGED <<cacheVars, missed>>
     ELSE Switch(key, stack, layout) \/ Miss(key, layout)
  /\ UNCHANGED <<layoutVars, loaded, fault>>

(* The refresh of a call that missed.  It reads the focus a second time    *)
(* and the key is translated with what it finds there.                     *)
SwitchUncached(stack) ==
  /\ ~fault /\ missed # NoKey
  /\ IF RemovesFirst THEN Crash
     ELSE /\ RefreshLocaleList(locale_current, focus)
          /\ IF locale_current' # NoLayout
             THEN Translate(missed, stack, locale_current', deadChar)
             ELSE typed' = [Nothing EXCEPT !.key = missed] /\ UNCHANGED deadVars
          /\ missed' = NoKey
          /\ UNCHANGED <<layoutVars, loaded, fault>>

(* The user activates or deactivates layouts and moves the focus.          *)
ChangeLayouts ==
  /\ ~fault /\ changes < MaxChanges /\ changes' = changes + 1
  /\ active' \in SUBSET Layouts
  /\ focus' \in active' \union {NoLayout}
  /\ UNCHANGED <<cacheVars, deadVars, missed, typed, loaded, fault>>

LocaleNext ==
  \/ LoadInputHelper \/ UnloadInputHelper
  \/ \E key \in KeyNames, stack \in Chars, own \in active : KeycodeToUnicode(key, stack, own)
  \/ \E stack \in Chars : SwitchUncached(stack)
  \/ ChangeLayouts

LocaleSpec == LocaleInit /\ [][LocaleNext]_localeVars
-----------------------------------------------------------------------------
(* locale_current never points to an item that was freed, no layout is in  *)
(* the list twice, and the tables of those in the list are in memory,      *)
(* however layouts come and go between loading, translating and unloading. *)
CacheIsSound ==
  /\ locale_current \in Cached \union {NoLayout}
  /\ IsInjective(list)
  /\ \A l \in Cached : libraries[l] > 0

(* Keys are translated with the layout that the window with the focus has  *)
(* when the call last asks for it, not with the one that was current       *)
(* before; if it cannot be loaded, not at all.  The focus may move between *)
(* a call's two questions.                                                 *)
TypedInFocus ==
  [][typed' # typed => typed'.layout \in {NoLayout, focus} \/ focus = NoLayout]_localeVars

(* A dead key and then a base give the composed character, once, and in    *)
(* the layout of the dead key: a base is composed exactly if a dead key is *)
(* pending, never with one that was used before, and with one of another   *)
(* layout only if refresh_locale_list() ran in between, by a call of       *)
(* keycode_to_unicode() that missed or by load_input_helper(), which leave *)
(* the dead key where finding the layout in the list resets it.  (In a     *)
(* layout that composes within Latin-1.)                                   *)
DeadComposesOnce ==
  [][typed' # typed /\ typed'.key = "base" /\ typed'.layout # NoLayout =>
       /\ typed'.buffer = IF typed'.before = Diacritic THEN <<Composed>> ELSE <<Base>>
       /\ deadChar' = WCH_NONE
       /\ typed'.before = Diacritic => (deadLayout = typed'.layout \/ refreshed)]_localeVars

=============================================================================
