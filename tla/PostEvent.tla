----------------------------- MODULE PostEvent ------------------------------
(***************************************************************************)
(* What hook_post_event() is given and what the system sees of it, common  *)
(* to the three platforms.  Threads of the application post events; one of *)
(* them may be the thread that runs the hook, which posts from its         *)
(* callback.  The system knows keys and buttons by numbers of its own and  *)
(* has one pointer, which nobody else moves.                               *)
(***************************************************************************)
EXTENDS Integers

CONSTANTS
  Keys,         \* virtual key codes; "UNDEFINED" is in no table
  Buttons,      \* virtual buttons, some of them no buttons
  Points,       \* coordinates (one axis stands for both)
  Threads,      \* the threads that post
  MaxPosts      \* bound on the events posted

ASSUME EventsAssumption ==
  /\ "UNDEFINED" \in Keys
  /\ Buttons \subseteq 0..9
  /\ Points \subseteq Nat
ASSUME PostsAssumption == MaxPosts \in Nat

VARIABLES
  pc,           \* where in hook_post_event() each thread is
  event,        \* the event each thread has passed
  down,         \* the system's keys and buttons that are down
  pos,          \* the system's pointer
  posted,       \* history: keys and buttons whose last accepted post was a press
  lost,         \* history: keys and buttons of posts the system failed to take
  click,        \* history: where the last button was asked for and where it was
  overlap,      \* history: two posts were in progress at once
  posts         \* posts so far

systemVars  == <<down, pos>>
historyVars == <<posted, lost, click>>
postVars    == <<pc, event, down, pos, posted, lost, click, overlap, posts>>

Events ==
  [type : {"KEY_PRESSED", "KEY_RELEASED"}, key : Keys]
    \union [type : {"MOUSE_PRESSED", "MOUSE_RELEASED"}, button : Buttons, at : Points]
    \union [type : {"MOUSE_MOVED"}, at : Points]
    \union [type : {"MOUSE_WHEEL"}, up : BOOLEAN]
    \union [type : {"KEY_TYPED"}]

KeyTypes    == {"KEY_PRESSED", "KEY_RELEASED"}
ButtonTypes == {"MOUSE_PRESSED", "MOUSE_RELEASED"}
PressTypes  == {"KEY_PRESSED", "MOUSE_PRESSED"}

NoEvent == [type |-> "NONE"]
NoClick == [asked |-> 0, found |-> 0]

(* A key or button, as the caller names it or as the system numbers it.    *)
Key(k) == <<"key", k>>
Button(n) == <<"button", n>>
Named(e) == IF e.type \in KeyTypes THEN Key(e.key) ELSE Button(e.button)
PostedButtons == {n \in Buttons : Button(n) \in posted}

PostInit ==
  /\ pc = [t \in Threads |-> "idle"]
  /\ event = [t \in Threads |-> NoEvent]
  /\ down = {} /\ pos = 0
  /\ posted = {} /\ lost = {} /\ click = NoClick
  /\ overlap = FALSE
  /\ posts = 0
-----------------------------------------------------------------------------
Goto(t, step) == pc' = [pc EXCEPT ![t] = step]

(* hook_post_event(e) is called, and goes on at step.                      *)
Call(t, e, step) ==
  /\ pc[t] = "idle" /\ posts < MaxPosts
  /\ posts' = posts + 1
  /\ event' = [event EXCEPT ![t] = e]
  /\ overlap' = (overlap \/ \E u \in Threads \ {t} : pc[u] # "idle")
  /\ Goto(t, step)

(* It returns.                                                             *)
Return(t) ==
  /\ event' = [event EXCEPT ![t] = NoEvent]
  /\ Goto(t, "idle")

(* ... at once.                                                            *)
CallReturns(t) ==
  /\ pc[t] = "idle" /\ posts < MaxPosts
  /\ posts' = posts + 1
  /\ UNCHANGED <<pc, event, overlap>>

Asks(e) == e.type \in KeyTypes \union ButtonTypes

(* The system takes what was asked for: the press or the release of an     *)
(* item, the pointer being at p.                                           *)
Take(e, press, item, p) ==
  /\ down' = IF press THEN down \union {item} ELSE down \ {item}
  /\ posted' = IF e.type \in PressTypes THEN posted \union {Named(e)} ELSE posted \ {Named(e)}
  /\ click' = IF e.type \in ButtonTypes THEN [asked |-> e.at, found |-> p] ELSE click
  /\ pos' = p
  /\ UNCHANGED lost

(* It does not, or not all of it.                                          *)
Lose(e) ==
  /\ lost' = IF Asks(e) THEN lost \union {Named(e)} ELSE lost
  /\ UNCHANGED <<systemVars, posted, click>>

(* The event is refused before the system sees any of it.                  *)
Refuse == UNCHANGED <<systemVars, historyVars>>

=============================================================================
