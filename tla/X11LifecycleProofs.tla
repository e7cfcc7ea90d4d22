------------------------- MODULE X11LifecycleProofs -------------------------
(***************************************************************************)
(* Proofs about X11Lifecycle for every set of threads, every bound on the  *)
(* records in flight and every number of runs.                             *)
(***************************************************************************)
EXTENDS X11Lifecycle, SequenceTheorems, TLAPS

-----------------------------------------------------------------------------
(* The inductive invariant, in four parts.                                 *)

Starting  == {"open_ctrl", "open_data", "xkb", "query", "alloc_range",
              "create_context", "enable"}
Recording == {"receive", "dispatch"}
Connected == {"xkb", "query", "alloc_range", "create_context", "enable", "receive",
              "dispatch", "free_context", "free_range", "free_xkb"}
Ranged    == {"create_context", "enable", "receive", "dispatch", "free_context",
              "free_range"}

(* What hook_run() holds at each control point.                            *)
HeldInv ==
  /\ hook = IF pc \in Idle THEN "null" ELSE IF pc = "null_hook" THEN "freed" ELSE "live"
  /\ pc \in Connected => ctrlDisplay = "open"
  /\ pc \in {"open_data", "close_data", "close_ctrl"} => ctrlDisplay \in {"open", "null"}
  /\ pc \in {"free_hook", "null_hook"} \union Idle => ctrlDisplay = "null"
  /\ pc \in {"close_ctrl", "null_ctrl", "free_hook", "null_hook"} \union Idle =>
       dataDisplay = "null"
  /\ range <=> pc \in Ranged
  /\ pc \in Connected \ {"xkb"} => contextRefs > 0 /\ stateRefs > 0

(* The server's context follows the hook thread, apart from the moment a   *)
(* hook_stop() disables it.                                                *)
ContextInv ==
  /\ pc \in Recording \union {"enable", "free_context"} => ctrlContext = "id"
  /\ pc \in Recording => rec \in {"enabled", "disabled"}
  /\ pc = "enable" => rec = "created"
  /\ pc = "free_context" => rec \in {"created", "disabled"}
  /\ pc \notin Recording \union {"enable", "free_context"} => rec = "none"

(* StartOfData is first on the wire and EndOfData last, and what has been  *)
(* fired, the wire and the status agree.                                   *)
StreamInv ==
  /\ pc \notin Recording => wire = <<>>
  /\ \A i \in 1..Len(wire) :
       /\ wire[i] = "start" <=> i = 1 /\ fired = "none"
       /\ wire[i] = "end" <=> i = Len(wire) /\ rec = "disabled"
  /\ pc \in Starting => fired = "none"
  /\ pc \in Starting \union Recording => status = "FAILURE"
  /\ pc \in Recording /\ fired = "none" => pc = "receive" /\ wire # <<>>
  /\ pc \in Recording /\ fired = "disabled" =>
       pc = "dispatch" /\ wire = <<>> /\ rec = "disabled"
  /\ pc = "free_context" /\ rec = "disabled" => fired = "disabled"
  /\ pc \notin Starting \union Recording =>
       \/ fired = "disabled" /\ status = "SUCCESS"
       \/ fired = "none" /\ status \in RunErrors
       \/ fired = "none" /\ status = "FAILURE" /\ pc \in Idle

(* hook_stop() called on the hook thread: it runs inside dispatch_event(), *)
(* and what it has answered is true of the context.                        *)
CallbackInv ==
  /\ fault # "callback_stop"
  /\ stop[Callback] # "idle" => pc = "dispatch" /\ reply[Callback] = "none"
  /\ stop[Callback] = "sync" => rec = "disabled"
  /\ CallbackStopNotLost

IInv == TypeOK /\ HeldInv /\ ContextInv /\ StreamInv /\ CallbackInv /\ HelperSpansStream
-----------------------------------------------------------------------------
(* Every variable keeps its type: in particular no step leaves a control   *)
(* point out, and hook_run() never releases an xkb reference it does not   *)
(* hold.                                                                   *)
LEMMA TypeInit == Init => TypeOK
<1> SUFFICES ASSUME Init PROVE TypeOK  OBVIOUS
<1>1. wire \in Seq({"start", "input", "end"})  BY DEF Init
<1>2. runs \in 0..MaxRuns  BY BoundAssumption DEF Init
<1>3. stop \in [Stopper -> StopPoints] /\ reply \in [Stopper -> StopReplies \union {"none"}]
  BY DEF Init, StopPoints
<1>4. helper \in HelperStates  BY DEF Init, HelperStates
<1>5. contextRefs \in Nat /\ stateRefs \in Nat BY DEF Init
<1> QED  BY <1>1, <1>2, <1>3, <1>4, <1>5 DEF Init, TypeOK, Idle

(* Taking the first record off the wire.                                   *)
LEMMA TailIsSeq ==
  ASSUME NEW S, NEW s \in Seq(S), s # <<>>
  PROVE  /\ Head(s) \in S
         /\ Tail(s) \in Seq(S)
  OBVIOUS

(* Every step of the threads and of the server keeps the types.            *)
LEMMA TypeStep == TypeOK /\ HeldInv /\ [Next]_vars => TypeOK'
<1> SUFFICES ASSUME TypeOK, HeldInv, [Next]_vars PROVE TypeOK'  OBVIOUS
<1> USE DEF TypeOK, Idle, RunPoints, StopPoints, RunErrors, StopReplies, At, Goto,
        Alive, runVars, serverVars, stopVars
<1>1. CASE RunAlloc
  <2>1. runs' \in 0..MaxRuns  BY <1>1, BoundAssumption DEF RunAlloc
  <2> QED  BY <1>1, <2>1 DEF RunAlloc
<1>2. CASE RunOutOfMemory
  <2>1. runs' \in 0..MaxRuns  BY <1>2, BoundAssumption DEF RunOutOfMemory
  <2> QED  BY <1>2, <2>1 DEF RunOutOfMemory
<1>3. CASE OpenCtrl  BY <1>3 DEF OpenCtrl
<1>4. CASE OpenData  BY <1>4 DEF OpenData, Opened, OpenFailed
<1>5. CASE InitXkb  BY <1>5 DEF InitXkb, Die
<1>6. CASE QueryVersion  BY <1>6 DEF QueryVersion, MayFail
<1>7. CASE AllocRange  BY <1>7 DEF AllocRange, MayFail
<1>8. CASE CreateContext  BY <1>8 DEF CreateContext, MayFail
<1>9. CASE EnableContext
  <2>0. <<"start">> \in Seq({"start", "input", "end"})  OBVIOUS
  <2>1. wire' \in Seq({"start", "input", "end"})  BY <1>9, <2>0 DEF EnableContext, MayFail
  <2> QED  BY <1>9, <2>1 DEF EnableContext, MayFail
<1>10. CASE StartOfData
  <2>1. wire' \in Seq({"start", "input", "end"})
    BY <1>10, TailIsSeq DEF StartOfData, Fire, Die
  <2>2. helper' \in HelperStates  BY <1>10 DEF StartOfData, LoadInputHelper, Die, HelperStates
  <2> QED  BY <1>10, <2>1, <2>2, TailIsSeq DEF StartOfData, Fire, Die
<1>11. CASE InputRecord
  <2>1. wire' \in Seq({"start", "input", "end"})
    BY <1>11, TailIsSeq DEF InputRecord, Fire
  <2>2. reply' \in [Stopper -> StopReplies \union {"none"}]  BY <1>11 DEF InputRecord, Fire
  <2> QED  BY <1>11, <2>1, <2>2 DEF InputRecord, Fire
<1>12. CASE EndOfData
  <2>1. wire' \in Seq({"start", "input", "end"})
    BY <1>12, TailIsSeq DEF EndOfData, Fire
  <2>2. reply' \in [Stopper -> StopReplies \union {"none"}]  BY <1>12 DEF EndOfData, Fire
  <2> QED  BY <1>12, <2>1, <2>2 DEF EndOfData, Fire
<1>13. CASE DispatchReturn
  <2>1. helper' \in HelperStates
    BY <1>13 DEF DispatchReturn, UnloadInputHelper, HelperStates
  <2> QED  BY <1>13, <2>1 DEF DispatchReturn
<1>14. CASE FreeContext  BY <1>14 DEF FreeContext
<1>15. CASE FreeRange
  <2>1. range' \in BOOLEAN  BY <1>15 DEF FreeRange
  <2> QED  BY <1>15, <2>1 DEF FreeRange
<1>16. CASE FreeXkb
  <2>1. contextRefs' \in Nat /\ stateRefs' \in Nat  BY <1>16 DEF FreeXkb, HeldInv, Connected
  <2> QED  BY <1>16, <2>1 DEF FreeXkb
<1>17. CASE CloseData  BY <1>17 DEF CloseData
<1>18. CASE CloseCtrl  BY <1>18 DEF CloseCtrl
<1>19. CASE NullCtrl  BY <1>19 DEF NullCtrl
<1>20. CASE FreeHook  BY <1>20 DEF FreeHook
<1>21. CASE NullHook  BY <1>21 DEF NullHook
<1>22. ASSUME NEW t \in Stopper, HookStop(t) PROVE TypeOK'
  <2>1. CASE StopCall(t)  BY <2>1 DEF StopCall, StopReturn, StopGoto
  <2>2. CASE StopDisplay(t)
    BY <2>2 DEF StopDisplay, StopTest, StopReturn, StopGoto, Die, Culprit
  <2>3. CASE StopContext(t)
    BY <2>3 DEF StopContext, StopTest, StopReturn, StopGoto, Die, Culprit
  <2>4. CASE StopQuery(t)  BY <2>4 DEF StopQuery, StopReturn, StopGoto, Die, Culprit
  <2>5. CASE StopDisable(t)
    <3>1. wire' \in Seq({"start", "input", "end"})  BY <2>5 DEF StopDisable, DisableContext, Die
    <3> QED  BY <2>5, <3>1 DEF StopDisable, DisableContext, StopGoto, Die, Culprit
  <2>6. CASE StopSync(t)  BY <2>6 DEF StopSync, StopReturn, Die, Culprit
  <2> QED  BY <2>1, <2>2, <2>3, <2>4, <2>5, <2>6, <1>22 DEF HookStop
<1>23. CASE ServerInput  BY <1>23 DEF ServerInput
<1>24. CASE SetDispatchProc  BY <1>24 DEF SetDispatchProc
<1>25. CASE LibraryUnload
  <2>1. helper' \in HelperStates
    BY <1>25 DEF LibraryUnload, UnloadInputHelper, Die, HelperStates
  <2> QED  BY <1>25, <2>1 DEF LibraryUnload, Die
<1>26. CASE UNCHANGED vars  BY <1>26 DEF vars
<1> QED  BY <1>1, <1>2, <1>3, <1>4, <1>5, <1>6, <1>7, <1>8, <1>9, <1>10, <1>11, <1>12,
     <1>13, <1>14, <1>15, <1>16, <1>17, <1>18, <1>19, <1>20, <1>21, <1>22, <1>23, <1>24, <1>25,
     <1>26 DEF Next, HookRun

(* What hook_run() holds changes only on its own thread, in the order of   *)
(* the control points.                                                     *)
LEMMA HeldStep == TypeOK /\ HeldInv /\ [Next]_vars => HeldInv'
<1> SUFFICES ASSUME TypeOK, HeldInv, [Next]_vars PROVE HeldInv'  OBVIOUS
<1> USE DEF HeldInv, Idle, Starting, Connected, Ranged, TypeOK, RunPoints, At, Goto, Alive,
     runVars, serverVars, stopVars
<1>1. CASE RunAlloc  BY <1>1 DEF RunAlloc
<1>2. CASE RunOutOfMemory  BY <1>2 DEF RunOutOfMemory
<1>3. CASE OpenCtrl  BY <1>3 DEF OpenCtrl
<1>4. CASE OpenData  BY <1>4 DEF OpenData, Opened, OpenFailed
<1>5. CASE InitXkb  BY <1>5 DEF InitXkb, Die
<1>6. CASE QueryVersion  BY <1>6 DEF QueryVersion, MayFail
<1>7. CASE AllocRange  BY <1>7 DEF AllocRange, MayFail
<1>8. CASE CreateContext  BY <1>8 DEF CreateContext, MayFail
<1>9. CASE EnableContext  BY <1>9 DEF EnableContext, MayFail
<1>10. CASE StartOfData
  <2>1. pc = "receive" /\ UNCHANGED <<hook, runVars>>
    BY <1>10 DEF StartOfData, Fire, Die
  <2>2. pc' \in {"receive", "dispatch"}  BY <1>10 DEF StartOfData, Fire, Die
  <2> QED  BY <2>1, <2>2
<1>11. CASE InputRecord  BY <1>11 DEF InputRecord, Fire
<1>12. CASE EndOfData  BY <1>12 DEF EndOfData, Fire
<1>13. CASE DispatchReturn  BY <1>13 DEF DispatchReturn, UnloadInputHelper
<1>14. CASE FreeContext  BY <1>14 DEF FreeContext
<1>15. CASE FreeRange
  <2>1. pc' = "free_xkb" /\ range' = FALSE  BY <1>15 DEF FreeRange
  <2>2. range' <=> pc' \in Ranged  BY <2>1
  <2> QED  BY <1>15, <2>1, <2>2 DEF FreeRange
<1>16. CASE FreeXkb  BY <1>16 DEF FreeXkb
<1>17. CASE CloseData  BY <1>17 DEF CloseData
<1>18. CASE CloseCtrl  BY <1>18 DEF CloseCtrl
<1>19. CASE NullCtrl  BY <1>19 DEF NullCtrl
<1>20. CASE FreeHook  BY <1>20 DEF FreeHook
<1>21. CASE NullHook  BY <1>21 DEF NullHook
<1>22. ASSUME NEW t \in Stopper, HookStop(t) PROVE HeldInv'
  <2>1. CASE StopCall(t)  BY <2>1 DEF StopCall, StopReturn, StopGoto
  <2>2. CASE StopDisplay(t)
    BY <2>2 DEF StopDisplay, StopTest, StopReturn, StopGoto, Die, Culprit
  <2>3. CASE StopContext(t)
    BY <2>3 DEF StopContext, StopTest, StopReturn, StopGoto, Die, Culprit
  <2>4. CASE StopQuery(t)  BY <2>4 DEF StopQuery, StopReturn, StopGoto, Die, Culprit
  <2>5. CASE StopDisable(t)  BY <2>5 DEF StopDisable, DisableContext, StopGoto, Die, Culprit
  <2>6. CASE StopSync(t)  BY <2>6 DEF StopSync, StopReturn, Die, Culprit
  <2> QED  BY <2>1, <2>2, <2>3, <2>4, <2>5, <2>6, <1>22 DEF HookStop
<1>23. CASE ServerInput  BY <1>23 DEF ServerInput
<1>24. CASE SetDispatchProc  BY <1>24 DEF SetDispatchProc
<1>25. CASE LibraryUnload  BY <1>25 DEF LibraryUnload, UnloadInputHelper, Die
<1>26. CASE UNCHANGED vars  BY <1>26 DEF vars
<1> QED  BY <1>1, <1>2, <1>3, <1>4, <1>5, <1>6, <1>7, <1>8, <1>9, <1>10, <1>11, <1>12,
     <1>13, <1>14, <1>15, <1>16, <1>17, <1>18, <1>19, <1>20, <1>21, <1>22, <1>23, <1>24, <1>25,
     <1>26 DEF Next, HookRun

(* The server's context is created, disabled and freed in step with the    *)
(* control points, whichever thread disables it.                           *)
LEMMA ContextStep == TypeOK /\ StreamInv /\ ContextInv /\ [Next]_vars => ContextInv'
<1> SUFFICES ASSUME TypeOK, StreamInv, ContextInv, [Next]_vars PROVE ContextInv'  OBVIOUS
<1> USE DEF ContextInv, Recording, At, Goto, Alive, runVars, serverVars, stopVars
<1>1. CASE RunAlloc  BY <1>1 DEF RunAlloc
<1>2. CASE RunOutOfMemory  BY <1>2 DEF RunOutOfMemory
<1>3. CASE OpenCtrl  BY <1>3 DEF OpenCtrl
<1>4. CASE OpenData  BY <1>4 DEF OpenData, Opened, OpenFailed
<1>5. CASE InitXkb  BY <1>5 DEF InitXkb, Die
<1>6. CASE QueryVersion  BY <1>6 DEF QueryVersion, MayFail
<1>7. CASE AllocRange  BY <1>7 DEF AllocRange, MayFail
<1>8. CASE CreateContext  BY <1>8 DEF CreateContext, MayFail
<1>9. CASE EnableContext  BY <1>9 DEF EnableContext, MayFail
<1>10. CASE StartOfData  BY <1>10 DEF StartOfData, LoadInputHelper, Fire, Die
<1>11. CASE InputRecord  BY <1>11 DEF InputRecord, Fire
<1>12. CASE EndOfData  BY <1>12 DEF EndOfData, Fire
<1>13. CASE DispatchReturn
  <2>1. fired = "disabled" => rec = "disabled"  BY <1>13 DEF DispatchReturn, StreamInv
  <2> QED  BY <1>13, <2>1 DEF DispatchReturn
<1>14. CASE FreeContext  BY <1>14 DEF FreeContext
<1>15. CASE FreeRange  BY <1>15 DEF FreeRange
<1>16. CASE FreeXkb  BY <1>16 DEF FreeXkb
<1>17. CASE CloseData  BY <1>17 DEF CloseData
<1>18. CASE CloseCtrl  BY <1>18 DEF CloseCtrl
<1>19. CASE NullCtrl  BY <1>19 DEF NullCtrl
<1>20. CASE FreeHook  BY <1>20 DEF FreeHook
<1>21. CASE NullHook  BY <1>21 DEF NullHook
<1>22. ASSUME NEW t \in Stopper, HookStop(t) PROVE ContextInv'
  <2>1. CASE StopCall(t)  BY <2>1 DEF StopCall, StopReturn, StopGoto
  <2>2. CASE StopDisplay(t)
    BY <2>2 DEF StopDisplay, StopTest, StopReturn, StopGoto, Die, Culprit
  <2>3. CASE StopContext(t)
    BY <2>3 DEF StopContext, StopTest, StopReturn, StopGoto, Die, Culprit
  <2>4. CASE StopQuery(t)  BY <2>4 DEF StopQuery, StopReturn, StopGoto, Die, Culprit
  <2>5. CASE StopDisable(t)
    <3>1. pc' = pc /\ ctrlContext' = ctrlContext
      BY <2>5 DEF StopDisable, DisableContext, StopGoto, Die
    <3>2. rec' = rec \/ (rec = "enabled" /\ rec' = "disabled")
      BY <2>5 DEF StopDisable, DisableContext, Die
    <3> QED  BY <3>1, <3>2
  <2>6. CASE StopSync(t)  BY <2>6 DEF StopSync, StopReturn, Die, Culprit
  <2> QED  BY <2>1, <2>2, <2>3, <2>4, <2>5, <2>6, <1>22 DEF HookStop
<1>23. CASE ServerInput  BY <1>23 DEF ServerInput
<1>24. CASE SetDispatchProc  BY <1>24 DEF SetDispatchProc
<1>25. CASE LibraryUnload  BY <1>25 DEF LibraryUnload, UnloadInputHelper, Die
<1>26. CASE UNCHANGED vars  BY <1>26 DEF vars
<1> QED  BY <1>1, <1>2, <1>3, <1>4, <1>5, <1>6, <1>7, <1>8, <1>9, <1>10, <1>11, <1>12,
     <1>13, <1>14, <1>15, <1>16, <1>17, <1>18, <1>19, <1>20, <1>21, <1>22, <1>23, <1>24, <1>25,
     <1>26 DEF Next, HookRun

(* Records are taken in order: StartOfData first, EndOfData last, and the  *)
(* status is set to success only behind EndOfData.                         *)
LEMMA StreamStep == TypeOK /\ ContextInv /\ StreamInv /\ [Next]_vars => StreamInv'
<1> SUFFICES ASSUME TypeOK, ContextInv, StreamInv, [Next]_vars PROVE StreamInv'  OBVIOUS
<1> USE DEF StreamInv, Idle, Starting, Recording, RunErrors, At, Goto, Alive, runVars,
     serverVars, stopVars
<1>1. CASE RunAlloc  BY <1>1 DEF RunAlloc
<1>2. CASE RunOutOfMemory  BY <1>2 DEF RunOutOfMemory
<1>3. CASE OpenCtrl  BY <1>3 DEF OpenCtrl
<1>4. CASE OpenData  BY <1>4 DEF OpenData, Opened, OpenFailed
<1>5. CASE InitXkb  BY <1>5 DEF InitXkb, Die
<1>6. CASE QueryVersion  BY <1>6 DEF QueryVersion, MayFail
<1>7. CASE AllocRange  BY <1>7 DEF AllocRange, MayFail
<1>8. CASE CreateContext  BY <1>8 DEF CreateContext, MayFail
<1>9. CASE EnableContext
  <2>1. pc = "enable" /\ rec = "created" /\ wire = <<>> /\ fired = "none" /\ fired' = fired
    BY <1>9 DEF EnableContext, MayFail, ContextInv
  <2>2. CASE pc' = "receive"
    <3>1. rec' = "enabled" /\ wire' = <<"start">> /\ status' = status
      BY <1>9, <2>2 DEF EnableContext, MayFail
    <3>2. Len(<<"start">>) = 1 /\ <<"start">> # <<>> /\ <<"start">>[1] = "start"  OBVIOUS
    <3> QED  BY <2>1, <2>2, <3>1, <3>2
  <2>3. CASE pc' = "free_context"
    <3>1. status' = "RECORD_ENABLE_CONTEXT" /\ rec' = rec /\ wire' = wire
      BY <1>9, <2>3 DEF EnableContext, MayFail
    <3> QED  BY <2>1, <2>3, <3>1
  <2> QED  BY <1>9, <2>2, <2>3 DEF EnableContext, MayFail
<1>10. CASE StartOfData
  <2>1. CASE Die("helper")  BY <1>10, <2>1 DEF StartOfData, Die
  <2>2. CASE Fire("enabled")
    <3>1. wire # <<>> /\ fired = "none" /\ rec' = rec  BY <1>10, <2>2 DEF StartOfData, Fire
    <3>2. pc' = "dispatch" /\ fired' = "enabled" /\ wire' = Tail(wire) /\ status' = status
      BY <2>2 DEF Fire
    <3>3. \A i \in 1..Len(wire') : wire'[i] = wire[i + 1]  BY <3>1, <3>2 DEF TypeOK
    <3>4. Len(wire') = Len(wire) - 1  BY <3>1, <3>2 DEF TypeOK
    <3>5. Len(wire) \in Nat \ {0} /\ pc = "receive"  BY <1>10, <3>1 DEF StartOfData, TypeOK
    <3>6. \A i \in 1..Len(wire') : wire'[i] # "start" /\
             (wire'[i] = "end" <=> i = Len(wire') /\ rec' = "disabled")
      BY <3>1, <3>3, <3>4, <3>5
    <3> QED  BY <3>1, <3>2, <3>5, <3>6
  <2> QED  BY <1>10, <2>1, <2>2 DEF StartOfData
<1>11. CASE InputRecord  BY <1>11 DEF InputRecord, Fire
<1>12. CASE EndOfData  BY <1>12 DEF EndOfData, Fire
<1>13. CASE DispatchReturn  BY <1>13 DEF DispatchReturn, UnloadInputHelper
<1>14. CASE FreeContext  BY <1>14 DEF FreeContext
<1>15. CASE FreeRange  BY <1>15 DEF FreeRange
<1>16. CASE FreeXkb  BY <1>16 DEF FreeXkb
<1>17. CASE CloseData  BY <1>17 DEF CloseData
<1>18. CASE CloseCtrl  BY <1>18 DEF CloseCtrl
<1>19. CASE NullCtrl  BY <1>19 DEF NullCtrl
<1>20. CASE FreeHook  BY <1>20 DEF FreeHook
<1>21. CASE NullHook  BY <1>21 DEF NullHook
<1>22. ASSUME NEW t \in Stopper, HookStop(t) PROVE StreamInv'
  <2>1. CASE StopCall(t)  BY <2>1 DEF StopCall, StopReturn, StopGoto
  <2>2. CASE StopDisplay(t)
    BY <2>2 DEF StopDisplay, StopTest, StopReturn, StopGoto, Die, Culprit
  <2>3. CASE StopContext(t)
    BY <2>3 DEF StopContext, StopTest, StopReturn, StopGoto, Die, Culprit
  <2>4. CASE StopQuery(t)  BY <2>4 DEF StopQuery, StopReturn, StopGoto, Die, Culprit
  <2>5. CASE StopDisable(t)
    <3>1. UNCHANGED <<pc, status, fired>>  BY <2>5 DEF StopDisable, DisableContext,
         StopGoto, Die
    <3>2. CASE UNCHANGED serverVars  BY <3>1, <3>2
    <3>3. CASE rec = "enabled" /\ rec' = "disabled" /\ wire' = Append(wire, "end")
      <4>1. pc \in Recording /\ fired # "disabled"  BY <3>3 DEF ContextInv
      <4>2. Len(wire') = Len(wire) + 1 /\ wire' # <<>>  BY <3>3 DEF TypeOK
      <4>3. wire'[Len(wire) + 1] = "end" /\ \A i \in 1..Len(wire) : wire'[i] = wire[i]
        BY <3>3 DEF TypeOK
      <4>4. Len(wire) \in Nat /\ (fired = "none" => Len(wire) > 0)  BY <4>1 DEF TypeOK
      <4> QED  BY <3>1, <3>3, <4>1, <4>2, <4>3, <4>4
    <3> QED  BY <2>5, <3>2, <3>3 DEF StopDisable, DisableContext, Die
  <2>6. CASE StopSync(t)  BY <2>6 DEF StopSync, StopReturn, Die, Culprit
  <2> QED  BY <2>1, <2>2, <2>3, <2>4, <2>5, <2>6, <1>22 DEF HookStop
<1>23. CASE ServerInput
  <2>1. UNCHANGED <<pc, status, fired, rec>> /\ rec = "enabled" /\ wire' = Append(wire, "input")
    BY <1>23 DEF ServerInput
  <2>2. pc \in Recording /\ fired # "disabled"  BY <2>1 DEF ContextInv
  <2>3. Len(wire') = Len(wire) + 1 /\ wire' # <<>>  BY <2>1 DEF TypeOK
  <2>4. wire'[Len(wire) + 1] = "input" /\ \A i \in 1..Len(wire) : wire'[i] = wire[i]
    BY <2>1 DEF TypeOK
  <2>5. Len(wire) \in Nat /\ (fired = "none" => Len(wire) > 0)  BY <2>2 DEF TypeOK
  <2> QED  BY <2>1, <2>2, <2>3, <2>4, <2>5
<1>24. CASE SetDispatchProc  BY <1>24 DEF SetDispatchProc
<1>25. CASE LibraryUnload  BY <1>25 DEF LibraryUnload, UnloadInputHelper, Die
<1>26. CASE UNCHANGED vars  BY <1>26 DEF vars
<1> QED  BY <1>1, <1>2, <1>3, <1>4, <1>5, <1>6, <1>7, <1>8, <1>9, <1>10, <1>11, <1>12,
     <1>13, <1>14, <1>15, <1>16, <1>17, <1>18, <1>19, <1>20, <1>21, <1>22, <1>23, <1>24, <1>25,
     <1>26 DEF Next, HookRun

(* A hook_stop() inside the callback is protected by the control point of  *)
(* the thread it runs on, and no other thread undoes what it has done.     *)
LEMMA CallbackStep ==
  TypeOK /\ HeldInv /\ ContextInv /\ CallbackInv /\ [Next]_vars => CallbackInv'
<1> SUFFICES ASSUME TypeOK, HeldInv, ContextInv, CallbackInv, [Next]_vars
             PROVE  CallbackInv'  OBVIOUS
<1> USE DEF CallbackInv, CallbackStopNotLost, Recording, Connected, Idle, TypeOK, Stopper,
     StopAt, At, Goto, Alive, runVars, serverVars, stopVars
<1>1. CASE RunAlloc  BY <1>1 DEF RunAlloc
<1>2. CASE RunOutOfMemory  BY <1>2 DEF RunOutOfMemory
<1>3. CASE OpenCtrl  BY <1>3 DEF OpenCtrl
<1>4. CASE OpenData  BY <1>4 DEF OpenData, Opened, OpenFailed
<1>5. CASE InitXkb  BY <1>5 DEF InitXkb, Die
<1>6. CASE QueryVersion  BY <1>6 DEF QueryVersion, MayFail
<1>7. CASE AllocRange  BY <1>7 DEF AllocRange, MayFail
<1>8. CASE CreateContext  BY <1>8 DEF CreateContext, MayFail
<1>9. CASE EnableContext  BY <1>9 DEF EnableContext, MayFail
<1>10. CASE StartOfData
  <2>1. CASE Die("helper")  BY <1>10, <2>1 DEF Die
  <2>2. CASE Fire("enabled")  BY <1>10, <2>2 DEF StartOfData, Fire
  <2> QED  BY <1>10, <2>1, <2>2 DEF StartOfData
<1>11. CASE InputRecord  BY <1>11 DEF InputRecord, Fire
<1>12. CASE EndOfData  BY <1>12 DEF EndOfData, Fire
<1>13. CASE DispatchReturn  BY <1>13 DEF DispatchReturn, UnloadInputHelper
<1>14. CASE FreeContext  BY <1>14 DEF FreeContext
<1>15. CASE FreeRange  BY <1>15 DEF FreeRange
<1>16. CASE FreeXkb  BY <1>16 DEF FreeXkb
<1>17. CASE CloseData  BY <1>17 DEF CloseData
<1>18. CASE CloseCtrl  BY <1>18 DEF CloseCtrl
<1>19. CASE NullCtrl  BY <1>19 DEF NullCtrl
<1>20. CASE FreeHook  BY <1>20 DEF FreeHook
<1>21. CASE NullHook  BY <1>21 DEF NullHook
<1>22. ASSUME NEW t \in Stopper, HookStop(t) PROVE CallbackInv'
  <2>1. CASE StopCall(t)  BY <2>1 DEF StopCall, MayCall, StopReturn, StopGoto, HeldInv
  <2>2. CASE StopDisplay(t)
    BY <2>2 DEF StopDisplay, StopTest, StopReturn, StopGoto, Die, Culprit, HeldInv
  <2>3. CASE StopContext(t)
    BY <2>3 DEF StopContext, StopTest, StopReturn, StopGoto, Die, Culprit, HeldInv, ContextInv
  <2>4. CASE StopQuery(t)  BY <2>4 DEF StopQuery, StopReturn, StopGoto, Die, Culprit,
                              HeldInv, ContextInv, ContextUsable, CtrlUsable
  <2>5. CASE StopDisable(t)  BY <2>5 DEF StopDisable, DisableContext, StopGoto, Die, Culprit,
                              HeldInv, ContextInv, ContextUsable, CtrlUsable
  <2>6. CASE StopSync(t)  BY <2>6 DEF StopSync, StopReturn, Die, Culprit,
                              HeldInv, CtrlUsable
  <2> QED  BY <2>1, <2>2, <2>3, <2>4, <2>5, <2>6, <1>22 DEF HookStop
<1>23. CASE ServerInput  BY <1>23 DEF ServerInput
<1>24. CASE SetDispatchProc  BY <1>24 DEF SetDispatchProc
<1>25. CASE LibraryUnload  BY <1>25 DEF LibraryUnload, UnloadInputHelper, Die
<1>26. CASE UNCHANGED vars  BY <1>26 DEF vars
<1> QED  BY <1>1, <1>2, <1>3, <1>4, <1>5, <1>6, <1>7, <1>8, <1>9, <1>10, <1>11, <1>12,
     <1>13, <1>14, <1>15, <1>16, <1>17, <1>18, <1>19, <1>20, <1>21, <1>22, <1>23, <1>24, <1>25,
     <1>26 DEF Next, HookRun

(* Loading and unloading the input helper enclose the stream.              *)
LEMMA HelperStep ==
  TypeOK /\ StreamInv /\ HelperSpansStream /\ [Next]_vars => HelperSpansStream'
<1> SUFFICES ASSUME TypeOK, StreamInv, HelperSpansStream, [Next]_vars
             PROVE  HelperSpansStream'  OBVIOUS
<1> USE DEF HelperSpansStream, Recording, Starting, StreamInv, TypeOK, HelperStates, At,
     Goto, Alive, runVars, serverVars, stopVars
<1>1. CASE RunAlloc  BY <1>1 DEF RunAlloc
<1>2. CASE RunOutOfMemory  BY <1>2 DEF RunOutOfMemory
<1>3. CASE OpenCtrl  BY <1>3 DEF OpenCtrl
<1>4. CASE OpenData  BY <1>4 DEF OpenData, Opened, OpenFailed
<1>5. CASE InitXkb  BY <1>5 DEF InitXkb, Die
<1>6. CASE QueryVersion  BY <1>6 DEF QueryVersion, MayFail
<1>7. CASE AllocRange  BY <1>7 DEF AllocRange, MayFail
<1>8. CASE CreateContext  BY <1>8 DEF CreateContext, MayFail
<1>9. CASE EnableContext  BY <1>9 DEF EnableContext, MayFail
<1>10. CASE StartOfData
  <2>1. CASE Die("helper")  BY <1>10, <2>1 DEF Die
  <2>2. CASE LoadInputHelper /\ Fire("enabled")  BY <2>2 DEF LoadInputHelper, Fire
  <2> QED  BY <1>10, <2>1, <2>2 DEF StartOfData
<1>11. CASE InputRecord  BY <1>11 DEF InputRecord, Fire
<1>12. CASE EndOfData  BY <1>12 DEF EndOfData, Fire
<1>13. CASE DispatchReturn  BY <1>13 DEF DispatchReturn, UnloadInputHelper
<1>14. CASE FreeContext  BY <1>14 DEF FreeContext
<1>15. CASE FreeRange  BY <1>15 DEF FreeRange
<1>16. CASE FreeXkb  BY <1>16 DEF FreeXkb
<1>17. CASE CloseData  BY <1>17 DEF CloseData
<1>18. CASE CloseCtrl  BY <1>18 DEF CloseCtrl
<1>19. CASE NullCtrl  BY <1>19 DEF NullCtrl
<1>20. CASE FreeHook  BY <1>20 DEF FreeHook
<1>21. CASE NullHook  BY <1>21 DEF NullHook
<1>22. ASSUME NEW t \in Stopper, HookStop(t) PROVE HelperSpansStream'
  <2>1. CASE StopCall(t)  BY <2>1 DEF StopCall, StopReturn, StopGoto
  <2>2. CASE StopDisplay(t)
    BY <2>2 DEF StopDisplay, StopTest, StopReturn, StopGoto, Die, Culprit
  <2>3. CASE StopContext(t)
    BY <2>3 DEF StopContext, StopTest, StopReturn, StopGoto, Die, Culprit
  <2>4. CASE StopQuery(t)  BY <2>4 DEF StopQuery, StopReturn, StopGoto, Die, Culprit
  <2>5. CASE StopDisable(t)  BY <2>5 DEF StopDisable, DisableContext, StopGoto, Die, Culprit
  <2>6. CASE StopSync(t)  BY <2>6 DEF StopSync, StopReturn, Die, Culprit
  <2> QED  BY <2>1, <2>2, <2>3, <2>4, <2>5, <2>6, <1>22 DEF HookStop
<1>23. CASE ServerInput  BY <1>23 DEF ServerInput
<1>24. CASE SetDispatchProc  BY <1>24 DEF SetDispatchProc
<1>25. CASE LibraryUnload  BY <1>25 DEF LibraryUnload, UnloadInputHelper, Die
<1>26. CASE UNCHANGED vars  BY <1>26 DEF vars
<1> QED  BY <1>1, <1>2, <1>3, <1>4, <1>5, <1>6, <1>7, <1>8, <1>9, <1>10, <1>11, <1>12,
     <1>13, <1>14, <1>15, <1>16, <1>17, <1>18, <1>19, <1>20, <1>21, <1>22, <1>23, <1>24, <1>25,
     <1>26 DEF Next, HookRun

(* The invariant holds after on_library_load().                            *)
LEMMA IInvInit == Init => IInv
<1> SUFFICES ASSUME Init PROVE IInv  OBVIOUS
<1>1. HeldInv  BY DEF Init, HeldInv, Idle, Connected, Ranged
<1>2. ContextInv  BY DEF Init, ContextInv, Recording
<1>3. StreamInv  BY DEF Init, StreamInv, Idle, Starting, Recording
<1>4. CallbackInv  BY DEF Init, CallbackInv, CallbackStopNotLost, Stopper
<1>5. HelperSpansStream  BY DEF Init, HelperSpansStream
<1> QED  BY TypeInit, <1>1, <1>2, <1>3, <1>4, <1>5 DEF IInv

(* The parts together are inductive.                                       *)
LEMMA IInvStep == IInv /\ [Next]_vars => IInv'
  BY TypeStep, HeldStep, ContextStep, StreamStep, CallbackStep, HelperStep DEF IInv

(* So the invariant always holds.                                          *)
LEMMA Invariance == Spec => []IInv
  BY IInvInit, IInvStep, PTL DEF Spec, Safety
-----------------------------------------------------------------------------
(* Type correctness of the X11 lifecycle; with it, hook_run() never drops  *)
(* an xkb reference it does not hold.                                      *)
THEOREM TypeCorrect == Spec => []TypeOK
<1>1. IInv => TypeOK  BY DEF IInv
<1> QED  BY Invariance, <1>1, PTL

(* A hook_stop() from the dispatch callback is never lost, for any number  *)
(* of other threads calling hook_stop() at the same time.                  *)
THEOREM CallbackStopIsNotLost == Spec => []CallbackStopNotLost
<1>1. IInv => CallbackStopNotLost  BY DEF IInv, CallbackInv
<1> QED  BY Invariance, <1>1, PTL

(* A hook_stop() from the dispatch callback only uses live pointers and a  *)
(* context the server knows.                                               *)
THEOREM CallbackStopIsSafe == Spec => []CallbackStopSafe
<1>1. IInv => CallbackStopSafe
  BY DEF IInv, CallbackInv, HeldInv, ContextInv, CallbackStopSafe, CtrlUsable,
     ContextUsable, Connected, Recording, Idle
<1> QED  BY Invariance, <1>1, PTL

(* hook_run() returns with everything released, on every error path.       *)
THEOREM NothingIsHeldAtReturn == Spec => []NothingHeldAtReturn
<1>1. IInv => NothingHeldAtReturn
  BY DEF IInv, HeldInv, ContextInv, StreamInv, NothingHeldAtReturn, Idle, Recording, Ranged
<1> QED  BY Invariance, <1>1, PTL

(* The input helper lives exactly as long as the event stream.             *)
THEOREM HelperIsLoadedForStream == Spec => []HelperSpansStream
<1>1. IInv => HelperSpansStream  BY DEF IInv
<1> QED  BY Invariance, <1>1, PTL
-----------------------------------------------------------------------------
(* Refinement.  The signal of the contract, under the refinement mapping.  *)
Signalled == Running /\ (rec = "disabled" \/ fired = "disabled")
Returned == IF Running \/ status = "FAILURE" THEN "pending" ELSE status

(* A step that leaves what the contract sees alone is a stutter.           *)
LEMMA Stutter ==
  Alive' = Alive /\ Running' = Running /\ fired' = fired /\ Signalled' = Signalled
    /\ Returned' = Returned => UNCHANGED Contract!vars
  BY DEF Contract!vars, Signalled, Returned

(* Undefined behaviour is the Die step of the contract.                    *)
LEMMA DieSim == ASSUME NEW c, c # "none", Alive, Die(c) PROVE Contract!Die
  BY DEF Die, Contract!Die, Alive, Running, runVars, serverVars, stopVars

(* Every step of the threads is a step of the contract or a stutter.       *)
LEMMA ContractStep == IInv /\ [Next]_vars => [Contract!Next]_(Contract!vars)
<1> SUFFICES ASSUME IInv, [Next]_vars, ~UNCHANGED Contract!vars PROVE Contract!Next
  OBVIOUS
<1> USE DEF IInv, At, Goto, Alive, Running, Idle, runVars, serverVars, stopVars
<1>1. CASE RunAlloc
  <2>1. Contract!Start
    BY <1>1 DEF RunAlloc, Contract!Start, Contract!Pending, ContextInv, Recording
  <2> QED  BY <2>1 DEF Contract!Next
<1>2. CASE RunOutOfMemory
  <2>1. Contract!FailFast  BY <1>2 DEF RunOutOfMemory, Contract!FailFast, RunErrors
  <2> QED  BY <2>1 DEF Contract!Next
<1>3. CASE OpenCtrl
  BY <1>3, Stutter DEF OpenCtrl, Signalled, Returned, ContextInv, StreamInv, Starting, Recording
<1>4. CASE OpenData
  BY <1>4, Stutter DEF OpenData, Opened, OpenFailed, Signalled, Returned, ContextInv,
       StreamInv, Starting, Recording
<1>5. CASE QueryVersion
  BY <1>5, Stutter DEF QueryVersion, MayFail, Signalled, Returned, ContextInv, StreamInv,
       Starting, Recording
<1>6. CASE AllocRange
  BY <1>6, Stutter DEF AllocRange, MayFail, Signalled, Returned, ContextInv, StreamInv,
       Starting, Recording
<1>7. CASE CreateContext
  BY <1>7, Stutter DEF CreateContext, MayFail, Signalled, Returned, ContextInv, StreamInv,
       Starting, Recording
<1>8. CASE EnableContext
  BY <1>8, Stutter DEF EnableContext, MayFail, Signalled, Returned, ContextInv, StreamInv,
       Starting, Recording
<1>9. CASE DispatchReturn
  BY <1>9, Stutter DEF DispatchReturn, Signalled, Returned, ContextInv, StreamInv, Starting,
       Recording
<1>10. CASE FreeContext
  BY <1>10, Stutter DEF FreeContext, Signalled, Returned, ContextInv, StreamInv, Starting,
       Recording
<1>11. CASE FreeRange
  BY <1>11, Stutter DEF FreeRange, Signalled, Returned, ContextInv, StreamInv, Starting,
       Recording
<1>12. CASE FreeXkb
  BY <1>12, Stutter DEF FreeXkb, Signalled, Returned, ContextInv, StreamInv, Starting, Recording
<1>13. CASE CloseData
  BY <1>13, Stutter DEF CloseData, Signalled, Returned, ContextInv, StreamInv, Starting,
       Recording
<1>14. CASE CloseCtrl
  BY <1>14, Stutter DEF CloseCtrl, Signalled, Returned, ContextInv, StreamInv, Starting,
       Recording
<1>15. CASE NullCtrl
  BY <1>15, Stutter DEF NullCtrl, Signalled, Returned, ContextInv, StreamInv, Starting,
       Recording
<1>16. CASE FreeHook
  BY <1>16, Stutter DEF FreeHook, Signalled, Returned, ContextInv, StreamInv, Starting,
       Recording
<1>17. CASE InitXkb
  <2>1. CASE Die("xkb")  BY <1>17, <2>1, DieSim DEF InitXkb, Contract!Next
  <2> QED  BY <1>17, <2>1, Stutter DEF InitXkb, Signalled, Returned
<1>18. CASE StartOfData
  <2>1. CASE Die("helper")  BY <1>18, <2>1, DieSim DEF StartOfData, Contract!Next
  <2>2. CASE Fire("enabled")
    <3>1. wire[1] = "start" /\ 1 \in 1..Len(wire)  BY <1>18 DEF StartOfData, TypeOK
    <3>2. fired = "none"  BY <3>1 DEF StreamInv
    <3>3. Contract!Enable  BY <1>18, <2>2, <3>2 DEF StartOfData, Fire, Contract!Enable
    <3> QED  BY <3>3 DEF Contract!Next
  <2> QED  BY <1>18, <2>1, <2>2 DEF StartOfData
<1>19. CASE InputRecord
  <2>1. wire[1] = "input" /\ 1 \in 1..Len(wire)  BY <1>19 DEF InputRecord, TypeOK
  <2>2. fired \in {"enabled", "input"}
    BY <1>19, <2>1 DEF InputRecord, StreamInv, Recording, TypeOK
  <2>3. Contract!Input  BY <1>19, <2>2 DEF InputRecord, Fire, Contract!Input
  <2> QED  BY <2>3 DEF Contract!Next
<1>20. CASE EndOfData
  <2>1. wire[1] = "end" /\ 1 \in 1..Len(wire)  BY <1>20 DEF EndOfData, TypeOK
  <2>2. fired \in {"enabled", "input"} /\ rec = "disabled"
    BY <1>20, <2>1 DEF EndOfData, StreamInv, Recording, TypeOK
  <2>3. Contract!Disable  BY <1>20, <2>2 DEF EndOfData, Fire, Contract!Disable
  <2> QED  BY <2>3 DEF Contract!Next
<1>21. CASE NullHook
  <2>1. \/ fired = "disabled" /\ status = "SUCCESS"
        \/ fired = "none" /\ status \in RunErrors
    BY <1>21 DEF NullHook, StreamInv, Starting, Recording
  <2>2. rec = "none"  BY <1>21 DEF NullHook, ContextInv, Recording
  <2>3. Contract!Return
    BY <1>21, <2>1, <2>2 DEF NullHook, Contract!Return, RunErrors
  <2> QED  BY <2>3 DEF Contract!Next
<1>22. ASSUME NEW t \in Stopper, HookStop(t) PROVE Contract!Next
  <2>1. CASE Alive /\ Die(Culprit(t))  BY <2>1, DieSim DEF Culprit, Contract!Next
  <2>2. CASE UNCHANGED <<pc, status, fired, rec, fault>>
    BY <2>2, Stutter DEF Signalled, Returned
  <2>3. CASE StopDisable(t) /\ ContextUsable /\ rec = "enabled" /\ StopGoto(t, "sync")
               /\ rec' = "disabled"
    <3>1. pc \in Recording /\ fired # "disabled"
      BY <2>3 DEF ContextInv, StreamInv, Recording
    <3>2. Contract!Signal
      BY <2>3, <3>1 DEF StopDisable, DisableContext, StopAt, StopGoto, Contract!Signal,
           Recording
    <3> QED  BY <3>2 DEF Contract!Next
  <2>4. CASE StopCall(t)  BY <2>4, <2>2 DEF StopCall, StopGoto, StopReturn
  <2>5. CASE StopDisplay(t)
    BY <2>5, <2>1, <2>2 DEF StopDisplay, StopTest, StopAt, StopGoto, StopReturn
  <2>6. CASE StopContext(t)
    BY <2>6, <2>1, <2>2 DEF StopContext, StopTest, StopAt, StopGoto, StopReturn
  <2>7. CASE StopQuery(t)  BY <2>7, <2>1, <2>2 DEF StopQuery, StopAt, StopGoto, StopReturn
  <2>8. CASE StopDisable(t)
    BY <2>8, <2>1, <2>2, <2>3 DEF StopDisable, DisableContext, StopAt, StopGoto
  <2>9. CASE StopSync(t)  BY <2>9, <2>1, <2>2 DEF StopSync, StopAt, StopReturn
  <2> QED  BY <1>22, <2>4, <2>5, <2>6, <2>7, <2>8, <2>9 DEF HookStop
<1>23. CASE ServerInput  BY <1>23, Stutter DEF ServerInput, Signalled, Returned
<1>24. CASE SetDispatchProc  BY <1>24, Stutter DEF SetDispatchProc, Signalled, Returned
<1>25. CASE LibraryUnload
  <2>1. CASE Die("unload")  BY <1>25, <2>1, DieSim DEF LibraryUnload, Contract!Next
  <2> QED  BY <1>25, <2>1, Stutter DEF LibraryUnload, Signalled, Returned
<1>26. CASE UNCHANGED vars  BY <1>26, Stutter DEF vars, Signalled, Returned
<1> QED  BY <1>1, <1>2, <1>3, <1>4, <1>5, <1>6, <1>7, <1>8, <1>9, <1>10, <1>11, <1>12,
     <1>13, <1>14, <1>15, <1>16, <1>17, <1>18, <1>19, <1>20, <1>21, <1>22, <1>23, <1>24, <1>25,
     <1>26 DEF Next, HookRun

(* Every behaviour of the X11 back end is one the contract of hook_run()   *)
(* and hook_stop() allows, whatever the number of threads and of runs: the *)
(* safety half of ImplementsContract.                                      *)
THEOREM ImplementsContractSafely == Spec => Contract!Safety
<1>1. Init => Contract!Init
  BY DEF Init, Contract!Init, Contract!Pending, Alive, Running, Idle
<1>2. IInv /\ [Next]_vars => [Contract!Next]_(Contract!vars)  BY ContractStep
<1> QED  BY Invariance, <1>1, <1>2, PTL DEF Spec, Safety, Contract!Safety

=============================================================================
