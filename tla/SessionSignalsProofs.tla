------------------------ MODULE SessionSignalsProofs ------------------------
(***************************************************************************)
(* Proofs about SessionSignals: what holds whenever the signals arrive,    *)
(* and what holds if none arrives while main is in one of the Windows.     *)
(***************************************************************************)
EXTENDS SessionSignals, TLAPS

-----------------------------------------------------------------------------
(***************************************************************************)
(* Signals at any time.                                                    *)
(***************************************************************************)
\* Where the handler returns to is a place.
LEMMA ReturnType ==
    ASSUME TypeOK, NEW a \in Actors, Return(a), pc[a] \in Handling
    PROVE  /\ pc' \in [Actors -> Handling \cup MainPlaces \cup {"idle"}]
           /\ pc'["main"] # "idle" /\ pc'["handler"] \notin MainPlaces
           /\ pending' \in BOOLEAN
<1>1. CASE a = "main"
  BY <1>1 DEF Return, GoTo, TypeOK, MainPlaces, Actors
<1>2. CASE a = "handler"
  <2>1. "main" \in Actors /\ "handler" \in Actors BY DEF Actors
  <2>2. PICK to \in {"hup", "idle"} : pc' = [pc EXCEPT !["handler"] = to]
    BY <1>2 DEF Return, GoTo
  <2>3. pending' = FALSE BY <1>2 DEF Return
  <2>4. {"hup", "idle"} \subseteq Handling \cup {"idle"} BY DEF Handling
  <2>5. {"hup", "idle"} \cap MainPlaces = {} BY DEF MainPlaces
  <2> QED BY <2>1, <2>2, <2>3, <2>4, <2>5 DEF TypeOK
<1> QED
  BY <1>1, <1>2 DEF Actors
\* At the start there is the session of main and no signal.
LEMMA InitSignals == Init => SignalsInv
<1> SUFFICES ASSUME Init
             PROVE  SignalsInv
  OBVIOUS
<1>1. pc["main"] = "test" /\ pc["handler"] = "idle"
  BY DEF Init, Actors
<1>2. TypeOK
  <2>1. pc \in [Actors -> Handling \cup MainPlaces \cup {"idle"}]
    <3>1. \A a \in Actors : pc[a] \in {"test", "idle"}
      BY DEF Init
    <3> QED
      BY <3>1 DEF Init, MainPlaces
  <2>2. loads \in [Sessions -> Nat] /\ version \in [Sessions -> Nat]
    <3>1. \A s \in Sessions : loads[s] \in {0, 1} /\ version[s] = 0
      BY DEF Init
    <3> QED
      BY <3>1 DEF Init
  <2> QED
    BY <1>1, <2>1, <2>2 DEF Init, TypeOK, MainPlaces
<1>3. ControlOK
  BY <1>1 DEF Init, ControlOK, InCheck
<1>4. HeapOK /\ NoOthers
  BY <1>1 DEF Init, HeapOK, NoOthers, CheckIsUndisturbed, Actors, Building,
     ReadsArg
<1> QED
  BY <1>2, <1>3, <1>4 DEF SignalsInv

\* The steps of the handler, whoever called it, preserve SignalsInv.
LEMMA HandlerSignals ==
    ASSUME SignalsInv, NEW a \in Actors, HandlerStep(a)
    PROVE  SignalsInv'
<1>1. CASE NoteHangUp(a)
  <2>1. TypeOK'
    <3>1. Return(a) /\ pc[a] \in Handling /\ seenHUP' \in BOOLEAN
      BY <1>1 DEF NoteHangUp, At, Handling
    <3> QED
      BY <1>1, <3>1, ReturnType
         DEF NoteHangUp, SignalsInv, TypeOK, heap, data, world
  <2>2. ControlOK'
    BY <1>1 DEF NoteHangUp, Return, Actors, At, GoTo, SignalsInv, TypeOK,
       ControlOK, InCheck, Leaving
  <2>3. HeapOK' /\ NoOthers'
    BY <1>1 DEF NoteHangUp, Return, Actors, At, GoTo, heap, data, world,
       SignalsInv, TypeOK, ControlOK, HeapOK, CheckIsUndisturbed, NoOthers,
       Handling, MainPlaces, Building, InCheck, Leaving, ReadsArg
  <2> QED
    BY <2>1, <2>2, <2>3 DEF SignalsInv
<1>2. CASE BeginReload(a)
  BY <1>2 DEF BeginReload, At, GoTo, heap, data, flags, world, Actors,
     SignalsInv, TypeOK, ControlOK, HeapOK, CheckIsUndisturbed, NoOthers,
     Handling, MainPlaces, Building, InCheck, Leaving, ReadsArg
<1>3. CASE SessionInit(a)
  <2>1. TypeOK' /\ ControlOK'
    <3>1. PICK s \in Sessions \ allocated :
             /\ new' = [new EXCEPT ![a] = s]
             /\ allocated' = allocated \cup {s}
      BY <1>3 DEF SessionInit
    <3>2. pc' = [pc EXCEPT ![a] = "parse"]
      BY <1>3 DEF SessionInit, GoTo
    <3>3. TypeOK'
      BY <1>3, <3>1, <3>2 DEF SessionInit, SignalsInv, TypeOK, Handling,
         MainPlaces, data, flags, world
    <3> QED
      BY <1>3, <3>2, <3>3 DEF SessionInit, At, SignalsInv, TypeOK, ControlOK,
         Actors, Handling, MainPlaces, InCheck, Leaving, flags
  <2>2. HeapOK'
    <3>1. PICK s \in Sessions \ allocated :
             /\ new' = [new EXCEPT ![a] = s]
             /\ allocated' = allocated \cup {s}
      BY <1>3 DEF SessionInit
    <3>2. /\ pc' = [pc EXCEPT ![a] = "parse"]
          /\ \A b \in Actors \ {a} : new'[b] = new[b] /\ pc'[b] = pc[b]
          /\ new'[a] = s /\ s \notin allocated
      BY <1>3, <3>1 DEF SessionInit, GoTo, SignalsInv, TypeOK
    <3> QED
      BY <1>3, <3>1, <3>2 DEF SessionInit, At, Actors, SignalsInv, TypeOK,
         HeapOK, CheckIsUndisturbed, Building, ReadsArg
  <2>3. NoOthers'
    BY <1>3 DEF SessionInit, At, GoTo, data, flags, world, Actors, SignalsInv,
       TypeOK, ControlOK, HeapOK, CheckIsUndisturbed, NoOthers, Handling,
       MainPlaces, Building, InCheck, Leaving, ReadsArg
  <2> QED
    BY <2>1, <2>2, <2>3 DEF SignalsInv
<1>4. CASE ParseConfig(a)
  BY <1>4 DEF ParseConfig, At, GoTo, heap, flags, world, SignalsInv, TypeOK,
     ControlOK, HeapOK, CheckIsUndisturbed, NoOthers, Handling, MainPlaces,
     Building, InCheck, Leaving, ReadsArg
<1>5. CASE ParseFails(a)
  BY <1>5 DEF ParseFails, At, GoTo, heap, data, flags, SignalsInv, TypeOK,
     ControlOK, HeapOK, CheckIsUndisturbed, NoOthers, Handling, MainPlaces,
     Building, InCheck, Leaving, ReadsArg
<1>6. CASE DropSession(a)
  <2>1. TypeOK' /\ ControlOK'
    BY <1>6 DEF DropSession, At, GoTo, data, flags, world, SignalsInv, TypeOK,
       ControlOK, Handling, MainPlaces, InCheck, Leaving
  <2>2. HeapOK'
    BY <1>6 DEF DropSession, At, GoTo, Actors, SignalsInv, TypeOK, HeapOK,
       CheckIsUndisturbed, Building, ReadsArg
  <2>3. NoOthers'
    BY <1>6 DEF DropSession, At, GoTo, data, flags, world, Actors, SignalsInv,
       TypeOK, ControlOK, HeapOK, CheckIsUndisturbed, NoOthers, Handling,
       MainPlaces, Building, InCheck, Leaving, ReadsArg
  <2> QED
    BY <2>1, <2>2, <2>3 DEF SignalsInv
<1>7. CASE CopySettings(a)
  BY <1>7 DEF CopySettings, At, Sound, GoTo, Pass, heap, data, flags, world,
     Actors, SignalsInv, TypeOK, ControlOK, HeapOK, CheckIsUndisturbed,
     NoOthers, Handling, MainPlaces, Building, InCheck, Leaving, ReadsCurrent
<1>8. CASE SaveOld(a)
  BY <1>8 DEF SaveOld, At, GoTo, Pass, heap, data, flags, world, SignalsInv,
     TypeOK, ControlOK, HeapOK, CheckIsUndisturbed, NoOthers, Handling,
     MainPlaces, Building, InCheck, Leaving
<1>9. CASE FreeOld(a)
  <2>1. TypeOK' /\ ControlOK'
    BY <1>9 DEF FreeOld, At, GoTo, data, flags, world, SignalsInv, TypeOK,
       ControlOK, Handling, MainPlaces, InCheck, Leaving
  <2>2. HeapOK'
    BY <1>9 DEF FreeOld, At, Sound, GoTo, Actors, SignalsInv, TypeOK,
       ControlOK, HeapOK, CheckIsUndisturbed, Building, InCheck, Leaving,
       ReadsArg
  <2>3. NoOthers'
    BY <1>9 DEF FreeOld, At, Sound, GoTo, data, flags, world, Actors,
       SignalsInv, TypeOK, ControlOK, HeapOK, CheckIsUndisturbed, NoOthers,
       Handling, MainPlaces, Building, InCheck, Leaving, ReadsCurrent,
       ReadsArg
  <2> QED
    BY <2>1, <2>2, <2>3 DEF SignalsInv
<1>10. CASE Install(a)
  <2>1. TypeOK' /\ ControlOK'
    BY <1>10 DEF Install, At, GoTo, heap, data, flags, world, SignalsInv,
       TypeOK, ControlOK, Handling, MainPlaces, InCheck, Leaving
  <2>2. HeapOK'
    BY <1>10 DEF Install, At, GoTo, heap, Actors, SignalsInv, TypeOK, HeapOK,
       CheckIsUndisturbed, Building, ReadsArg
  <2>3. NoOthers'
    BY <1>10 DEF Install, At, GoTo, heap, data, flags, world, Actors,
       SignalsInv, TypeOK, ControlOK, HeapOK, CheckIsUndisturbed, NoOthers,
       Handling, MainPlaces, Building, InCheck, Leaving, ReadsArg
  <2> QED
    BY <2>1, <2>2, <2>3 DEF SignalsInv
<1>11. CASE VerifyKey(a)
  BY <1>11 DEF VerifyKey, At, GoTo, Pass, heap, data, flags, world,
     SignalsInv, TypeOK, ControlOK, HeapOK, CheckIsUndisturbed, NoOthers,
     Handling, MainPlaces, Building, InCheck, Leaving
<1>12. CASE CallLoadState(a)
  BY <1>12 DEF CallLoadState, At, GoTo, Pass, heap, data, flags, world,
     SignalsInv, TypeOK, ControlOK, HeapOK, CheckIsUndisturbed, NoOthers,
     Handling, MainPlaces, Building, InCheck, Leaving
<1>13. CASE LoadState(a)
  BY <1>13 DEF LoadState, At, GoTo, heap, flags, world, SignalsInv, TypeOK,
     ControlOK, HeapOK, CheckIsUndisturbed, NoOthers, Handling, MainPlaces,
     Building, InCheck, Leaving, ReadsArg
<1>14. CASE PrintSettings(a)
  BY <1>14 DEF PrintSettings, At, GoTo, Pass, heap, data, flags, world,
     SignalsInv, TypeOK, ControlOK, HeapOK, CheckIsUndisturbed, NoOthers,
     Handling, MainPlaces, Building, InCheck, Leaving
<1>15. CASE RPCVersion(a)
  BY <1>15 DEF RPCVersion, At, Sound, GoTo, heap, data, flags, world, Actors,
     SignalsInv, TypeOK, ControlOK, HeapOK, CheckIsUndisturbed, NoOthers,
     Handling, MainPlaces, Building, InCheck, Leaving, ReadsCurrent, ReadsArg
<1>16. CASE ClearFlag(a)
  <2>1. TypeOK'
    <3>1. Return(a) /\ pc[a] \in Handling /\ seenHUP' \in BOOLEAN
      BY <1>16 DEF ClearFlag, At, Handling
    <3> QED
      BY <1>16, <3>1, ReturnType
         DEF ClearFlag, SignalsInv, TypeOK, heap, data, world
  <2>2. ControlOK'
    BY <1>16 DEF ClearFlag, Return, Actors, At, GoTo, SignalsInv, TypeOK,
       ControlOK, InCheck, Leaving
  <2>3. HeapOK' /\ NoOthers'
    BY <1>16 DEF ClearFlag, Return, Actors, At, GoTo, heap, data, world,
       SignalsInv, TypeOK, ControlOK, HeapOK, CheckIsUndisturbed, NoOthers,
       Handling, MainPlaces, Building, InCheck, Leaving, ReadsArg
  <2> QED
    BY <2>1, <2>2, <2>3 DEF SignalsInv
<1> QED
  BY <1>1, <1>2, <1>3, <1>4, <1>5, <1>6, <1>7, <1>8, <1>9, <1>10, <1>11,
      <1>12, <1>13, <1>14, <1>15, <1>16 DEF HandlerStep

\* So do the steps of the loop and of the shutdown,
LEMMA MainSignals ==
    ASSUME SignalsInv, MainStep
    PROVE  SignalsInv'
<1>1. CASE TestClosing
  BY <1>1 DEF TestClosing, At, GoTo, heap, data, flags, world, Actors,
     SignalsInv, TypeOK, ControlOK, HeapOK, CheckIsUndisturbed, NoOthers,
     MainPlaces, Building, InCheck, Leaving, ReadsArg
<1>2. CASE BeginCheck
  BY <1>2 DEF BeginCheck, At, GoTo, heap, data, world, Actors, SignalsInv,
     TypeOK, ControlOK, HeapOK, CheckIsUndisturbed, NoOthers, MainPlaces,
     Building, InCheck, Leaving, ReadsArg
<1>3. CASE ProcessFeeds
  BY <1>3 DEF ProcessFeeds, At, GoTo, Pass, heap, data, flags, world, Actors,
     SignalsInv, TypeOK, ControlOK, HeapOK, CheckIsUndisturbed, NoOthers,
     MainPlaces, Building, InCheck, Leaving
<1>4. CASE EndCheck
  BY <1>4 DEF EndCheck, At, GoTo, heap, data, flags, world, Actors,
     SignalsInv, TypeOK, ControlOK, HeapOK, CheckIsUndisturbed, NoOthers,
     MainPlaces, Building, InCheck, Leaving
<1>5. CASE StopRunning
  BY <1>5 DEF StopRunning, At, GoTo, heap, data, world, Actors, SignalsInv,
     TypeOK, ControlOK, HeapOK, CheckIsUndisturbed, NoOthers, MainPlaces,
     Building, InCheck, Leaving, ReadsArg
<1>6. CASE TestHangUp
  BY <1>6 DEF TestHangUp, At, GoTo, heap, data, flags, world, Actors,
     SignalsInv, TypeOK, ControlOK, HeapOK, CheckIsUndisturbed, NoOthers,
     Handling, MainPlaces, Building, InCheck, Leaving, ReadsArg
<1>7. CASE Sleep
  BY <1>7 DEF Sleep, At, GoTo, heap, data, flags, world, Actors, SignalsInv,
     TypeOK, ControlOK, HeapOK, CheckIsUndisturbed, NoOthers, MainPlaces,
     Building, InCheck, Leaving, ReadsArg
<1>8. CASE WakeUp
  BY <1>8 DEF WakeUp, At, GoTo, heap, data, flags, world, Actors, SignalsInv,
     TypeOK, ControlOK, HeapOK, CheckIsUndisturbed, NoOthers, MainPlaces,
     Building, InCheck, Leaving, ReadsArg
<1>9. CASE CallShutdown
  BY <1>9 DEF CallShutdown, At, GoTo, Pass, heap, data, flags, world, Actors,
     SignalsInv, TypeOK, ControlOK, HeapOK, CheckIsUndisturbed, NoOthers,
     MainPlaces, Building, InCheck, Leaving
<1>10. CASE SaveLast
  BY <1>10 DEF SaveLast, At, GoTo, heap, data, flags, world, Actors,
     SignalsInv, TypeOK, ControlOK, HeapOK, CheckIsUndisturbed, NoOthers,
     MainPlaces, Building, InCheck, Leaving, ReadsArg
<1>11. CASE FreeLast
  <2>1. TypeOK' /\ ControlOK'
    BY <1>11 DEF FreeLast, At, GoTo, data, flags, world, Actors, SignalsInv,
       TypeOK, ControlOK, MainPlaces, InCheck, Leaving
  <2>2. HeapOK'
    BY <1>11 DEF FreeLast, At, GoTo, Actors, SignalsInv, TypeOK, HeapOK,
       CheckIsUndisturbed, Building, ReadsArg
  <2>3. NoOthers'
    BY <1>11 DEF FreeLast, At, Sound, GoTo, data, flags, world, Actors,
       SignalsInv, TypeOK, ControlOK, HeapOK, CheckIsUndisturbed, NoOthers,
       Handling, MainPlaces, Building, InCheck, Leaving, ReadsCurrent,
       ReadsArg
  <2> QED
    BY <2>1, <2>2, <2>3 DEF SignalsInv
<1>12. CASE Exit
  BY <1>12 DEF Exit, At, GoTo, heap, data, flags, world, Actors, SignalsInv,
     TypeOK, ControlOK, HeapOK, CheckIsUndisturbed, NoOthers, Handling,
     MainPlaces, Building, InCheck, Leaving, ReadsArg
<1> QED
  BY <1>1, <1>2, <1>3, <1>4, <1>5, <1>6, <1>7, <1>8, <1>9, <1>10, <1>11, <1>12
     DEF MainStep

\* and signals and edits at any time,
LEMMA WorldSignals ==
    ASSUME SignalsInv, HangUp \/ Terminate \/ EditConfig
    PROVE  SignalsInv'
<1>1. CASE HangUp
  <2>1. TypeOK'
    <3>1. /\ pc' \in [Actors -> Handling \cup MainPlaces \cup {"idle"}]
          /\ pc'["main"] # "idle" /\ pc'["handler"] \notin MainPlaces
      <4>1. CASE pc' = pc
        BY <4>1 DEF SignalsInv, TypeOK
      <4>2. CASE pc' = [b \in Actors |->
                          IF b = "handler" THEN "hup"
                          ELSE IF pc[b] = "sleep" THEN "test" ELSE pc[b]]
        <5>1. \A b \in Actors :
                 pc'[b] \in Handling \cup MainPlaces \cup {"idle"}
          BY <4>2 DEF SignalsInv, TypeOK, Handling, MainPlaces
        <5>2. pc'["main"] # "idle" /\ pc'["handler"] = "hup"
          BY <4>2 DEF SignalsInv, TypeOK, Actors
        <5> QED
          BY <4>2, <5>1, <5>2 DEF MainPlaces
      <4> QED
        BY <1>1, <4>1, <4>2 DEF HangUp
    <3>2. pending' \in BOOLEAN
      BY <1>1 DEF HangUp, SignalsInv, TypeOK
    <3>3. asked' \in Nat /\ hangups' \in Nat /\ config' \in Nat
      BY <1>1 DEF HangUp, SignalsInv, TypeOK
    <3> QED
      BY <1>1, <3>1, <3>2, <3>3
         DEF HangUp, SignalsInv, TypeOK, heap, data, flags
  <2>2. ControlOK'
    BY <1>1 DEF HangUp, Alive, flags, Actors, SignalsInv, ControlOK, InCheck,
       Leaving
  <2>3. HeapOK' /\ NoOthers'
    BY <1>1 DEF HangUp, Alive, heap, data, flags, Actors, SignalsInv, TypeOK,
       ControlOK, HeapOK, CheckIsUndisturbed, NoOthers, Handling, MainPlaces,
       Building, InCheck, Leaving, ReadsArg
  <2> QED
    BY <2>1, <2>2, <2>3 DEF SignalsInv
<1>2. CASE Terminate
  BY <1>2 DEF Terminate, GoTo, heap, data, world, Actors, SignalsInv, TypeOK,
     ControlOK, HeapOK, CheckIsUndisturbed, NoOthers, MainPlaces, Building,
     InCheck, Leaving, ReadsArg
<1>3. CASE EditConfig
  BY <1>3 DEF EditConfig, Alive, heap, data, flags, Actors, SignalsInv,
     TypeOK, ControlOK, HeapOK, CheckIsUndisturbed, NoOthers, Handling,
     MainPlaces, Building, InCheck, Leaving, ReadsArg
<1> QED
  BY <1>1, <1>2, <1>3

\* and a step through a freed session, after which nothing is promised.
LEMMA MisuseSignals ==
    ASSUME SignalsInv, NEW a \in Actors, Misuse(a)
    PROVE  SignalsInv'
BY DEF Misuse, At, Sound, heap, data, flags, world, Actors, SignalsInv,
   TypeOK, ControlOK, HeapOK, CheckIsUndisturbed, NoOthers, Handling,
   MainPlaces, Building, InCheck, Leaving, ReadsCurrent, ReadsArg

\* SignalsInv is inductive, whatever Quiet is.
LEMMA NextSignals == SignalsInv /\ [Next]_vars => SignalsInv'
<1> SUFFICES ASSUME SignalsInv, [Next]_vars
             PROVE  SignalsInv'
  OBVIOUS
<1>1. CASE \E a \in Actors : HandlerStep(a)
  BY <1>1, HandlerSignals
<1>2. CASE \E a \in Actors : Misuse(a)
  BY <1>2, MisuseSignals
<1>3. CASE MainStep
  BY <1>3, MainSignals
<1>4. CASE HangUp \/ Terminate \/ EditConfig
  BY <1>4, WorldSignals
<1>5. CASE UNCHANGED vars
  BY <1>5 DEF vars, heap, data, flags, world, SignalsInv, TypeOK, ControlOK,
     HeapOK, CheckIsUndisturbed, NoOthers
<1> QED
  BY <1>1, <1>2, <1>3, <1>4, <1>5 DEF Next, Ended

\* It is an invariant.
THEOREM SignalsInvariant == Spec => []SignalsInv
<1> QED
  BY InitSignals, NextSignals, PTL DEF Spec

\* The session that processFeed works on stays the one in use until the check
\* has ended, whenever SIGHUP arrives: isRunning does what it is for.
THEOREM ChecksAreUndisturbed == Spec => []CheckIsUndisturbed
<1>1. SignalsInv => CheckIsUndisturbed
  BY DEF SignalsInv, HeapOK
<1> QED
  BY <1>1, SignalsInvariant, PTL

\* However many reloads interrupt one another or are rejected, setupSession and
\* signal_handler leave no session behind that nothing refers to.
THEOREM SessionsDoNotLeak == Spec => []NoSessionLeaks
<1>1. SignalsInv => NoSessionLeaks
  BY DEF SignalsInv, HeapOK, NoOthers, TypeOK, NoSessionLeaks, Building, Actors
<1> QED
  BY <1>1, SignalsInvariant, PTL

-----------------------------------------------------------------------------
(***************************************************************************)
(* No signal in a window.                                                  *)
(***************************************************************************)

\* At the start nothing was asked for and the history was read once.
LEMMA InitQuiet == Init => QuietInv
BY InitSignals DEF Init, Actors, QuietInv, SessionsAreAlive, QuietOK, LoadsOK,
   HistoryReadOnce, RequestsOK, Known, Building, Built, Loading, InCheck

\* The steps of the handler preserve QuietInv,
LEMMA HandlerQuiet ==
    ASSUME QuietInv, SignalsInv', NEW a \in Actors, HandlerStep(a)
    PROVE  QuietInv'
<1>1. CASE NoteHangUp(a)
  BY <1>1 DEF NoteHangUp, Return, Actors, GoTo, heap, data, world, QuietInv,
     SignalsInv, TypeOK, ControlOK, SessionsAreAlive, QuietOK, LoadsOK,
     HistoryReadOnce, RequestsOK, Handling, Building, Built, Loading, InCheck,
     Leaving
<1>2. CASE BeginReload(a)
  BY <1>2 DEF BeginReload, At, GoTo, heap, data, world, Actors, QuietInv,
     SessionsAreAlive, QuietOK, LoadsOK, HistoryReadOnce, RequestsOK,
     Handling, Building, Built, Loading, InCheck, ReadsArg
<1>3. CASE SessionInit(a)
  BY <1>3 DEF SessionInit, At, GoTo, data, world, Actors, QuietInv,
     SignalsInv, TypeOK, SessionsAreAlive, QuietOK, LoadsOK, HistoryReadOnce,
     RequestsOK, Handling, Built, Loading, InCheck, ReadsArg
<1>4. CASE ParseConfig(a)
  BY <1>4 DEF ParseConfig, At, GoTo, heap, world, Actors, QuietInv,
     SignalsInv, TypeOK, SessionsAreAlive, QuietOK, LoadsOK, HistoryReadOnce,
     RequestsOK, Handling, Building, Built, Loading, InCheck, ReadsArg
<1>5. CASE ParseFails(a)
  BY <1>5 DEF ParseFails, At, GoTo, heap, data, Actors, QuietInv, SignalsInv,
     TypeOK, SessionsAreAlive, QuietOK, LoadsOK, HistoryReadOnce, RequestsOK,
     Known, Building, Built, Loading, InCheck, ReadsArg
<1>6. CASE DropSession(a)
  BY <1>6 DEF DropSession, At, GoTo, data, world, Actors, QuietInv,
     SessionsAreAlive, QuietOK, LoadsOK, HistoryReadOnce, RequestsOK, Known,
     Handling, Building, Built, Loading, InCheck, ReadsArg
<1>7. CASE CopySettings(a)
  BY <1>7 DEF CopySettings, At, GoTo, Pass, heap, data, world, Actors,
     QuietInv, SignalsInv, TypeOK, SessionsAreAlive, QuietOK, LoadsOK,
     HistoryReadOnce, RequestsOK, Handling, Building, Built, Loading, InCheck
<1>8. CASE SaveOld(a)
  BY <1>8 DEF SaveOld, At, GoTo, Pass, heap, data, world, Actors, QuietInv,
     SessionsAreAlive, QuietOK, LoadsOK, HistoryReadOnce, RequestsOK,
     Handling, Building, Built, Loading, InCheck, ReadsArg
<1>9. CASE FreeOld(a)
  BY <1>9 DEF FreeOld, At, GoTo, data, world, QuietInv, SignalsInv, TypeOK,
     HeapOK, SessionsAreAlive, QuietOK, LoadsOK, HistoryReadOnce, RequestsOK,
     Known, Building, Built, Loading, InCheck
<1>10. CASE Install(a)
  BY <1>10 DEF Install, At, GoTo, heap, data, world, QuietInv, SignalsInv,
     ControlOK, HeapOK, SessionsAreAlive, QuietOK, LoadsOK, HistoryReadOnce,
     RequestsOK, Known, Handling, Building, Built, Loading, InCheck, Leaving,
     ReadsArg, Windows
<1>11. CASE VerifyKey(a)
  BY <1>11 DEF VerifyKey, At, GoTo, Pass, heap, data, world, Actors, QuietInv,
     SignalsInv, TypeOK, SessionsAreAlive, QuietOK, LoadsOK, HistoryReadOnce,
     RequestsOK, Known, MainPlaces, Building, Built, Loading, InCheck
<1>12. CASE CallLoadState(a)
  BY <1>12 DEF CallLoadState, At, GoTo, Pass, heap, data, world, Actors,
     QuietInv, SessionsAreAlive, QuietOK, LoadsOK, HistoryReadOnce,
     RequestsOK, Known, Handling, Building, Built, Loading, InCheck, ReadsArg
<1>13. CASE LoadState(a)
  BY <1>13 DEF LoadState, At, GoTo, heap, world, Actors, QuietInv, SignalsInv,
     TypeOK, HeapOK, SessionsAreAlive, QuietOK, LoadsOK, HistoryReadOnce,
     RequestsOK, Known, MainPlaces, Building, Built, Loading, InCheck,
     ReadsArg, Windows
<1>14. CASE PrintSettings(a)
  BY <1>14 DEF PrintSettings, At, GoTo, Pass, heap, data, world, Actors,
     QuietInv, SignalsInv, TypeOK, SessionsAreAlive, QuietOK, LoadsOK,
     HistoryReadOnce, RequestsOK, Known, MainPlaces, Building, Built, Loading,
     InCheck
<1>15. CASE RPCVersion(a)
  BY <1>15 DEF RPCVersion, At, GoTo, heap, data, world, Actors, QuietInv,
     SessionsAreAlive, QuietOK, LoadsOK, HistoryReadOnce, RequestsOK, Known,
     Handling, Building, Built, Loading, InCheck, ReadsArg
<1>16. CASE ClearFlag(a)
  BY <1>16 DEF ClearFlag, Return, Actors, At, GoTo, heap, data, world,
     QuietInv, SignalsInv, TypeOK, ControlOK, HeapOK, CheckIsUndisturbed,
     SessionsAreAlive, QuietOK, LoadsOK, HistoryReadOnce, RequestsOK, Known,
     Handling, MainPlaces, Building, Built, Loading, InCheck, Leaving,
     ReadsArg, Windows
<1> QED
  BY <1>1, <1>2, <1>3, <1>4, <1>5, <1>6, <1>7, <1>8, <1>9, <1>10, <1>11,
      <1>12, <1>13, <1>14, <1>15, <1>16 DEF HandlerStep

\* and those of main,
LEMMA MainQuiet ==
    ASSUME QuietInv, SignalsInv', MainStep
    PROVE  QuietInv'
<1>1. CASE TestClosing
  BY <1>1 DEF TestClosing, At, GoTo, heap, data, world, QuietInv,
     SessionsAreAlive, QuietOK, LoadsOK, HistoryReadOnce, RequestsOK, Known,
     Building, Built, Loading, InCheck, ReadsArg
<1>2. CASE BeginCheck
  BY <1>2 DEF BeginCheck, At, GoTo, heap, data, world, QuietInv,
     SessionsAreAlive, QuietOK, LoadsOK, HistoryReadOnce, RequestsOK, Known,
     Building, Built, Loading, InCheck, ReadsArg
<1>3. CASE ProcessFeeds
  BY <1>3 DEF ProcessFeeds, At, GoTo, heap, data, flags, world, QuietInv,
     SignalsInv, HeapOK, CheckIsUndisturbed, SessionsAreAlive, QuietOK,
     LoadsOK, HistoryReadOnce, RequestsOK, Known, Handling, Building, Built,
     Loading, InCheck, ReadsArg
<1>4. CASE EndCheck
  BY <1>4 DEF EndCheck, At, GoTo, heap, data, flags, world, QuietInv,
     SessionsAreAlive, QuietOK, LoadsOK, HistoryReadOnce, RequestsOK, Known,
     Handling, Building, Built, Loading, InCheck, ReadsArg
<1>5. CASE StopRunning
  BY <1>5 DEF StopRunning, At, GoTo, heap, data, world, QuietInv,
     SessionsAreAlive, QuietOK, LoadsOK, HistoryReadOnce, RequestsOK, Known,
     Handling, Building, Built, Loading, InCheck, ReadsArg
<1>6. CASE TestHangUp
  BY <1>6 DEF TestHangUp, At, GoTo, heap, data, world, QuietInv, SignalsInv,
     TypeOK, SessionsAreAlive, QuietOK, LoadsOK, HistoryReadOnce, RequestsOK,
     Known, Building, Built, Loading, InCheck, ReadsArg
<1>7. CASE Sleep
  BY <1>7 DEF Sleep, At, GoTo, heap, data, world, QuietInv, SessionsAreAlive,
     QuietOK, LoadsOK, HistoryReadOnce, RequestsOK, Known, Building, Built,
     Loading, InCheck, ReadsArg
<1>8. CASE WakeUp
  BY <1>8 DEF WakeUp, At, GoTo, heap, data, world, QuietInv, SessionsAreAlive,
     QuietOK, LoadsOK, HistoryReadOnce, RequestsOK, Known, Building, Built,
     Loading, InCheck, ReadsArg
<1>9. CASE CallShutdown
  BY <1>9 DEF CallShutdown, At, GoTo, Pass, heap, data, world, QuietInv,
     SignalsInv, TypeOK, SessionsAreAlive, QuietOK, LoadsOK, HistoryReadOnce,
     RequestsOK, Handling, Building, Built, Loading, InCheck
<1>10. CASE SaveLast
  BY <1>10 DEF SaveLast, At, GoTo, heap, data, world, QuietInv,
     SessionsAreAlive, QuietOK, LoadsOK, HistoryReadOnce, RequestsOK,
     Handling, Building, Built, Loading, InCheck, ReadsArg
<1>11. CASE FreeLast
  BY <1>11 DEF FreeLast, At, GoTo, data, world, QuietInv, SessionsAreAlive,
     QuietOK, LoadsOK, HistoryReadOnce, RequestsOK, Handling, Building, Built,
     Loading, InCheck, ReadsArg
<1>12. CASE Exit
  BY <1>12 DEF Exit, At, GoTo, heap, data, flags, world, Actors, QuietInv,
     SignalsInv, TypeOK, ControlOK, HeapOK, CheckIsUndisturbed,
     SessionsAreAlive, QuietOK, LoadsOK, HistoryReadOnce, RequestsOK, Known,
     Handling, MainPlaces, Building, Built, Loading, InCheck, Leaving,
     ReadsArg, Windows
<1> QED
  BY <1>1, <1>2, <1>3, <1>4, <1>5, <1>6, <1>7, <1>8, <1>9, <1>10, <1>11, <1>12
     DEF MainStep

\* and signals outside the windows;
LEMMA WorldQuiet ==
    ASSUME Windows \subseteq Quiet, QuietInv, SignalsInv',
           HangUp \/ Terminate \/ EditConfig
    PROVE  QuietInv'
<1>1. CASE HangUp
  BY <1>1 DEF HangUp, heap, data, Actors, QuietInv, SignalsInv, TypeOK,
     SessionsAreAlive, QuietOK, LoadsOK, HistoryReadOnce, RequestsOK,
     Building, Built, Loading, InCheck, ReadsArg, Windows
<1>2. CASE Terminate
  BY <1>2 DEF Terminate, GoTo, heap, data, world, QuietInv, SessionsAreAlive,
     QuietOK, LoadsOK, HistoryReadOnce, RequestsOK, Known, Building, Built,
     Loading, InCheck, ReadsArg, Windows
<1>3. CASE EditConfig
  BY <1>3 DEF EditConfig, Alive, heap, data, flags, Actors, QuietInv,
     SignalsInv, TypeOK, ControlOK, HeapOK, CheckIsUndisturbed,
     SessionsAreAlive, QuietOK, LoadsOK, HistoryReadOnce, RequestsOK, Known,
     Handling, MainPlaces, Building, Built, Loading, InCheck, Leaving,
     ReadsArg, Windows
<1> QED
  BY <1>1, <1>2, <1>3

\* a step through a freed session is not possible.
LEMMA NoMisuse ==
    ASSUME QuietInv, NEW a \in Actors
    PROVE  ~Misuse(a)
BY DEF Misuse, At, Sound, heap, data, flags, world, Actors, QuietInv,
   SignalsInv, TypeOK, ControlOK, HeapOK, CheckIsUndisturbed,
   SessionsAreAlive, QuietOK, LoadsOK, HistoryReadOnce, RequestsOK, Known,
   Handling, MainPlaces, Building, Built, Loading, InCheck, Leaving,
   ReadsCurrent, ReadsArg, Windows

\* QuietInv is inductive if nobody sends SIGHUP in a window.
LEMMA NextQuiet ==
    ASSUME Windows \subseteq Quiet
    PROVE  QuietInv /\ [Next]_vars => QuietInv'
<1> SUFFICES ASSUME QuietInv, [Next]_vars
             PROVE  QuietInv'
  OBVIOUS
<1>0. SignalsInv'
  BY NextSignals DEF QuietInv
<1>1. CASE \E a \in Actors : HandlerStep(a)
  BY <1>0, <1>1, HandlerQuiet
<1>2. ~ \E a \in Actors : Misuse(a)
  BY NoMisuse
<1>3. CASE MainStep
  BY <1>0, <1>3, MainQuiet
<1>4. CASE HangUp \/ Terminate \/ EditConfig
  BY <1>0, <1>4, WorldQuiet
<1>5. CASE UNCHANGED vars
  BY <1>0, <1>5 DEF vars, heap, data, flags, world, QuietInv,
     SessionsAreAlive, QuietOK, LoadsOK, HistoryReadOnce, RequestsOK, Known
<1> QED
  BY <1>1, <1>2, <1>3, <1>4, <1>5 DEF Next, Ended

\* Then it is an invariant.
THEOREM QuietInvariant ==
    ASSUME Windows \subseteq Quiet
    PROVE  Spec => []QuietInv
<1> QED
  BY InitQuiet, NextQuiet, PTL DEF Spec

\* Outside the windows a SIGHUP, at any moment, never makes the program use or
\* free a session that session_free has had.
THEOREM SessionsStayAlive ==
    ASSUME Windows \subseteq Quiet
    PROVE  Spec => []SessionsAreAlive
<1>1. QuietInv => SessionsAreAlive
  BY DEF QuietInv
<1> QED
  BY <1>1, QuietInvariant, PTL

\* Nor does load_state read the history into the same session twice.
THEOREM HistoryIsReadOnce ==
    ASSUME Windows \subseteq Quiet
    PROVE  Spec => []HistoryReadOnce
<1>1. QuietInv => HistoryReadOnce
  BY DEF QuietInv, LoadsOK
<1> QED
  BY <1>1, QuietInvariant, PTL

\* And the daemon sleeps with no configuration older than the one it was sent
\* its last SIGHUP for.
THEOREM ReloadsAreHonoured ==
    ASSUME Windows \subseteq Quiet
    PROVE  Spec => []ReloadHonoured
<1>1. QuietInv => ReloadHonoured
  BY DEF QuietInv, RequestsOK, Known, ReloadHonoured
<1> QED
  BY <1>1, QuietInvariant, PTL
=============================================================================
