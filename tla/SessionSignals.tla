--------------------------- MODULE SessionSignals ---------------------------
(***************************************************************************)
(* The signal handlers of src/automatic.c and the lifetime of mySession,   *)
(* at the grain at which one can interrupt the other.                      *)
(*                                                                         *)
(* There is one thread.  SIGHUP interrupts it anywhere and runs            *)
(* signal_handler to its end; while it runs, SIGHUP is blocked and stays   *)
(* pending.  But main also calls signal_handler itself, after a check in   *)
(* which SIGHUP was caught, and nothing blocks SIGHUP then.  So there are  *)
(* two activations of the handler at most: the call by main and one that   *)
(* interrupts it.  They are the same steps, taken by two actors.           *)
(*                                                                         *)
(* A session is an address.  Each step that reads through one is here with *)
(* the time at which the address was taken: from mySession in that step,   *)
(* or earlier, as an argument of a call that goes on (to save_state,       *)
(* session_free, load_state, or one that waits for a network request).     *)
(***************************************************************************)
EXTENDS Naturals, FiniteSets

CONSTANTS
    Sessions,       \* the addresses session_init may return
    MaxHangUps,     \* bound: how many SIGHUPs are sent
    MaxConfig,      \* bound: how often automatic.conf is edited
    Quiet           \* where main is when nobody sends SIGHUP

VARIABLES
    pc,             \* pc["main"], and pc["handler"] of the interrupt
    mySession,
    new,            \* the session each activation of the handler builds
    arg,            \* the session that was passed to the call in progress
    allocated,      \* the sessions there have been
    freed,          \* those of them that are freed
    version,        \* the edit of automatic.conf a session was read from
    loads,          \* how often load_state has added to its history
    isRunning, closing, seenHUP,
    once,           \* main: -o or -x is given
    pending,        \* a SIGHUP waits for the handler to return
    config,         \* the last edit of automatic.conf
    asked,          \* the edit that was there when SIGHUP was last sent
    hangups         \* how many SIGHUPs were sent

heap == <<allocated, freed>>
data == <<version, loads>>
flags == <<isRunning, closing, seenHUP>>
world == <<config, asked, hangups>>
vars == <<pc, mySession, new, arg, heap, data, flags, once, pending, world>>

ASSUME SignalsAssumption ==
    /\ MaxHangUps \in Nat /\ MaxConfig \in Nat
    /\ IsFiniteSet(Sessions) /\ Cardinality(Sessions) > MaxHangUps

Actors == {"main", "handler"}

\* The places inside signal_handler and the functions it calls, in order.
Handling ==
    {"hup", "init", "parse", "drop", "copy", "save", "free", "install",
     "verify", "load", "append", "print", "ask", "clear"}

\* Where a session is read through mySession, and where through an argument.
ReadsCurrent == {"copy", "verify", "print", "interval"}
ReadsArg == {"save", "free", "load", "append", "ask",
             "check", "shutdown", "release"}

\* The places of main at which a second SIGHUP, or one too late, does harm.
Windows ==
    {"copy", "save", "free", "install", "verify", "load", "append", "ask",
     "shutdown", "release", "exit"}

Init ==
    /\ pc = [a \in Actors |-> IF a = "main" THEN "test" ELSE "idle"]
    /\ mySession \in Sessions
    /\ new = [a \in Actors |-> mySession]
    /\ arg = [a \in Actors |-> mySession]
    /\ allocated = {mySession}
    /\ freed = {}
    /\ version = [s \in Sessions |-> 0]
    /\ loads = [s \in Sessions |-> IF s = mySession THEN 1 ELSE 0]
    /\ isRunning = FALSE
    /\ closing = FALSE
    /\ seenHUP = FALSE
    /\ once \in BOOLEAN
    /\ pending = FALSE
    /\ config = 0
    /\ asked = 0
    /\ hangups = 0

\* The actor is at the place and runs: main only while nothing interrupts it.
At(a, place) ==
    /\ pc[a] = place
    /\ a = "main" => pc["handler"] = "idle"

\* The session the next step of the actor reads from or frees is there.
Sound(a) ==
    /\ pc[a] \in ReadsCurrent => mySession \notin freed
    /\ pc[a] \in ReadsArg => arg[a] \notin freed

GoTo(a, place) == pc' = [pc EXCEPT ![a] = place]
Pass(a, s) == arg' = [arg EXCEPT ![a] = s]

\* The step reads from, or frees, what is freed: anything may happen then.
Misuse(a) ==
    /\ pc["main"] # "corrupt"
    /\ At(a, pc[a]) /\ ~Sound(a)
    /\ pc' = [b \in Actors |-> IF b = "main" THEN "corrupt" ELSE "idle"]
    /\ UNCHANGED <<mySession, new, arg, heap, data, flags, once, pending,
                   world>>

-----------------------------------------------------------------------------
(***************************************************************************)
(* signal_handler(SIGHUP), called by main or by the signal.                *)
(***************************************************************************)
\* The handler returns, into the next signal if one is pending; main goes on
\* to its sleep.
Return(a) ==
    IF a = "main"
    THEN GoTo(a, "interval") /\ UNCHANGED pending
    ELSE /\ GoTo(a, IF pending THEN "hup" ELSE "idle")
         /\ pending' = FALSE

\* Seeded bug: during a check the signal is dropped.
DropHangUp(a) ==
    /\ At(a, "hup")
    /\ isRunning
    /\ Return(a)
    /\ UNCHANGED <<mySession, new, arg, heap, data, flags, once, world>>

\* During a check the signal is only noted.
NoteHangUp(a) ==
    /\ At(a, "hup")
    /\ isRunning
    /\ seenHUP' = TRUE
    /\ Return(a)
    /\ UNCHANGED <<mySession, new, arg, heap, data, isRunning, closing, once,
                   world>>

\* Seeded bug: the configuration is reloaded in a check too.
BeginReloadAnytime(a) ==
    /\ At(a, "hup")
    /\ GoTo(a, "init")
    /\ UNCHANGED <<mySession, new, arg, heap, data, flags, once, pending,
                   world>>

BeginReload(a) ==
    /\ At(a, "hup")
    /\ ~isRunning
    /\ GoTo(a, "init")
    /\ UNCHANGED <<mySession, new, arg, heap, data, flags, once, pending,
                   world>>

SessionInit(a) ==
    /\ At(a, "init")
    /\ \E s \in Sessions \ allocated :
          /\ new' = [new EXCEPT ![a] = s]
          /\ allocated' = allocated \cup {s}
    /\ GoTo(a, "parse")
    /\ UNCHANGED <<mySession, arg, freed, data, flags, once, pending, world>>

\* The configuration is read, and taken if it has feeds and filters.
ParseConfig(a) ==
    /\ At(a, "parse")
    /\ version' = [version EXCEPT ![new[a]] = config]
    /\ GoTo(a, "copy")
    /\ UNCHANGED <<mySession, new, arg, heap, loads, flags, once, pending,
                   world>>

\* It cannot be used: all requests so far are answered, with a no.
ParseFails(a) ==
    /\ At(a, "parse")
    /\ asked' = 0
    /\ GoTo(a, "drop")
    /\ UNCHANGED <<mySession, new, arg, heap, data, flags, once, pending,
                   config, hangups>>

\* Seeded bug: the rejected session is not freed.
LoseSession(a) ==
    /\ At(a, "drop")
    /\ GoTo(a, "clear")
    /\ UNCHANGED <<mySession, new, arg, heap, data, flags, once, pending,
                   world>>

\* Seeded bug: setupSession finishes although the session is rejected.
DropSessionGoOn(a) ==
    /\ At(a, "drop")
    /\ freed' = freed \cup {new[a]}
    /\ GoTo(a, "verify")
    /\ UNCHANGED <<mySession, new, arg, allocated, data, flags, once, pending,
                   world>>

DropSession(a) ==
    /\ At(a, "drop")
    /\ freed' = freed \cup {new[a]}
    /\ GoTo(a, "clear")
    /\ UNCHANGED <<mySession, new, arg, allocated, data, flags, once, pending,
                   world>>

\* setupSession copies match_only and calls save_state for the old session,
CopySettings(a) ==
    /\ At(a, "copy") /\ Sound(a)
    /\ Pass(a, mySession)
    /\ GoTo(a, "save")
    /\ UNCHANGED <<mySession, new, heap, data, flags, once, pending, world>>

\* which writes its history; then session_free is called for it,
SaveOld(a) ==
    /\ At(a, "save") /\ Sound(a)
    /\ Pass(a, mySession)
    /\ GoTo(a, "free")
    /\ UNCHANGED <<mySession, new, heap, data, flags, once, pending, world>>

FreeOld(a) ==
    /\ At(a, "free") /\ Sound(a)
    /\ freed' = freed \cup {arg[a]}
    /\ GoTo(a, "install")
    /\ UNCHANGED <<mySession, new, arg, allocated, data, flags, once, pending,
                   world>>

\* and the new one takes its place.
Install(a) ==
    /\ At(a, "install")
    /\ mySession' = new[a]
    /\ GoTo(a, "verify")
    /\ UNCHANGED <<new, arg, heap, data, flags, once, pending, world>>

\* verifyProwlAPIKey sends a request with a string of the session.
VerifyKey(a) ==
    /\ At(a, "verify") /\ Sound(a)
    /\ Pass(a, mySession)
    /\ GoTo(a, "load")
    /\ UNCHANGED <<mySession, new, heap, data, flags, once, pending, world>>

\* The request is answered; load_state is called.
CallLoadState(a) ==
    /\ At(a, "load") /\ Sound(a)
    /\ Pass(a, mySession)
    /\ GoTo(a, "append")
    /\ UNCHANGED <<mySession, new, heap, data, flags, once, pending, world>>

\* load_state appends what the file holds to the history it was given, or
\* nothing if it cannot open it.
LoadState(a) ==
    /\ At(a, "append") /\ Sound(a)
    /\ \E n \in {0, 1} : loads' = [loads EXCEPT ![arg[a]] = @ + n]
    /\ GoTo(a, "print")
    /\ UNCHANGED <<mySession, new, arg, heap, version, flags, once, pending,
                   world>>

\* printSessionSettings asks Transmission for its version, again with strings
\* of the session.
PrintSettings(a) ==
    /\ At(a, "print") /\ Sound(a)
    /\ Pass(a, mySession)
    /\ GoTo(a, "ask")
    /\ UNCHANGED <<mySession, new, heap, data, flags, once, pending, world>>

RPCVersion(a) ==
    /\ At(a, "ask") /\ Sound(a)
    /\ GoTo(a, "clear")
    /\ UNCHANGED <<mySession, new, arg, heap, data, flags, once, pending,
                   world>>

ClearFlag(a) ==
    /\ At(a, "clear")
    /\ seenHUP' = FALSE
    /\ Return(a)
    /\ UNCHANGED <<mySession, new, arg, heap, data, isRunning, closing, once,
                   world>>

-----------------------------------------------------------------------------
(***************************************************************************)
(* The loop of main, and shutdown_daemon.                                  *)
(***************************************************************************)
TestClosing ==
    /\ At("main", "test")
    /\ GoTo("main", IF closing THEN "leave" ELSE "begin")
    /\ UNCHANGED <<mySession, new, arg, heap, data, flags, once, pending,
                   world>>

\* Seeded bug: isRunning is not set.
BeginCheckUnmarked ==
    /\ At("main", "begin")
    /\ GoTo("main", "feeds")
    /\ UNCHANGED <<mySession, new, arg, heap, data, flags, once, pending,
                   world>>

BeginCheck ==
    /\ At("main", "begin")
    /\ isRunning' = TRUE
    /\ GoTo("main", "feeds")
    /\ UNCHANGED <<mySession, new, arg, heap, data, closing, seenHUP, once,
                   pending, world>>

\* The feeds of the session are processed, with mySession as an argument.
ProcessFeeds ==
    /\ At("main", "feeds")
    /\ Pass("main", mySession)
    /\ GoTo("main", "check")
    /\ UNCHANGED <<mySession, new, heap, data, flags, once, pending, world>>

EndCheck ==
    /\ At("main", "check") /\ Sound("main")
    /\ GoTo("main", IF once THEN "leave" ELSE "checked")
    /\ UNCHANGED <<mySession, new, arg, heap, data, flags, once, pending,
                   world>>

StopRunning ==
    /\ At("main", "checked")
    /\ isRunning' = FALSE
    /\ GoTo("main", "noted")
    /\ UNCHANGED <<mySession, new, arg, heap, data, closing, seenHUP, once,
                   pending, world>>

\* Seeded bug: what was noted in the check is forgotten.
ForgetHangUp ==
    /\ At("main", "noted")
    /\ GoTo("main", "interval")
    /\ UNCHANGED <<mySession, new, arg, heap, data, flags, once, pending,
                   world>>

TestHangUp ==
    /\ At("main", "noted")
    /\ GoTo("main", IF seenHUP THEN "hup" ELSE "interval")
    /\ UNCHANGED <<mySession, new, arg, heap, data, flags, once, pending,
                   world>>

Sleep ==
    /\ At("main", "interval") /\ Sound("main")
    /\ GoTo("main", "sleep")
    /\ UNCHANGED <<mySession, new, arg, heap, data, flags, once, pending,
                   world>>

WakeUp ==
    /\ At("main", "sleep")
    /\ GoTo("main", "test")
    /\ UNCHANGED <<mySession, new, arg, heap, data, flags, once, pending,
                   world>>

CallShutdown ==
    /\ At("main", "leave")
    /\ Pass("main", mySession)
    /\ GoTo("main", "shutdown")
    /\ UNCHANGED <<mySession, new, heap, data, flags, once, pending, world>>

SaveLast ==
    /\ At("main", "shutdown") /\ Sound("main")
    /\ GoTo("main", "release")
    /\ UNCHANGED <<mySession, new, arg, heap, data, flags, once, pending,
                   world>>

FreeLast ==
    /\ At("main", "release") /\ Sound("main")
    /\ freed' = freed \cup {arg["main"]}
    /\ GoTo("main", "exit")
    /\ UNCHANGED <<mySession, new, arg, allocated, data, flags, once, pending,
                   world>>

Exit ==
    /\ At("main", "exit")
    /\ GoTo("main", "gone")
    /\ UNCHANGED <<mySession, new, arg, heap, data, flags, once, pending,
                   world>>

-----------------------------------------------------------------------------
(***************************************************************************)
(* Signals and edits.                                                      *)
(***************************************************************************)
Alive == pc["main"] \notin {"gone", "corrupt"}

\* SIGHUP ends a sleep.  Caught in its own handler it stays pending, once.
HangUp ==
    /\ Alive
    /\ pc["main"] \notin Quiet
    /\ hangups < MaxHangUps
    /\ hangups' = hangups + 1
    /\ asked' = config
    /\ IF pc["handler"] = "idle"
       THEN /\ pc' = [a \in Actors |->
                        IF a = "handler" THEN "hup"
                        ELSE IF pc[a] = "sleep" THEN "test" ELSE pc[a]]
            /\ UNCHANGED pending
       ELSE pending' = TRUE /\ UNCHANGED pc
    /\ UNCHANGED <<mySession, new, arg, heap, data, flags, once, config>>

\* SIGTERM may also interrupt the handler of SIGHUP.
Terminate ==
    /\ Alive
    /\ ~closing
    /\ closing' = TRUE
    /\ GoTo("main", IF pc["main"] = "sleep" THEN "test" ELSE pc["main"])
    /\ UNCHANGED <<mySession, new, arg, heap, data, isRunning, seenHUP, once,
                   pending, world>>

EditConfig ==
    /\ Alive
    /\ config < MaxConfig
    /\ config' = config + 1
    /\ UNCHANGED <<pc, mySession, new, arg, heap, data, flags, once, pending,
                   asked, hangups>>

\* The process has ended.
Ended == ~Alive /\ UNCHANGED vars

HandlerStep(a) ==
    \/ NoteHangUp(a) \/ BeginReload(a) \/ SessionInit(a)
    \/ ParseConfig(a) \/ ParseFails(a) \/ DropSession(a)
    \/ CopySettings(a) \/ SaveOld(a) \/ FreeOld(a) \/ Install(a)
    \/ VerifyKey(a) \/ CallLoadState(a) \/ LoadState(a)
    \/ PrintSettings(a) \/ RPCVersion(a) \/ ClearFlag(a)

MainStep ==
    \/ TestClosing \/ BeginCheck \/ ProcessFeeds \/ EndCheck \/ StopRunning
    \/ TestHangUp \/ Sleep \/ WakeUp
    \/ CallShutdown \/ SaveLast \/ FreeLast \/ Exit

Next ==
    \/ \E a \in Actors : HandlerStep(a) \/ Misuse(a)
    \/ MainStep
    \/ HangUp \/ Terminate \/ EditConfig \/ Ended

Spec == Init /\ [][Next]_vars

\* The thread goes on, whichever of the two activations it is in.
FairSpec ==
    Spec /\ WF_vars(MainStep) /\ WF_vars(\E a \in Actors : HandlerStep(a))

-----------------------------------------------------------------------------
(***************************************************************************)
(* Properties.                                                             *)
(***************************************************************************)
\* The type of every variable.
MainPlaces ==
    {"test", "begin", "feeds", "check", "checked", "noted", "interval",
     "sleep", "leave", "shutdown", "release", "exit", "gone", "corrupt"}

TypeOK ==
    /\ pc \in [Actors -> Handling \cup MainPlaces \cup {"idle"}]
    /\ pc["main"] # "idle"
    /\ pc["handler"] \notin MainPlaces
    /\ mySession \in Sessions
    /\ new \in [Actors -> Sessions]
    /\ arg \in [Actors -> Sessions]
    /\ allocated \subseteq Sessions
    /\ freed \subseteq Sessions
    /\ version \in [Sessions -> Nat]
    /\ loads \in [Sessions -> Nat]
    /\ isRunning \in BOOLEAN /\ closing \in BOOLEAN /\ seenHUP \in BOOLEAN
    /\ once \in BOOLEAN /\ pending \in BOOLEAN
    /\ config \in Nat /\ asked \in Nat /\ hangups \in Nat

\* No session is read from after it was freed, and none is freed twice.
SessionsAreAlive == pc["main"] # "corrupt"

\* load_state appends to the history it is given, so it must get a session
\* once, or every entry of the history is there twice.
HistoryReadOnce == \A s \in Sessions : loads[s] <= 1

\* No reload leaves a session behind that nothing refers to, also when a second
\* one interrupts it or its configuration is rejected.
NoSessionLeaks ==
    pc["main"] \in {"test", "check", "sleep"} /\ pc["handler"] = "idle" =>
        allocated \ freed = {mySession}

\* The session that a check works on is not replaced or freed under it.
CheckIsUndisturbed ==
    pc["main"] = "check" => arg["main"] = mySession /\ mySession \notin freed

\* After a SIGHUP the daemon does not go to sleep, or go on sleeping, with a
\* configuration older than the one that was there when the signal was sent
\* (unless that one was rejected).
ReloadHonoured ==
    pc["main"] = "sleep" /\ pc["handler"] = "idle" =>
        version[mySession] >= asked

\* It gets to know the configuration it was sent the signal for, or ends.
HangUpIsAnswered ==
    asked > version[mySession] ~> asked <= version[mySession] \/ ~Alive

-----------------------------------------------------------------------------
(***************************************************************************)
(* Why they hold: what is true of any signals, and what if none arrives in *)
(* a window.                                                               *)
(***************************************************************************)
Building == {"parse", "drop", "copy", "save", "free", "install"}
Built    == {"copy", "save", "free", "install"}
Loading  == {"verify", "load", "append"}
InCheck  == {"feeds", "check", "checked"}
Leaving  == {"leave", "shutdown", "release", "exit", "gone"}

\* isRunning is set in a check, and after it only on the way out.
ControlOK ==
    /\ pc["main"] \in InCheck =>
          isRunning /\ pc["handler"] \in {"idle", "hup"}
    /\ isRunning => pc["main"] \in InCheck \cup Leaving \cup {"corrupt"}
    /\ pc["main"] \in {"gone", "corrupt"} => pc["handler"] = "idle"
    /\ pc["handler"] = "idle" => ~pending \/ pc["main"] = "corrupt"

\* The session in use is freed only between session_free and the next line, or
\* at the very end; a session that is being built is nobody else's.
HeapOK ==
    /\ mySession \in allocated /\ freed \subseteq allocated
    /\ mySession \in freed =>
          \/ pc["main"] \in {"install", "exit", "gone", "corrupt"}
          \/ pc["handler"] = "install"
    /\ \A a \in Actors : pc[a] \in Building =>
          new[a] \in allocated \ freed /\ new[a] # mySession
    /\ pc["main"] \in Building /\ pc["handler"] \in Building =>
          new["main"] # new["handler"]
    /\ \A a \in Actors : pc[a] = "install" => mySession \in freed
    /\ pc["main"] = "install" =>
          pc["handler"] \notin {"save", "free", "install"}
    /\ pc["handler"] \in ReadsArg => arg["handler"] = mySession
    /\ pc["main"] \in ReadsArg =>
          arg["main"] = mySession \/ arg["main"] \in freed
    /\ CheckIsUndisturbed

\* Nothing else is there.
NoOthers ==
    pc["main"] # "corrupt" =>
        \A s \in allocated \ freed :
            s = mySession \/ \E a \in Actors : pc[a] \in Building /\ new[a] = s

SignalsInv == TypeOK /\ ControlOK /\ HeapOK /\ NoOthers

\* No SIGHUP, no interrupt: what main has passed on is still in use.
QuietOK ==
    /\ pc["main"] \in Windows => pc["handler"] = "idle"
    /\ pc["main"] \in ReadsArg => arg["main"] = mySession

\* A session that has not got its history yet has none.
LoadsOK ==
    /\ HistoryReadOnce
    /\ \A s \in Sessions \ allocated : loads[s] = 0
    /\ \A a \in Actors :
          /\ pc[a] \in Building => loads[new[a]] = 0
          /\ pc[a] \in Loading => loads[mySession] = 0

\* What was asked for is known, or about to be: the handler is running or will
\* run again, or main will ask for it at the end of its check.
Known == version[mySession] >= asked

RequestsOK ==
    /\ asked <= config
    /\ pc["handler"] \in Built => version[new["handler"]] >= asked \/ pending
    /\ pc["handler"] \in Handling \ (Built \cup {"hup", "init", "parse"}) =>
          Known \/ pending
    /\ pc["handler"] = "idle" =>
          /\ pc["main"] \in Built => version[new["main"]] >= asked
          /\ pc["main"] \in Handling \ (Built \cup {"hup", "init", "parse"})
                \/ pc["main"] \in {"test", "begin", "interval", "sleep"} =>
                Known
          /\ pc["main"] \in InCheck \cup {"noted"} => Known \/ seenHUP

QuietInv ==
    SignalsInv /\ SessionsAreAlive /\ QuietOK /\ LoadsOK /\ RequestsOK
=============================================================================
