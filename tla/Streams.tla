------------------------------- MODULE Streams -------------------------------
(***************************************************************************)
(* The live streams: an administrator starts and stops the stream of a     *)
(* destination, and streamRunner keeps it running: a start that fails and  *)
(* an ffmpeg that exits are tried again after a delay, up to a limit, and  *)
(* a watchdog starts what should run and does not.                         *)
(*                                                                         *)
(* A pipeline is an Xvfb on the destination's display and, once it has     *)
(* booted, a browser and an ffmpeg.  The map `active` names the pipeline   *)
(* that a stop will end.  A row is read by each handler for itself, and    *)
(* may change before the handler acts.                                     *)
(*                                                                         *)
(* One destination: each has a row, a display and entries of its own.  The *)
(* status columns are left out: no handler decides by them.  A restart of  *)
(* the server ends the pipelines, which are its children.                  *)
(***************************************************************************)
EXTENDS Integers, FiniteSets

CONSTANTS
  Pipelines,     \* pipelines at a time
  NoPipeline,
  StopCalls,     \* requests to stop or delete in progress
  MaxAttempts,   \* MAX_AUTO_RESTART_ATTEMPTS
  MaxRetries     \* bound on the handlers of a failure in progress

ASSUME PipelineAssumption == NoPipeline \notin Pipelines
ASSUME AttemptAssumption == MaxAttempts \in Nat \ {0} /\ MaxRetries \in Nat \ {0}

VARIABLES
  destination,  \* the row: enabled, desiredRunning; all FALSE once deleted
  active,       \* the entry in the map active
  starting,     \* the call that is in the set starting
  timer,        \* the entry in pendingRestartTimers: its attempt
  called,       \* a start is about to be called, by the administrator or at boot
  retries,      \* handlers of a failure in progress
  stop,         \* requests to stop or delete
  xvfb,         \* pipelines whose Xvfb holds the display
  ffmpeg,       \* pipelines whose ffmpeg runs
  parent,       \* the attempt after the one that started each pipeline
  interrupted,  \* history: pipelines whose ffmpeg was told to end
  halted,       \* history: the last request was a stop, and it met no start
  mishaps       \* history: what upset the map active or the display, see Exit and Boot

notes == <<halted, mishaps>>
processes == <<xvfb, ffmpeg, parent, interrupted>>
sVars == <<destination, active, starting, timer, called, retries, stop, processes, notes>>

Never == -1
IdleStart == [pc |-> "idle", next |-> 0, pipeline |-> NoPipeline]
IdleStop == [pc |-> "idle", delete |-> FALSE, pipeline |-> NoPipeline]

SInit ==
  /\ destination = [enabled |-> TRUE, desired |-> FALSE, exists |-> TRUE]
  /\ active = NoPipeline
  /\ starting = IdleStart
  /\ timer = Never
  /\ called = FALSE /\ retries = {}
  /\ stop = [s \in StopCalls |-> IdleStop]
  /\ xvfb = {} /\ ffmpeg = {} /\ interrupted = {}
  /\ parent = [p \in Pipelines |-> 0]
  /\ halted = FALSE /\ mishaps = {}

Desired == destination.exists /\ destination.desired
Wanted == Desired /\ destination.enabled

\* updateRow of a row that is gone only logs.
GiveUp == destination' = [destination EXCEPT !.desired = FALSE]

-----------------------------------------------------------------------------
(* The administrator                                                       *)

postStart ==
  /\ destination.exists /\ destination.enabled
  /\ destination' = [destination EXCEPT !.desired = TRUE]
  /\ called' = TRUE
  /\ halted' = FALSE
  /\ UNCHANGED <<active, starting, timer, retries, stop, processes, mishaps>>

\* adminPatchStreamDestination: nothing is started or stopped.
Enable ==
  /\ destination.exists
  /\ destination' = [destination EXCEPT !.enabled = ~@]
  /\ UNCHANGED <<active, starting, timer, called, retries, stop, processes, notes>>

BeginStop(s, delete) ==
  /\ stop[s].pc = "idle" /\ destination.exists
  /\ destination' = IF delete THEN destination ELSE [destination EXCEPT !.desired = FALSE]
  /\ stop' = [stop EXCEPT ![s] = [pc |-> "stop", delete |-> delete, pipeline |-> NoPipeline]]
  /\ UNCHANGED <<active, starting, timer, called, retries, processes, notes>>

\* mutant: the entry is dropped and the pipeline is left alone
Spared(p) == {}

Interrupt(p) == {p} \cap Pipelines

\* stopStreamForDestination, up to the first await.
Stop(s) ==
  /\ stop[s].pc = "stop"
  /\ timer' = Never
  /\ active' = NoPipeline
  /\ interrupted' = interrupted \cup (Interrupt(active) \cap ffmpeg)
  /\ stop' = [stop EXCEPT ![s].pc = "close", ![s].pipeline = active]
  /\ halted' = (~Desired /\ starting.pc = "idle")
  /\ mishaps' = mishaps \ {"unnoticed"}
  /\ UNCHANGED <<destination, starting, called, retries, xvfb, ffmpeg, parent>>

\* The Xvfb is killed some 400 ms after the ffmpeg was told to end; then
\* deleteDestination deletes the row.
Close(s) ==
  /\ stop[s].pc = "close"
  /\ xvfb' = xvfb \ Interrupt(stop[s].pipeline)
  /\ destination' = IF stop[s].delete THEN [exists |-> FALSE, enabled |-> FALSE, desired |-> FALSE]
                                      ELSE destination
  /\ stop' = [stop EXCEPT ![s] = IdleStop]
  /\ UNCHANGED <<active, starting, timer, called, retries, ffmpeg, parent, interrupted, notes>>

-----------------------------------------------------------------------------
(* startStreamForDestination                                               *)

\* Whoever calls while the stream is active or starting is told so.
Start(next) ==
  starting' = IF active = NoPipeline /\ starting.pc = "idle"
                THEN [pc |-> "read", next |-> next, pipeline |-> NoPipeline]
                ELSE starting

\* The administrator's start, and resumeDesiredStreamsAfterBoot.
Call ==
  /\ called
  /\ called' = FALSE
  /\ Start(0)
  /\ UNCHANGED <<destination, active, timer, retries, stop, processes, notes>>

\* runDesiredStreamWatchdogOnce
Watchdog ==
  /\ Wanted
  /\ active = NoPipeline /\ starting.pc = "idle" /\ timer = Never
  /\ Start(0)
  /\ UNCHANGED <<destination, active, timer, called, retries, stop, processes, notes>>

RestartTimer ==
  /\ timer # Never
  /\ timer' = Never
  /\ Start(timer + 1)
  /\ UNCHANGED <<destination, active, called, retries, stop, processes, notes>>

\* mutant: the row is looked for, and not at what it says
Found == destination.exists

MayStart == Wanted

\* The capture environment is not in order.
CheckEnvironment ==
  /\ starting.pc = "read"
  /\ starting' = [starting EXCEPT !.pc = IF Wanted THEN "retry" ELSE "give up"]
  /\ UNCHANGED <<destination, active, timer, called, retries, stop, processes, notes>>

ReadDestination ==
  /\ starting.pc = "read"
  /\ \/ ~MayStart /\ starting' = IdleStart /\ UNCHANGED timer
     \/ MayStart /\ starting' = [starting EXCEPT !.pc = "give up"] /\ UNCHANGED timer  \* no key
     \/ MayStart /\ starting' = [starting EXCEPT !.pc = "launch"] /\ timer' = Never
  /\ UNCHANGED <<destination, active, called, retries, stop, processes, notes>>

\* startLiveRtmpPipeline.  An Xvfb does not start on a display that is taken.
Launch ==
  /\ starting.pc = "launch"
  /\ IF xvfb # {}
       THEN starting' = [starting EXCEPT !.pc = "failed"] /\ UNCHANGED <<xvfb, parent>>
       ELSE \E p \in Pipelines \ ffmpeg :
              /\ \A s \in StopCalls : stop[s].pipeline # p
              /\ starting' = [starting EXCEPT !.pc = "boot", !.pipeline = p]
              /\ xvfb' = {p}
              /\ parent' = [parent EXCEPT ![p] = starting.next]
  /\ UNCHANGED <<destination, active, timer, called, retries, stop, ffmpeg, interrupted, notes>>

\* An ffmpeg that was killed by a signal within its 3.5 seconds has no exit
\* code: it is taken for a running one, and its exit has been missed.
Boot ==
  /\ starting.pc = "boot"
  /\ active' = starting.pipeline
  /\ starting' = IdleStart
  /\ ffmpeg' \in {ffmpeg, ffmpeg \cup {starting.pipeline}}
  /\ mishaps' = mishaps \cup IF ffmpeg' = ffmpeg THEN {"unnoticed"} ELSE {}
  /\ UNCHANGED <<destination, timer, called, retries, stop, xvfb, parent, interrupted, halted>>

BootFails ==
  /\ starting.pc = "boot"
  /\ xvfb' = xvfb \ {starting.pipeline}
  /\ parent' = [parent EXCEPT ![starting.pipeline] = 0]
  /\ starting' = [starting EXCEPT !.pc = "failed", !.pipeline = NoPipeline]
  /\ UNCHANGED <<destination, active, timer, called, retries, stop, ffmpeg, interrupted, notes>>

\* isPermanentStreamStartFailure, or the row read afresh is not desired.
Failed ==
  /\ starting.pc = "failed"
  /\ \/ starting' = [starting EXCEPT !.pc = "give up"]
     \/ Desired /\ starting' = [starting EXCEPT !.pc = "retry"]
  /\ UNCHANGED <<destination, active, timer, called, retries, stop, processes, notes>>

GiveUpStart ==
  /\ starting.pc = "give up"
  /\ GiveUp
  /\ starting' = IdleStart
  /\ UNCHANGED <<active, timer, called, retries, stop, processes, notes>>

RetryStart ==
  /\ starting.pc = "retry" /\ Cardinality(retries) < MaxRetries
  /\ retries' = retries \cup {[pc |-> "look", attempt |-> starting.next]}
  /\ starting' = IdleStart
  /\ UNCHANGED <<destination, active, timer, called, stop, processes, notes>>

-----------------------------------------------------------------------------
(* The exit of an ffmpeg, afterStreamStartFailure and                      *)
(* scheduleDesiredStreamRestart                                            *)

\* mutant: the entry stays
EntryStays == active

EntryAfterExit == NoPipeline

\* The handler removes the entry of whichever pipeline is active.  It stops
\* nothing: the browser and the Xvfb of an ffmpeg that exits by itself stay,
\* and hold the display.
Exit(p) ==
  /\ p \in ffmpeg /\ Cardinality(retries) < MaxRetries
  /\ ffmpeg' = ffmpeg \ {p}
  /\ active' = EntryAfterExit
  /\ retries' = IF active = NoPipeline THEN retries
                ELSE retries \cup {[pc |-> "look", attempt |-> parent[p]]}
  /\ parent' = [parent EXCEPT ![p] = 0]
  /\ interrupted' = interrupted \ {p}
  /\ mishaps' = mishaps \cup (IF active \in {p, NoPipeline} THEN {} ELSE {"crossed"})
                        \cup (IF p \in interrupted THEN {} ELSE {"left"})
  /\ UNCHANGED <<destination, starting, timer, called, stop, xvfb, halted>>

\* The exit's handler looks at the row, and so does afterStreamStartFailure.
Look(r) ==
  /\ r.pc = "look"
  /\ retries' = (retries \ {r}) \cup (IF Wanted THEN {[r EXCEPT !.pc = "schedule"]} ELSE {})
  /\ UNCHANGED <<destination, active, starting, timer, called, stop, processes, notes>>

scheduleDesiredStreamRestart(r) ==
  /\ r.pc = "schedule"
  /\ retries' = retries \ {r}
  /\ IF r.attempt >= MaxAttempts THEN GiveUp /\ UNCHANGED timer
                                 ELSE timer' = r.attempt /\ UNCHANGED destination
  /\ UNCHANGED <<active, starting, called, stop, processes, notes>>

-----------------------------------------------------------------------------
RestartServer ==
  /\ active' = NoPipeline /\ starting' = IdleStart /\ timer' = Never
  /\ called' = TRUE /\ retries' = {}
  /\ stop' = [s \in StopCalls |-> IdleStop]
  /\ xvfb' = {} /\ ffmpeg' = {} /\ interrupted' = {} /\ mishaps' = {}
  /\ parent' = [p \in Pipelines |-> 0]
  /\ UNCHANGED <<destination, halted>>

Stopping(s) == (\E delete \in BOOLEAN : BeginStop(s, delete)) \/ Stop(s) \/ Close(s)

Started ==
  \/ CheckEnvironment \/ ReadDestination \/ Launch \/ Boot \/ BootFails \/ Failed \/ GiveUpStart
  \/ RetryStart

Retry(r) == Look(r) \/ scheduleDesiredStreamRestart(r)

SNext ==
  \/ postStart \/ Enable \/ \E s \in StopCalls : Stopping(s)
  \/ Call \/ Watchdog \/ RestartTimer \/ Started
  \/ \E p \in Pipelines : Exit(p)
  \/ \E r \in retries : Retry(r)
  \/ RestartServer

SSpec == SInit /\ [][SNext]_sVars

\* Timers fire, what was called or awaited goes on, and an ffmpeg that is
\* told to end does.
SFairness ==
  /\ WF_sVars(Call) /\ WF_sVars(Watchdog) /\ WF_sVars(RestartTimer)
  /\ WF_sVars(Started)
  /\ WF_sVars(\E r \in retries : Retry(r))
  /\ WF_sVars(\E s \in StopCalls : Stop(s) \/ Close(s))
  /\ WF_sVars(\E p \in interrupted : Exit(p))

FairSSpec == SSpec /\ SFairness

-----------------------------------------------------------------------------
InUse(p) == active = p \/ starting.pipeline = p
Closing(p) == \E s \in StopCalls : stop[s].pipeline = p

\* streamRunner.js: "In-flight start to avoid duplicate pipelines".  Whatever
\* runs can be stopped: an ffmpeg is that of the active entry or is about to
\* end, and the display is the active entry's or about to be free, though
\* starts are called by the administrator, the watchdog, the timer and at
\* boot.  Unless an exit removed the entry of another pipeline; and as to the
\* display, unless an ffmpeg exited by itself.
StreamsHeld ==
  "crossed" \notin mishaps =>
    /\ \A p \in ffmpeg : InUse(p) \/ p \in interrupted
    /\ "left" \notin mishaps => \A p \in xvfb : InUse(p) \/ Closing(p)

\* postStop: a stream that is stopped, while no start is under way, stays so
\* until it is started again, though timers, failures' handlers and starts
\* that were about to be called outlive the stop.
StopsHold ==
  halted /\ "crossed" \notin mishaps => active = NoPipeline /\ ffmpeg \subseteq interrupted

\* startStreamDesiredWatchdog: a stream that should run runs, or is tried
\* again and again, unless its ffmpeg ended before anyone watched it.
KeepsTrying ==
  []<>(~Wanted \/ ffmpeg # {} \/ starting.pc # "idle" \/ "unnoticed" \in mishaps)

=============================================================================
