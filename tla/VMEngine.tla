------------------------------- MODULE VMEngine -------------------------------
(***************************************************************************)
(* The life of an emulated machine: the engine and its worker thread       *)
(* (app/Sources/VMEngine.m), the screen that owns it and the main queue on *)
(* which its completions run (app/Sources/EmulatorViewController.m), and   *)
(* the one-shot resume marker (app/Sources/VMResumeCheckpoint.c).          *)
(*                                                                         *)
(* Every section the code executes under the engine's lock is one action,  *)
(* and so is every effect between two of them that another thread can see: *)
(* opening the disk, arming the marker, closing the disk, the dispatch of  *)
(* the completions.  What the guest does, what the host refuses and when a *)
(* time limit is reached are choices.  A completion is a token that names  *)
(* the request and the screen it belongs to.                               *)
(***************************************************************************)
EXTENDS Integers, Sequences, FiniteSets

CONSTANTS
  MaxEngines,   \* bound: engines launched
  MaxRequests,  \* bound: requests of the screen that carry a completion
  MaxScreens,   \* bound: screens opened on the machine
  PausesInBackground   \* the setting

ASSUME EngineAssumption ==
  /\ {MaxEngines, MaxRequests, MaxScreens} \subseteq Nat \ {0}
  /\ PausesInBackground \in BOOLEAN

VARIABLES
  eng,     \* the engines launched so far, with their worker threads
  scr,     \* the screen: EmulatorViewController
  mainq,   \* the main dispatch queue
  jobs,    \* force-off jobs on the global queue
  marker,  \* the resume marker is installed
  calls    \* how often the completion of each request has run

vars == <<eng, scr, mainq, jobs, marker, calls>>

Engines == 1 .. MaxEngines
Requests == 1 .. MaxRequests
Kinds == {"save", "shutdown", "restart", "reset", "force"}
States == {"Idle", "Starting", "Running", "Checkpointing", "Stopping"}
Points == {"none", "prepare", "boot", "admit", "cancel", "failed", "loop",
           "checkpoint", "saving", "unsaved", "shutdown", "witness", "run",
           "after", "close", "final", "dispatch"}

Token == [kind : Kinds, id : Requests, eng : Engines, screen : 1 .. MaxScreens]
NoToken == [kind |-> "none"]
(* A block on the main queue: a completion with its result, at its stage.  *)
(* "finish" is the part of the shutdown completion that waits for an alert *)
(* to go away; "forced" is the report of a force-off job.                  *)
Block == [stage : {"completion", "finish", "forced"}, tok : Token, ok : BOOLEAN]

Dormant ==
  [state |-> "Idle", stop |-> FALSE, stopDone |-> <<>>,
   ckpt |-> FALSE, ckptDone |-> NoToken, shut |-> FALSE, shutDone |-> NoToken,
   paused |-> FALSE, ready |-> FALSE, firmware |-> FALSE, disk |-> FALSE,
   standby |-> FALSE, saved |-> FALSE, end |-> "none",
   pc |-> "none", taken |-> <<>>, next |-> "none"]

NoCall == [op |-> "none"]

NewScreen(n) ==
  [n |-> n, open |-> TRUE, cur |-> 0, saving |-> FALSE, restarting |-> FALSE,
   shutting |-> FALSE, forceReq |-> FALSE, forcing |-> FALSE,
   hidden |-> FALSE, userPaused |-> FALSE, call |-> NoCall]

Launched == {e \in Engines : eng[e].pc # "none" \/ eng[e].end # "none"}
Completion(tok, ok) == [stage |-> "completion", tok |-> tok, ok |-> ok]
BlocksOf(tok, ok) == IF tok = NoToken THEN <<>> ELSE <<Completion(tok, ok)>>
NextRequest == Cardinality({i \in Requests : calls[i] # -1}) + 1

-----------------------------------------------------------------------------
(* The engine's entry points, each one section under its lock.             *)

(* start, for a new engine. *)
Started == [Dormant EXCEPT !.state = "Starting", !.pc = "prepare"]

(* stopWithCompletion: the completion is kept behind the earlier ones; an  *)
(* idle engine completes at once (StopAnswer).                             *)
Stopped(r, tok) ==
  LET kept == IF r.state = "Idle" \/ tok = NoToken THEN r
              ELSE [r EXCEPT !.stopDone = Append(@, tok)]
  IN  IF r.state \in {"Starting", "Running", "Checkpointing"}
      THEN [kept EXCEPT !.stop = TRUE, !.paused = FALSE, !.state = "Stopping"]
      ELSE kept
StopAnswer(r, tok) ==
  IF r.state = "Idle" THEN BlocksOf(tok, TRUE) ELSE <<>>

(* saveCheckpointAndStopWithCompletion and shutDownAndStopWithCompletion.  *)
SaveRefused(r) ==
  \/ r.state = "Checkpointing" \/ r.ckpt \/ r.shut
  \/ r.state # "Running" \/ ~r.ready \/ ~r.disk
SaveAsked(r, tok) ==
  IF SaveRefused(r) THEN r
  ELSE [r EXCEPT !.ckpt = TRUE, !.ckptDone = tok, !.state = "Checkpointing"]
ShutdownRefused(r) ==
  r.shut \/ r.ckpt \/ r.state # "Running" \/ ~r.ready \/ ~r.disk
ShutdownAsked(r, tok) ==
  IF ShutdownRefused(r) THEN r
  ELSE [r EXCEPT !.shut = TRUE, !.shutDone = tok, !.paused = FALSE]

IsRunning(r) == r.state \in {"Running", "Checkpointing"}
IsRunningFirmware(r) == r.ready /\ r.firmware   \* _mode names the firmware

-----------------------------------------------------------------------------
(* The worker thread: startup.                                             *)

Worker(e, r) == eng' = [eng EXCEPT ![e] = r]
At(e, pc) == eng[e].pc = pc

(* prepareMachine up to the payload: a stop that came first wins, the      *)
(* machine may not be allocated.                                           *)
Prepare(e) ==
  /\ At(e, "prepare")
  /\ \/ Worker(e, [eng[e] EXCEPT !.pc = "failed"])
     \/ ~eng[e].stop /\ Worker(e, [eng[e] EXCEPT !.pc = "boot"])
  /\ UNCHANGED <<scr, mainq, jobs, marker, calls>>

(* vm_firmware_boot_start opens the work image first. *)
OpenDisk(e) ==
  /\ At(e, "boot") /\ ~eng[e].disk
  /\ Worker(e, [eng[e] EXCEPT !.disk = TRUE])
  /\ UNCHANGED <<scr, mainq, jobs, marker, calls>>

(* The boot succeeded: a resume request has been consumed. *)
BootFirmware(e) ==
  /\ At(e, "boot") /\ eng[e].disk
  /\ marker' = FALSE
  /\ Worker(e, [eng[e] EXCEPT !.firmware = TRUE, !.pc = "admit"])
  /\ UNCHANGED <<scr, mainq, jobs, calls>>

(* No firmware, or its boot failed: the image is closed, and the built-in  *)
(* guest runs instead or the startup fails.                                *)
BootFallback(e) ==
  /\ At(e, "boot")
  /\ \E pc \in {"admit", "failed"} :
       Worker(e, [eng[e] EXCEPT !.disk = FALSE, !.pc = pc])
  /\ UNCHANGED <<scr, mainq, jobs, marker, calls>>

CancelLeavesDisk(e) ==
  /\ At(e, "cancel")
  /\ Worker(e, [eng[e] EXCEPT !.pc = "failed"])
  /\ UNCHANGED <<scr, mainq, jobs, marker, calls>>

(* The last section of prepareMachine. *)
Admit(e) ==
  /\ At(e, "admit")
  /\ Worker(e, IF eng[e].stop THEN [eng[e] EXCEPT !.pc = "cancel"]
               ELSE [eng[e] EXCEPT !.ready = TRUE, !.state = "Running",
                                   !.pc = "loop"])
  /\ UNCHANGED <<scr, mainq, jobs, marker, calls>>

Cancel(e) ==
  /\ At(e, "cancel")
  /\ Worker(e, [eng[e] EXCEPT !.disk = FALSE, !.pc = "failed"])
  /\ UNCHANGED <<scr, mainq, jobs, marker, calls>>

Answers(toks, ok) == [i \in DOMAIN toks |-> Completion(toks[i], ok)]

(* finishFailedStartup. *)
FinishFailedStartup(e) ==
  /\ At(e, "failed")
  /\ Worker(e, [eng[e] EXCEPT
       !.state = "Idle", !.stop = FALSE, !.paused = FALSE, !.stopDone = <<>>,
       !.taken = Answers(eng[e].stopDone, TRUE), !.firmware = FALSE, !.end = "over",
       !.pc = "dispatch", !.next = "none"])
  /\ UNCHANGED <<scr, mainq, jobs, marker, calls>>

-----------------------------------------------------------------------------
(* The worker thread: threadMain.                                          *)

SampleWaitsWhilePaused(e) ==
  LET r == eng[e] IN
  /\ At(e, "loop")
  /\ r.stop \/ ~r.paused
  /\ Worker(e, [r EXCEPT !.end = IF r.stop THEN "stopped" ELSE @,
                         !.pc = IF r.stop THEN "close"
                                ELSE IF r.ckpt THEN "checkpoint"
                                ELSE IF r.shut THEN "shutdown" ELSE "run"])
  /\ UNCHANGED <<scr, mainq, jobs, marker, calls>>

(* The top of the loop samples the requests; a paused engine only waits.   *)
Sample(e) ==
  LET r == eng[e] IN
  /\ At(e, "loop")
  /\ r.stop \/ r.ckpt \/ ~r.paused
  /\ Worker(e, [r EXCEPT !.end = IF r.stop THEN "stopped" ELSE @,
                         !.pc = IF r.stop THEN "close"
                                ELSE IF r.ckpt THEN "checkpoint"
                                ELSE IF r.shut THEN "shutdown" ELSE "run"])
  /\ UNCHANGED <<scr, mainq, jobs, marker, calls>>

BeginSaveArmsFirst(e) ==
  /\ At(e, "checkpoint")
  /\ marker' = TRUE
  /\ Worker(e, [eng[e] EXCEPT !.pc = "saving"])
  /\ UNCHANGED <<scr, mainq, jobs, calls>>

(* The input has been released and no disk operation is pending: the save  *)
(* begins by removing the old marker.                                      *)
BeginSave(e) ==
  /\ At(e, "checkpoint")
  /\ marker' = FALSE
  /\ Worker(e, [eng[e] EXCEPT !.pc = "saving"])
  /\ UNCHANGED <<scr, mainq, jobs, calls>>

(* The input is still held or a disk operation is pending: run on. *)
SaveBusy(e) ==
  /\ At(e, "checkpoint")
  /\ Worker(e, [eng[e] EXCEPT !.pc = "run"])
  /\ UNCHANGED <<scr, mainq, jobs, marker, calls>>

(* The input was not released in time, a write failed, or a stop cancelled *)
(* the save.  The marker is the last thing installed.                      *)
SaveFails(e) ==
  /\ eng[e].pc \in {"checkpoint", "saving"}
  /\ Worker(e, [eng[e] EXCEPT !.pc = "unsaved"])
  /\ UNCHANGED <<scr, mainq, jobs, marker, calls>>

SaveSucceeds(e) ==
  /\ At(e, "saving")
  /\ marker' = TRUE
  /\ Worker(e, [eng[e] EXCEPT !.saved = TRUE, !.end = "stopped", !.pc = "close"])
  /\ UNCHANGED <<scr, mainq, jobs, calls>>

(* The failed save is reported and the machine goes on, unless a stop came *)
(* in the meantime.                                                        *)
Unsaved(e) ==
  LET r == eng[e] IN
  /\ At(e, "unsaved")
  /\ Worker(e, [r EXCEPT !.ckpt = FALSE, !.ckptDone = NoToken,
                         !.state = IF r.stop THEN @ ELSE "Running",
                         !.taken = BlocksOf(r.ckptDone, FALSE),
                         !.pc = "dispatch", !.next = "loop"])
  /\ UNCHANGED <<scr, mainq, jobs, marker, calls>>

ShutdownEndedKeepsCompletion(r, taken, pc, next) ==
  [r EXCEPT !.shut = FALSE, !.taken = taken, !.pc = pc, !.next = next]

(* vm_guest_shutdown_step has nothing to do, or its input was accepted. *)
ShutdownProceeds(e) ==
  /\ At(e, "shutdown") /\ ~eng[e].standby
  /\ Worker(e, [eng[e] EXCEPT !.pc = "run"])
  /\ UNCHANGED <<scr, mainq, jobs, marker, calls>>

ShutdownEnded(r, taken, pc, next) ==
  [r EXCEPT !.shut = FALSE, !.shutDone = NoToken,
            !.taken = taken, !.pc = pc, !.next = next]

(* Its time is over, or its input was refused: the machine stays open. *)
ShutdownGivesUp(e) ==
  /\ At(e, "shutdown") /\ ~eng[e].standby
  /\ Worker(e, ShutdownEnded(eng[e], BlocksOf(eng[e].shutDone, FALSE),
                             "dispatch", "run"))
  /\ UNCHANGED <<scr, mainq, jobs, marker, calls>>

(* The guest is in standby: the request is over and its completion is      *)
(* handed to a checkpoint, in a section of its own.                        *)
ShutdownComplete(e) ==
  /\ At(e, "shutdown") /\ eng[e].standby
  /\ Worker(e, ShutdownEnded(eng[e], BlocksOf(eng[e].shutDone, FALSE),
                             "witness", "loop"))
  /\ UNCHANGED <<scr, mainq, jobs, marker, calls>>

SaveWitness(e) ==
  LET r == eng[e] IN
  /\ At(e, "witness")
  /\ Worker(e, IF SaveRefused(r) THEN [r EXCEPT !.pc = "dispatch"]
               ELSE [SaveAsked(r, r.taken[1].tok) EXCEPT
                       !.taken = <<>>, !.pc = "loop"])
  /\ UNCHANGED <<scr, mainq, jobs, marker, calls>>

(* s5l8900_run executes a chunk: the guest may power off or on, halt, or   *)
(* reach the instruction cap.                                              *)
Run(e) ==
  /\ At(e, "run")
  /\ \E standby \in BOOLEAN, end \in {"none", "halted", "capped"} :
       Worker(e, [eng[e] EXCEPT !.standby = standby, !.end = end, !.pc = "after"])
  /\ UNCHANGED <<scr, mainq, jobs, marker, calls>>

(* The section after the chunk: a stop wins over a halt, and a checkpoint  *)
(* over the cap.                                                           *)
AfterRun(e) ==
  LET r == eng[e]
      over == r.end = "halted" \/ (r.end = "capped" /\ ~r.ckpt)
  IN
  /\ At(e, "after")
  /\ Worker(e, IF r.stop THEN [r EXCEPT !.end = "stopped", !.pc = "close"]
               ELSE IF over THEN [r EXCEPT !.state = "Stopping", !.pc = "close"]
               ELSE [r EXCEPT !.end = "none", !.pc = "loop"])
  /\ UNCHANGED <<scr, mainq, jobs, marker, calls>>

(* The machine is freed and the work image closed. *)
Close(e) ==
  /\ At(e, "close")
  /\ Worker(e, [eng[e] EXCEPT !.disk = FALSE, !.pc = "final"])
  /\ UNCHANGED <<scr, mainq, jobs, marker, calls>>

(* The last section takes every completion that is left. *)
Final(e) ==
  LET r == eng[e] IN
  /\ At(e, "final")
  /\ Worker(e, [r EXCEPT
       !.state = "Idle", !.stop = FALSE, !.stopDone = <<>>, !.ckpt = FALSE,
       !.ckptDone = NoToken, !.shut = FALSE, !.shutDone = NoToken,
       !.paused = FALSE, !.ready = FALSE, !.firmware = FALSE,
       !.standby = FALSE, !.saved = FALSE, !.end = "over",
       !.taken = BlocksOf(r.ckptDone, r.saved) \o BlocksOf(r.shutDone, FALSE)
                 \o Answers(r.stopDone, TRUE),
       !.pc = "dispatch", !.next = "none"])
  /\ UNCHANGED <<scr, mainq, jobs, marker, calls>>

(* dispatch_async of the completions taken, outside the lock. *)
Dispatch(e) ==
  /\ At(e, "dispatch")
  /\ mainq' = mainq \o eng[e].taken
  /\ Worker(e, [eng[e] EXCEPT !.taken = <<>>, !.pc = eng[e].next])
  /\ UNCHANGED <<scr, jobs, marker, calls>>

-----------------------------------------------------------------------------
(* The screen.  Its handlers and the blocks of the main queue share one    *)
(* thread; a handler that calls the engine twice leaves the second call in *)
(* scr.call, because the worker may run in between.                        *)

Busy == scr.saving \/ scr.restarting \/ scr.shutting \/ scr.forceReq
Tappable == scr.open /\ scr.call = NoCall
CanRequest == NextRequest \in Requests
Ask(kind) == [kind |-> kind, id |-> NextRequest, eng |-> scr.cur, screen |-> scr.n]
Issued == calls' = [calls EXCEPT ![NextRequest] = 0]

(* applyPauseState, for a screen and the engine it shows. *)
ShouldPause(s) ==
  s.userPaused \/ (s.hidden /\ (s.shutting \/ PausesInBackground))
PausedBy(s, es) ==
  IF s.cur = 0 THEN es ELSE [es EXCEPT ![s.cur].paused = ShouldPause(s)]

(* launchEngine: a new engine is started and given the pause state; its    *)
(* thread may not come into being.                                         *)
NextEngine == Cardinality(Launched) + 1
LaunchedOn(s, es) ==
  LET e == NextEngine
  IN  {[s |-> [s EXCEPT !.cur = e],
        es |-> PausedBy([s EXCEPT !.cur = e], [es EXCEPT ![e] = Started])],
       [s |-> [s EXCEPT !.cur = 0], es |-> es]}

(* popViewControllerAnimated: the screen goes away and stops its engine.   *)
PoppedScreen(s) == [s EXCEPT !.open = FALSE, !.cur = 0]
StoppedEngines(s, es) ==
  IF s.cur = 0 THEN es ELSE [es EXCEPT ![s.cur] = Stopped(@, NoToken)]

(* The owner opens the machine: viewDidLoad launches an engine. *)
Open ==
  /\ ~scr.open /\ scr.n < MaxScreens /\ NextEngine \in Engines
  /\ \E l \in LaunchedOn(NewScreen(scr.n + 1), eng) : scr' = l.s /\ eng' = l.es
  /\ UNCHANGED <<mainq, jobs, marker, calls>>

ForcePowerOffAtOnce ==
  /\ scr.cur # 0 /\ ~scr.forcing /\ CanRequest
  /\ scr' = [scr EXCEPT !.forceReq = TRUE, !.forcing = TRUE, !.shutting = FALSE,
                        !.restarting = FALSE, !.saving = FALSE]
  /\ eng' = [eng EXCEPT ![scr.cur] = Stopped(@, NoToken)]
  /\ jobs' = jobs \union {Ask("force")}
  /\ Issued
  /\ UNCHANGED <<mainq, marker>>

(* forcePowerOff, reached from every busy state: the stop completion will  *)
(* clear the resume marker.                                                *)
CanForcePowerOff == scr.cur # 0 /\ ~scr.forcing /\ CanRequest
ForcePowerOff ==
  /\ CanForcePowerOff
  /\ scr' = [scr EXCEPT !.forceReq = TRUE, !.forcing = TRUE, !.shutting = FALSE,
                        !.restarting = FALSE, !.saving = FALSE]
  /\ eng' = [eng EXCEPT ![scr.cur] = Stopped(@, Ask("force"))]
  /\ mainq' = mainq \o StopAnswer(eng[scr.cur], Ask("force"))
  /\ Issued
  /\ UNCHANGED <<jobs, marker>>
ForceTapped == Tappable /\ ForcePowerOff

(* saveAndCloseTapped. *)
SaveTapped ==
  /\ Tappable /\ ~Busy
  /\ \/ /\ scr.cur = 0
        /\ scr' = PoppedScreen(scr)
        /\ UNCHANGED <<eng, mainq, jobs, marker, calls>>
     \/ /\ scr.cur # 0
        /\ ~(IsRunning(eng[scr.cur]) /\ IsRunningFirmware(eng[scr.cur]))
        /\ ForcePowerOff
     \/ /\ scr.cur # 0 /\ CanRequest
        /\ IsRunning(eng[scr.cur]) /\ IsRunningFirmware(eng[scr.cur])
        /\ scr' = [scr EXCEPT !.saving = TRUE,
                              !.call = [op |-> "save", tok |-> Ask("save")]]
        /\ Issued
        /\ UNCHANGED <<eng, mainq, jobs, marker>>

SaveCall ==
  LET r == eng[scr.call.tok.eng] IN
  /\ scr.call.op = "save"
  /\ eng' = [eng EXCEPT ![scr.call.tok.eng] = SaveAsked(r, scr.call.tok)]
  /\ mainq' = mainq \o IF SaveRefused(r) THEN BlocksOf(scr.call.tok, FALSE)
                       ELSE <<>>
  /\ scr' = [scr EXCEPT !.call = NoCall]
  /\ UNCHANGED <<jobs, marker, calls>>

(* shutDownGuestAndRestart; resetTapped restarts a running firmware guest  *)
(* this way.                                                               *)
ShutDownTapped ==
  \E kind \in {"shutdown", "restart"} :
    /\ Tappable /\ ~Busy /\ scr.cur # 0 /\ CanRequest
    /\ kind = "restart" =>
         /\ IsRunningFirmware(eng[scr.cur]) /\ IsRunning(eng[scr.cur])
         /\ NextEngine \in Engines
    /\ scr' = [scr EXCEPT !.shutting = TRUE, !.userPaused = FALSE,
                          !.call = [op |-> "shutdown", tok |-> Ask(kind)]]
    /\ eng' = PausedBy(scr', eng)
    /\ Issued
    /\ UNCHANGED <<mainq, jobs, marker>>

ShutDownCall ==
  LET r == eng[scr.call.tok.eng] IN
  /\ scr.call.op = "shutdown"
  /\ eng' = [eng EXCEPT ![scr.call.tok.eng] = ShutdownAsked(r, scr.call.tok)]
  /\ mainq' = mainq \o IF ShutdownRefused(r) THEN BlocksOf(scr.call.tok, FALSE)
                       ELSE <<>>
  /\ scr' = [scr EXCEPT !.call = NoCall]
  /\ UNCHANGED <<jobs, marker, calls>>

(* resetTapped for the built-in guest, a machine that has halted or one    *)
(* that did not start.                                                     *)
ResetTapped ==
  /\ Tappable /\ ~Busy
  /\ \/ /\ scr.cur = 0 /\ NextEngine \in Engines
        /\ \E l \in LaunchedOn([scr EXCEPT !.userPaused = FALSE], eng) :
             scr' = l.s /\ eng' = l.es
        /\ UNCHANGED <<mainq, jobs, marker, calls>>
     \/ /\ scr.cur # 0 /\ CanRequest /\ NextEngine \in Engines
        /\ ~(IsRunningFirmware(eng[scr.cur]) /\ IsRunning(eng[scr.cur]))
        /\ scr' = [scr EXCEPT !.restarting = TRUE, !.userPaused = FALSE]
        /\ eng' = [eng EXCEPT ![scr.cur] = Stopped(@, Ask("reset"))]
        /\ mainq' = mainq \o StopAnswer(eng[scr.cur], Ask("reset"))
        /\ Issued
        /\ UNCHANGED <<jobs, marker>>

(* The application goes to the background or returns, or the owner pauses. *)
Hide ==
  /\ Tappable
  /\ scr' = [scr EXCEPT !.hidden = ~@]
  /\ eng' = PausedBy(scr', eng)
  /\ UNCHANGED <<mainq, jobs, marker, calls>>
PauseTapped ==
  /\ Tappable /\ ~Busy /\ scr.cur # 0 /\ IsRunning(eng[scr.cur])
  /\ scr' = [scr EXCEPT !.userPaused = ~eng[scr.cur].paused]
  /\ eng' = PausedBy(scr', eng)
  /\ UNCHANGED <<mainq, jobs, marker, calls>>

-----------------------------------------------------------------------------
(* The blocks of the main queue.                                           *)

Ran(tok) == calls' = [calls EXCEPT ![tok.id] = @ + 1]
Mine(tok) == scr.open /\ scr.n = tok.screen
Popped ==
  /\ scr' = PoppedScreen(scr)
  /\ eng' = StoppedEngines(scr, eng)
Relaunched(s) ==
  \E l \in LaunchedOn(s, eng) : scr' = l.s /\ eng' = l.es
Ignored == UNCHANGED <<scr, eng>>

(* The completion of saveAndCloseTapped. *)
SaveAnswered(b) ==
  IF ~Mine(b.tok) \/ scr.forceReq THEN Ignored
  ELSE IF b.ok THEN Popped
  ELSE scr' = [scr EXCEPT !.saving = FALSE] /\ UNCHANGED eng

ShutdownFinishedAnyway(b) ==
  LET s == [scr EXCEPT !.shutting = FALSE, !.saving = FALSE] IN
  IF ~Mine(b.tok) \/ scr.forceReq THEN Ignored
  ELSE IF b.tok.kind = "restart" THEN Relaunched(s)
  ELSE IF ~b.ok THEN scr' = s /\ UNCHANGED eng
  ELSE Popped

(* The completion of a shutdown, once no alert is in its way. *)
ShutdownFinished(b) ==
  LET s == [scr EXCEPT !.shutting = FALSE, !.saving = FALSE] IN
  IF ~Mine(b.tok) \/ scr.forceReq THEN Ignored
  ELSE IF ~b.ok THEN scr' = s /\ UNCHANGED eng
  ELSE IF b.tok.kind = "restart" THEN Relaunched(s)
  ELSE Popped

(* The completion of resetTapped: the old machine is gone. *)
ResetAnswered(b) ==
  IF ~Mine(b.tok) \/ scr.cur # b.tok.eng \/ scr.forceReq THEN Ignored
  ELSE Relaunched([scr EXCEPT !.restarting = FALSE])

(* The report of a force-off. *)
ForceAnswered(b) ==
  IF ~Mine(b.tok) THEN Ignored
  ELSE IF b.ok THEN Popped
  ELSE scr' = [scr EXCEPT !.forcing = FALSE, !.saving = FALSE] /\ UNCHANGED eng

(* The main queue is serial.  The completion of a shutdown is put off when *)
(* an alert has to be dismissed first, and the stop completion of a force- *)
(* off goes on on a global queue.                                          *)
RunBlock ==
  LET b == Head(mainq)
      Completes(kinds) == b.stage = "completion" /\ b.tok.kind \in kinds
  IN
  /\ scr.call = NoCall /\ mainq # <<>>
  /\ \/ /\ b.stage = "forced"
        /\ mainq' = Tail(mainq) /\ Ran(b.tok) /\ ForceAnswered(b)
        /\ UNCHANGED jobs
     \/ /\ b.stage = "finish"
        /\ mainq' = Tail(mainq) /\ ShutdownFinished(b)
        /\ UNCHANGED <<calls, jobs>>
     \/ /\ Completes({"force"})
        /\ mainq' = Tail(mainq) /\ jobs' = jobs \union {b.tok}
        /\ Ignored /\ UNCHANGED calls
     \/ /\ Completes({"save"})
        /\ mainq' = Tail(mainq) /\ Ran(b.tok) /\ SaveAnswered(b)
        /\ UNCHANGED jobs
     \/ /\ Completes({"reset"})
        /\ mainq' = Tail(mainq) /\ Ran(b.tok) /\ ResetAnswered(b)
        /\ UNCHANGED jobs
     \/ /\ Completes({"shutdown", "restart"})
        /\ mainq' = Tail(mainq) /\ Ran(b.tok) /\ ShutdownFinished(b)
        /\ UNCHANGED jobs
     \/ /\ Completes({"shutdown", "restart"}) /\ Mine(b.tok) /\ ~scr.forceReq
        /\ mainq' = Append(Tail(mainq), [b EXCEPT !.stage = "finish"])
        /\ Ran(b.tok) /\ Ignored /\ UNCHANGED jobs
  /\ UNCHANGED marker

(* The job of a force-off: vm_resume_checkpoint_disarm. *)
Disarm ==
  \E tok \in jobs, ok \in BOOLEAN :
    /\ jobs' = jobs \ {tok}
    /\ marker' = (marker /\ ~ok)
    /\ mainq' = Append(mainq, [stage |-> "forced", tok |-> tok, ok |-> ok])
    /\ UNCHANGED <<eng, scr, calls>>

-----------------------------------------------------------------------------
Init ==
  /\ eng = [e \in Engines |-> Dormant]
  /\ scr = [NewScreen(0) EXCEPT !.open = FALSE]
  /\ mainq = <<>> /\ jobs = {}
  /\ marker \in BOOLEAN
  /\ calls = [i \in Requests |-> -1]

Startup(e) ==
  \/ Prepare(e) \/ OpenDisk(e) \/ BootFirmware(e) \/ BootFallback(e)
  \/ Admit(e) \/ Cancel(e) \/ FinishFailedStartup(e)
Saving(e) ==
  BeginSave(e) \/ SaveBusy(e) \/ SaveFails(e) \/ SaveSucceeds(e) \/ Unsaved(e)
ShuttingDown(e) ==
  \/ ShutdownProceeds(e) \/ ShutdownGivesUp(e)
  \/ ShutdownComplete(e) \/ SaveWitness(e)
ThreadMain(e) ==
  \/ Sample(e) \/ Saving(e) \/ ShuttingDown(e) \/ Run(e) \/ AfterRun(e)
  \/ Close(e) \/ Final(e) \/ Dispatch(e)
Thread(e) == Startup(e) \/ ThreadMain(e)

Owner ==
  \/ Open \/ ForceTapped \/ SaveTapped \/ ShutDownTapped \/ ResetTapped
  \/ Hide \/ PauseTapped
Main == SaveCall \/ ShutDownCall \/ RunBlock

Next == (\E e \in Engines : Thread(e)) \/ Owner \/ Main \/ Disarm

Spec == Init /\ [][Next]_vars

(* The worker and the queues are scheduled.  A save that keeps being tried *)
(* comes to an end (the releases have a time limit and a guest that runs   *)
(* completes its disk operations), and so does a shutdown (three minutes). *)
FairSpec ==
  /\ Spec
  /\ \A e \in Engines :
       /\ WF_vars(Thread(e))
       /\ SF_vars(BeginSave(e) \/ SaveFails(e))
       /\ SF_vars(ShutdownGivesUp(e) \/ ShutdownComplete(e))
  /\ WF_vars(Main) /\ WF_vars(Disarm)

-----------------------------------------------------------------------------
(* Properties.                                                             *)

MaybeToken == Token \union {NoToken}

(* Every field of the engines, the screen and the queues has its type, and *)
(* an idle engine keeps neither a machine nor an unanswered request.       *)
TypeOK ==
  /\ \A e \in Engines :
       LET r == eng[e] IN
       /\ r.state \in States /\ r.pc \in Points /\ r.next \in {"none", "loop", "run"}
       /\ r.ckptDone \in MaybeToken /\ r.shutDone \in MaybeToken
       /\ r.stopDone \in Seq(Token) /\ r.taken \in Seq(Block)
       /\ r.end \in {"none", "stopped", "halted", "capped", "over"}
       /\ {r.stop, r.ckpt, r.shut, r.paused, r.ready, r.firmware, r.disk,
           r.standby, r.saved} \subseteq BOOLEAN
       /\ r.state = "Idle" =>
            /\ ~r.stop /\ ~r.ckpt /\ ~r.shut /\ ~r.ready /\ ~r.disk
            /\ r.stopDone = <<>> /\ r.ckptDone = NoToken /\ r.shutDone = NoToken
  /\ scr.cur \in 0 .. MaxEngines /\ scr.n \in 0 .. MaxScreens
  /\ mainq \in Seq(Block) /\ jobs \subseteq Token /\ marker \in BOOLEAN
  /\ calls \in [Requests -> -1 .. 1]

(* "Starting the replacement sooner allows two guests to write one HFS+    *)
(* volume" (EmulatorViewController.m, resetTapped): whatever the owner     *)
(* taps while a machine saves, shuts down, resets or is forced off, two    *)
(* engines never hold the work image at once.                              *)
OneOwner == \A e, f \in Engines : eng[e].disk /\ eng[f].disk => e = f

(* The work image has one owner, and each engine's record is one its lock     *)
(* protects: an idle engine holds neither requests nor the image.             *)
DiskOwned == TypeOK /\ OneOwner

(* A resume marker never waits beside a machine that may still write its   *)
(* disk, and a screen that is told its machine was saved or shut down can  *)
(* rely on the marker, unless the owner forced it off.                     *)
Resumable(b) == b.ok /\ b.tok.kind \in {"save", "shutdown", "restart"}
MarkerIsCurrent ==
  /\ marker => \A e \in Engines : eng[e].disk /\ eng[e].ready => eng[e].saved
  /\ \A i \in DOMAIN mainq :
       Resumable(mainq[i]) /\ Mine(mainq[i].tok) /\ ~scr.forceReq => marker

(* "a shutdown/checkpoint already in flight must not publish a new marker  *)
(* AFTER we disarm it" (VMEngine.m, forcePowerOffWithCompletion): the      *)
(* marker is disarmed only while no engine has the disk, and when the      *)
(* screen hears that it is gone the next launch finds none.                *)
ForcedOffIsCold ==
  /\ jobs # {} => \A e \in Engines : ~eng[e].disk
  /\ \A i \in DOMAIN mainq : mainq[i].stage = "forced" /\ mainq[i].ok => ~marker

(* The marker tells the next launch the truth, after a save, a failed save    *)
(* and a force-off.                                                           *)
MarkerIsHonest == MarkerIsCurrent /\ ForcedOffIsCold

(* A completion runs once: the token of a request that was not answered is *)
(* in one place only, and none is left of one that was.                    *)
Holds(e, i) ==
  LET r == eng[e] IN
  Cardinality({j \in DOMAIN r.stopDone : r.stopDone[j].id = i})
  + Cardinality({j \in DOMAIN r.taken : r.taken[j].tok.id = i})
  + Cardinality({t \in {r.ckptDone} \ {NoToken} : t.id = i})
  + Cardinality({t \in {r.shutDone} \ {NoToken} : t.id = i})
Waiting(i) ==
  Cardinality({j \in DOMAIN mainq : mainq[j].tok.id = i /\ mainq[j].stage # "finish"})
  + Cardinality({t \in jobs : t.id = i})
  + (IF scr.call # NoCall /\ scr.call.tok.id = i THEN 1 ELSE 0)
AnsweredOnce ==
  \A i \in Requests :
    \/ calls[i] = -1
    \/ \E e \in Engines :
         /\ Holds(e, i) + Waiting(i) + calls[i] = 1
         /\ \A f \in Engines \ {e} : Holds(f, i) = 0

(* Requests do not pile up: again and again there is a time when every     *)
(* request made so far has been answered (or the machine waits in the      *)
(* background), however saves, shutdowns, stops and halts cross.           *)
Answered == []<>(scr.hidden \/ \A i \in Requests : calls[i] # 0)
=============================================================================
