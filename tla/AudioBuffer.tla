---------------------------- MODULE AudioBuffer ----------------------------
(***************************************************************************)
(* The audio hand-off of the app (app/Sources/VMAudioBuffer.c, with the    *)
(* stores of VMAudioOutput.m and the calls of VMEngine.m): the emulator    *)
(* thread produces sound and consumes the microphone, the render callback  *)
(* plays, the tap records, and the main thread builds and tears down the   *)
(* audio graph.  Nobody takes a lock.  Every atomic load and store that    *)
(* another thread can see is a step.                                       *)
(*                                                                         *)
(* Samples are reduced to the epoch they come from (AudioRing); the gain   *)
(* of a fade, the clipping and the interpolation weights are left out,     *)
(* while the resampler's phase, which decides how many frames are put, and *)
(* the recovery counters of the render callback are kept.                  *)
(* The two directions share the emulator, the main thread, the flags and   *)
(* the epoch, and nothing else; a behaviour may be limited to one of them. *)
(***************************************************************************)
EXTENDS AudioRing, FiniteSetsExt

CONSTANTS VM_AUDIO_RATE,     \* 48000 in the code
          Rates,             \* rates a stream can have, legal or not
          LowRate, HighRate, \* the range resample accepts: 8000..192000
          CaptureHigh,       \* the highest capture rate: 96000
          VM_AUDIO_PREFILL,  \* frames gathered before playback starts
          VM_AUDIO_FADE,     \* frames a fade lasts
          CaptureEpochs,     \* bound: the epochs of a behaviour that uses the microphone
          Uses,              \* bound: the sets of directions a behaviour may use
          TapFrames          \* bound: frames of one tap callback

ASSUME RateAssumption ==
    /\ Rates \subseteq Nat
    /\ {VM_AUDIO_RATE, LowRate, HighRate, CaptureHigh} \subseteq Nat \ {0}
    /\ {VM_AUDIO_PREFILL, VM_AUDIO_FADE, TapFrames} \subseteq Nat \ {0}
    /\ Uses \subseteq SUBSET {"out", "in"}
    /\ CaptureEpochs \in 0..MaxEpoch

VARIABLES
    pb, pbPut, pbGet,      \* playback: the emulator puts, the render callback gets
    mic, micPut, micGet,   \* microphone: the tap puts, the emulator gets
    epoch, active, host_running, microphone_enabled,
    guest,                 \* the emulator thread
    render,                \* the render callback
    tap,                   \* the microphone tap
    main,                  \* the main thread and the graph it has built
    boundary,              \* epoch of the emulator's last change of active
    use                    \* the directions this behaviour uses

shared == <<epoch, active, host_running, microphone_enabled>>
pbvars == <<pb, pbPut, pbGet>>
micvars == <<mic, micPut, micGet>>
vars == <<pb, pbPut, pbGet, mic, micPut, micGet, shared, guest, render, tap, main, boundary, use>>

Playback == INSTANCE AudioQueue WITH queue <- pb, put <- pbPut, get <- pbGet
Microphone == INSTANCE AudioQueue WITH queue <- mic, put <- micPut, get <- micGet

\* MaxEpoch, or a lower bound where the microphone is in use
EpochLeft == epoch < IF "in" \in use THEN CaptureEpochs ELSE MaxEpoch

NoResampler == [previous |-> Silence, phase |-> 0, rate |-> 0, primed |-> FALSE]

\* An unprimed capture: its frames, phase and rate are written before they are
\* read again.
NoCapture == [a |-> Silence, b |-> Silence, phase |-> 0, rate |-> 0, primed |-> FALSE]

Init ==
    /\ Playback!QInit
    /\ Microphone!QInit
    /\ epoch = 0
    /\ active = FALSE /\ host_running = FALSE /\ microphone_enabled = FALSE
    /\ guest = [pc |-> "idle", rate |-> 0, epoch |-> 0, output |-> NoResampler, capture |-> NoCapture]
    /\ render = [pc |-> "idle", epoch |-> 0, started |-> FALSE, wait |-> 0, fade_out |-> 0,
                 last |-> Silence, tail |-> Silence]
    /\ tap = [pc |-> "idle", rate |-> 0, epoch |-> 0, left |-> 0, input |-> NoResampler]
    /\ main = [pc |-> "idle", graph |-> FALSE, tapped |-> FALSE]
    /\ boundary = 0
    /\ use \in Uses

-----------------------------------------------------------------------------
\* resample, shared by the emulator and the tap.

\* The frame between two others is as old as the older of them.
Mix(a, b) == CASE a = Silence -> b
               [] b = Silence -> a
               [] OTHER -> IF a < b THEN a ELSE b

RateLegal(rate) == rate \in LowRate..HighRate

\* A first frame, or one of a new rate, is put as it is.
Priming(s, rate) == rate # s.rate \/ ~s.primed

Prime(rate, x) == [previous |-> x, phase |-> rate, rate |-> rate, primed |-> TRUE]

Due(s) == s.phase <= VM_AUDIO_RATE

Advance(s, rate) == [s EXCEPT !.phase = @ + rate]

Finish(s, x) == [s EXCEPT !.phase = @ - VM_AUDIO_RATE, !.previous = x]

-----------------------------------------------------------------------------
\* The emulator thread: vm_audio_buffer_active.

\* The emulator is outside put, get and discard.
GuestFree == pbPut = "idle" /\ micGet.pc = "idle"

\* Nothing happens unless the state changes.  The producer's resampler and
\* the capture state are cleared and the microphone queue is discarded.
ActiveCall ==
    /\ guest.pc = "idle" /\ GuestFree /\ EpochLeft
    /\ Microphone!DiscardBegin
    /\ guest' = [guest EXCEPT !.pc = "bump", !.output = NoResampler, !.capture = NoCapture]
    /\ UNCHANGED <<pbvars, shared, render, tap, main, boundary>>

ActiveBump ==
    /\ guest.pc = "bump" /\ GuestFree /\ EpochLeft
    /\ epoch' = epoch + 1
    /\ boundary' = epoch + 1
    /\ guest' = [guest EXCEPT !.pc = "active"]
    /\ UNCHANGED <<pbvars, micvars, active, host_running, microphone_enabled, render, tap, main>>

ActiveStore ==
    /\ guest.pc = "active"
    /\ active' = ~active
    /\ guest' = [guest EXCEPT !.pc = "idle"]
    /\ UNCHANGED <<pbvars, micvars, epoch, host_running, microphone_enabled, render, tap, main, boundary>>

-----------------------------------------------------------------------------
\* The emulator thread: vm_audio_guest_frame, called by the sound device.

\* A callback returns; its parameters are gone.
Return(thread) == [thread EXCEPT !.pc = "idle", !.rate = 0]

\* Mutant: the capture keeps the queue and its pair of frames over a new epoch.
GuestFrameKeepsCapture(direction, rate) ==
    /\ guest.pc = "idle" /\ GuestFree
    /\ guest' = [guest EXCEPT !.pc = direction, !.rate = rate, !.epoch = epoch,
                              !.output = IF epoch # guest.epoch THEN NoResampler ELSE @]
    /\ UNCHANGED <<pbvars, micvars, shared, render, tap, main, boundary>>

\* A new epoch clears the resampler and the capture state and discards the
\* microphone queue.
GuestFrame(direction, rate) ==
    /\ guest.pc = "idle" /\ GuestFree
    /\ IF epoch # guest.epoch
       THEN /\ Microphone!DiscardBegin
            /\ guest' = [pc |-> direction, rate |-> rate, epoch |-> epoch,
                         output |-> NoResampler, capture |-> NoCapture]
       ELSE /\ guest' = [guest EXCEPT !.pc = direction, !.rate = rate]
            /\ UNCHANGED micvars
    /\ UNCHANGED <<pbvars, shared, render, tap, main, boundary>>

\* Sound goes nowhere and silence comes back unless both sides are running.
GuestChecks ==
    /\ guest.pc \in {"out", "in"} /\ GuestFree
    /\ guest' = IF ~active \/ ~host_running THEN Return(guest)
                ELSE [guest EXCEPT !.pc = IF @ = "out" THEN "resample" ELSE "microphone"]
    /\ UNCHANGED <<pbvars, micvars, shared, render, tap, main, boundary>>

\* resample into the playback queue: one frame per step while one is due.
GuestPut ==
    /\ guest.pc = "resample" /\ GuestFree /\ RateLegal(guest.rate)
    /\ IF Priming(guest.output, guest.rate)
       THEN /\ Playback!PutBegin(guest.epoch)
            /\ guest' = [Return(guest) EXCEPT !.output = Prime(guest.rate, guest.epoch)]
       ELSE /\ Due(guest.output)
            /\ Playback!PutBegin(Mix(guest.output.previous, guest.epoch))
            /\ guest' = [guest EXCEPT !.output = Advance(@, guest.rate)]
    /\ UNCHANGED <<micvars, shared, render, tap, main, boundary>>

GuestPutDone ==
    /\ guest.pc = "resample" /\ GuestFree
    /\ \/ /\ ~RateLegal(guest.rate)
          /\ guest' = Return(guest)
       \/ /\ RateLegal(guest.rate) /\ ~Priming(guest.output, guest.rate) /\ ~Due(guest.output)
          /\ guest' = [Return(guest) EXCEPT !.output = Finish(@, guest.epoch)]
    /\ UNCHANGED <<pbvars, micvars, shared, render, tap, main, boundary>>

\* Capture: without a microphone, or at an illegal rate, what is queued is
\* discarded and the guest hears silence.
CaptureLegal == microphone_enabled /\ guest.rate \in LowRate..CaptureHigh

CaptureOff ==
    /\ guest.pc = "microphone" /\ ~CaptureLegal
    /\ Microphone!DiscardBegin
    /\ guest' = [Return(guest) EXCEPT !.capture = NoCapture]
    /\ UNCHANGED <<pbvars, shared, render, tap, main, boundary>>

\* A primed capture of the same rate yields a sound; otherwise it is primed
\* first, with two frames.
CaptureOn ==
    /\ guest.pc = "microphone" /\ CaptureLegal
    /\ LET primed == guest.capture.primed /\ guest.rate = guest.capture.rate
       IN  guest' = [guest EXCEPT !.pc = IF primed THEN "sound" ELSE "first",
                                  !.capture = IF primed THEN @ ELSE [NoCapture EXCEPT !.rate = guest.rate]]
    /\ UNCHANGED <<pbvars, micvars, shared, render, tap, main, boundary>>

CaptureGet ==
    /\ guest.pc \in {"first", "second", "next"}
    /\ Microphone!GetBegin
    /\ guest' = [guest EXCEPT !.pc = CASE @ = "first" -> "gotFirst"
                                       [] @ = "second" -> "gotSecond"
                                       [] @ = "next" -> "gotNext"]
    /\ UNCHANGED <<pbvars, shared, render, tap, main, boundary>>

\* If the second frame is missing the first is lost; if the next one is
\* missing the capture has to be primed again.
CaptureGot ==
    /\ GuestFree /\ Microphone!GetUsed
    /\ LET x == micGet.x
           c == guest.capture
           both == c.a # Silence /\ x # Silence
       IN  \/ /\ guest.pc = "gotFirst"
              /\ guest' = [guest EXCEPT !.pc = "second", !.capture.a = x]
           \/ /\ guest.pc = "gotSecond"
              /\ guest' = IF both THEN [guest EXCEPT !.pc = "sound", !.capture = [c EXCEPT !.b = x, !.primed = TRUE]]
                        ELSE [Return(guest) EXCEPT !.capture = NoCapture]
           \/ /\ guest.pc = "gotNext"
              /\ guest' = [guest EXCEPT !.pc = "more",
                                        !.capture = [c EXCEPT !.b = x, !.primed = @ /\ x # Silence]]
    /\ UNCHANGED <<pbvars, shared, render, tap, main, boundary>>

\* The guest hears the frame between a and b; then the pair moves on by as
\* many frames as the phase has passed.
CaptureSound ==
    /\ guest.pc = "sound"
    /\ guest' = [guest EXCEPT !.pc = "more", !.capture.phase = @ + VM_AUDIO_RATE]
    /\ UNCHANGED <<pbvars, micvars, shared, render, tap, main, boundary>>

CaptureMore ==
    /\ guest.pc = "more"
    /\ guest' = IF guest.capture.phase >= guest.rate
                THEN [guest EXCEPT !.pc = "next", !.capture.phase = @ - guest.rate,
                                   !.capture.a = guest.capture.b]
                ELSE [Return(guest) EXCEPT !.capture = IF @.primed THEN @ ELSE NoCapture]
    /\ UNCHANGED <<pbvars, micvars, shared, render, tap, main, boundary>>

Guest ==
    \/ ActiveCall \/ ActiveBump \/ ActiveStore
    \/ \E direction \in use, rate \in Rates : GuestFrame(direction, rate)
    \/ GuestChecks \/ GuestPut \/ GuestPutDone
    \/ CaptureOff \/ CaptureOn \/ CaptureGet \/ CaptureGot \/ CaptureSound \/ CaptureMore
    \/ Playback!PutPublish /\ UNCHANGED <<micvars, shared, guest, render, tap, main, boundary>>
    \/ Microphone!GetStep /\ UNCHANGED <<pbvars, shared, guest, render, tap, main, boundary>>

-----------------------------------------------------------------------------
\* The render callback: vm_audio_render.

\* Mutants: the tail of the last stream survives; the queue survives a new
\* epoch; only a full reserve starts playback.
ResetRenderKeepsTail(r) == [r EXCEPT !.started = FALSE, !.wait = 0]

RenderCallKeepsQueue ==
    /\ "out" \in use
    /\ render.pc = "idle" /\ pbGet.pc = "idle" /\ main.graph
    /\ render' = [render EXCEPT !.pc = "active", !.epoch = epoch]
    /\ UNCHANGED <<pbvars, micvars, shared, guest, tap, main, boundary>>

RenderGateNeedsReserve ==
    /\ render.pc = "frame"
    /\ render' = IF render.started \/ (Playback!Used >= VM_AUDIO_PREFILL /\ render.fade_out = 0)
                 THEN [render EXCEPT !.pc = "get", !.started = TRUE]
                 ELSE [render EXCEPT !.pc = "silent"]
    /\ UNCHANGED <<pbvars, micvars, shared, guest, tap, main, boundary>>

ResetRender(r) == [r EXCEPT !.started = FALSE, !.wait = 0, !.fade_out = 0,
                            !.last = Silence, !.tail = Silence]

\* A new epoch discards what is queued.
RenderCall ==
    /\ "out" \in use
    /\ render.pc = "idle" /\ pbGet.pc = "idle" /\ main.graph
    /\ IF epoch # render.epoch
       THEN /\ Playback!DiscardBegin
            /\ render' = [ResetRender(render) EXCEPT !.pc = "active", !.epoch = epoch]
       ELSE /\ render' = [render EXCEPT !.pc = "active"]
            /\ UNCHANGED pbvars
    /\ UNCHANGED <<micvars, shared, guest, tap, main, boundary>>

RenderActive ==
    /\ render.pc = "active" /\ pbGet.pc = "idle"
    /\ render' = [render EXCEPT !.pc = IF active THEN "running" ELSE "quiet"]
    /\ UNCHANGED <<pbvars, micvars, shared, guest, tap, main, boundary>>

RenderRunning ==
    /\ render.pc = "running"
    /\ render' = [render EXCEPT !.pc = IF host_running THEN "frame" ELSE "quiet"]
    /\ UNCHANGED <<pbvars, micvars, shared, guest, tap, main, boundary>>

\* One of the two sides is not running: everything queued is discarded.
RenderQuiet ==
    /\ render.pc = "quiet"
    /\ Playback!DiscardBegin
    /\ render' = [ResetRender(render) EXCEPT !.pc = "idle"]
    /\ UNCHANGED <<micvars, shared, guest, tap, main, boundary>>

\* Whether playback starts: with a reserve, or when the frames queued have
\* waited as long as gathering the reserve takes.
RenderGate ==
    /\ render.pc = "frame"
    /\ LET available == Playback!Used
           wait == IF available > 0 /\ render.wait < VM_AUDIO_PREFILL THEN render.wait + 1 ELSE render.wait
           starts == /\ render.fade_out = 0 /\ available > 0
                     /\ available >= VM_AUDIO_PREFILL \/ wait >= VM_AUDIO_PREFILL
       IN  render' = IF render.started THEN [render EXCEPT !.pc = "get"]
                     ELSE IF starts THEN [render EXCEPT !.pc = "get", !.started = TRUE, !.wait = 0]
                     ELSE [render EXCEPT !.pc = "silent", !.wait = wait]
    /\ UNCHANGED <<pbvars, micvars, shared, guest, tap, main, boundary>>

RenderGet ==
    /\ render.pc = "get"
    /\ Playback!GetBegin
    /\ render' = [render EXCEPT !.pc = "got"]
    /\ UNCHANGED <<micvars, shared, guest, tap, main, boundary>>

\* Mutant: the fade counter is taken down whether a fade is on or not.
OutputUnderflows(r, x) ==
    [r EXCEPT !.last = IF r.fade_out = 0 THEN x ELSE r.tail, !.fade_out = @ - 1]

\* What the speaker gets: the frame, silence, or the fading last frame of a
\* stream that ran dry.  The callback goes on or returns.
Output(r, x) ==
    LET fade == r.fade_out - 1
        y == IF r.fade_out = 0 THEN x ELSE IF fade = 0 THEN Silence ELSE r.tail
    IN  [r EXCEPT !.last = y, !.fade_out = IF r.fade_out = 0 THEN 0 ELSE fade,
                  !.tail = IF fade > 0 THEN @ ELSE Silence]

RenderOut ==
    /\ render.pc \in {"got", "silent"} /\ Playback!GetUsed
    /\ \E pc \in {"frame", "idle"} :
         render' = IF render.pc = "silent" THEN [Output(render, Silence) EXCEPT !.pc = pc]
                   ELSE IF pbGet.x # Silence THEN [Output(render, pbGet.x) EXCEPT !.pc = pc]
                   ELSE [Output([render EXCEPT !.started = FALSE, !.fade_out = VM_AUDIO_FADE,
                                               !.tail = render.last], Silence) EXCEPT !.pc = pc]
    /\ UNCHANGED <<micvars, shared, guest, tap, main, boundary>>

PlaybackGet == Playback!GetStep /\ UNCHANGED <<micvars, shared, guest, render, tap, main, boundary>>

Render == RenderCall \/ RenderActive \/ RenderRunning \/ RenderQuiet \/ RenderGate
          \/ RenderGet \/ RenderOut  \/ PlaybackGet

-----------------------------------------------------------------------------
\* The microphone tap: vm_audio_microphone.

TapCall(n, rate) ==
    /\ "in" \in use
    /\ tap.pc = "idle" /\ micPut = "idle" /\ main.graph /\ main.tapped
    /\ tap' = [tap EXCEPT !.pc = "active", !.rate = rate, !.left = n,
                          !.input = IF epoch # tap.epoch THEN NoResampler ELSE @,
                          !.epoch = epoch]
    /\ UNCHANGED <<pbvars, micvars, shared, guest, render, main, boundary>>

TapActive ==
    /\ tap.pc = "active"
    /\ tap' = IF active THEN [tap EXCEPT !.pc = "enabled"] ELSE [Return(tap) EXCEPT !.left = 0]
    /\ UNCHANGED <<pbvars, micvars, shared, guest, render, main, boundary>>

TapEnabled ==
    /\ tap.pc = "enabled"
    /\ tap' = IF microphone_enabled THEN [tap EXCEPT !.pc = "resample"]
                                     ELSE [Return(tap) EXCEPT !.left = 0]
    /\ UNCHANGED <<pbvars, micvars, shared, guest, render, main, boundary>>

\* resample into the microphone queue, for every frame of the callback.
TapPut ==
    /\ tap.pc = "resample" /\ micPut = "idle"
    /\ tap.left > 0 /\ RateLegal(tap.rate)
    /\ IF Priming(tap.input, tap.rate)
       THEN /\ Microphone!PutBegin(tap.epoch)
            /\ tap' = [tap EXCEPT !.left = @ - 1, !.input = Prime(tap.rate, tap.epoch)]
       ELSE /\ Due(tap.input)
            /\ Microphone!PutBegin(Mix(tap.input.previous, tap.epoch))
            /\ tap' = [tap EXCEPT !.input = Advance(@, tap.rate)]
    /\ UNCHANGED <<pbvars, shared, guest, render, main, boundary>>

TapFrameDone ==
    /\ tap.pc = "resample" /\ micPut = "idle"
    /\ \/ /\ tap.left = 0
          /\ tap' = Return(tap)
       \/ /\ tap.left > 0 /\ ~RateLegal(tap.rate)
          /\ tap' = [tap EXCEPT !.left = @ - 1]
       \/ /\ tap.left > 0 /\ RateLegal(tap.rate)
          /\ ~Priming(tap.input, tap.rate) /\ ~Due(tap.input)
          /\ tap' = [tap EXCEPT !.left = @ - 1, !.input = Finish(@, tap.epoch)]
    /\ UNCHANGED <<pbvars, micvars, shared, guest, render, main, boundary>>

Tap == \/ \E n \in 1..TapFrames, rate \in Rates : TapCall(n, rate)
       \/ TapActive \/ TapEnabled \/ TapPut \/ TapFrameDone
       \/ Microphone!PutPublish /\ UNCHANGED <<pbvars, shared, guest, render, tap, main, boundary>>

-----------------------------------------------------------------------------
\* The main thread: rebuild, which always begins with stopGraph.

StopHost ==
    /\ main.pc = "idle" /\ EpochLeft
    /\ host_running' = FALSE
    /\ main' = [main EXCEPT !.pc = "mic"]
    /\ UNCHANGED <<pbvars, micvars, epoch, active, microphone_enabled, guest, render, tap, boundary>>

StopMicrophone ==
    /\ main.pc = "mic"
    /\ microphone_enabled' = FALSE
    /\ main' = [main EXCEPT !.pc = "bump"]
    /\ UNCHANGED <<pbvars, micvars, epoch, active, host_running, guest, render, tap, boundary>>

StopBump ==
    /\ main.pc = "bump" /\ EpochLeft
    /\ epoch' = epoch + 1
    /\ main' = [main EXCEPT !.pc = "stop"]
    /\ UNCHANGED <<pbvars, micvars, active, host_running, microphone_enabled, guest, render, tap, boundary>>

\* The engine is stopped and its tap removed.  rebuild ends here when the
\* audio is paused or the session is not available.
StopEngine ==
    /\ main.pc = "stop"
    /\ \E pc \in {"idle", "start"} : main' = [pc |-> pc, graph |-> FALSE, tapped |-> FALSE]
    /\ UNCHANGED <<pbvars, micvars, shared, guest, render, tap, boundary>>

\* A new engine, with a tap if the guest records; if it does not start the
\* graph is torn down again.  No callback of the old engine is still running
\* when the new one calls its own.
StartEngine(tapped) ==
    /\ main.pc = "start"
    /\ render.pc = "idle" /\ pbGet.pc = "idle" /\ tap.pc = "idle" /\ micPut = "idle"
    /\ \/ main' = [pc |-> "storeMic", graph |-> TRUE, tapped |-> tapped]
       \/ EpochLeft /\ main' = [pc |-> "mic", graph |-> FALSE, tapped |-> tapped]
    /\ UNCHANGED <<pbvars, micvars, shared, guest, render, tap, boundary>>

StoreMicrophone ==
    /\ main.pc = "storeMic"
    /\ microphone_enabled' = main.tapped
    /\ main' = [main EXCEPT !.pc = "storeHost"]
    /\ UNCHANGED <<pbvars, micvars, epoch, active, host_running, guest, render, tap, boundary>>

StoreHost ==
    /\ main.pc = "storeHost"
    /\ host_running' = TRUE
    /\ main' = [main EXCEPT !.pc = "idle"]
    /\ UNCHANGED <<pbvars, micvars, epoch, active, microphone_enabled, guest, render, tap, boundary>>

Main == StopHost \/ StopMicrophone \/ StopBump \/ StopEngine
        \/ (\E tapped \in {FALSE, "in" \in use} : StartEngine(tapped)) \/ StoreMicrophone \/ StoreHost

Next ==
    /\ Guest \/ Render \/ Tap \/ Main
    /\ UNCHANGED use

\* The audio system calls the render block again and again while the engine
\* runs, and a callback once started is never held up by another thread.
Spec == Init /\ [][Next]_vars /\ WF_vars(Render /\ UNCHANGED use)

-----------------------------------------------------------------------------
Resampler == [previous : Sample, phase : Nat, rate : Nat, primed : BOOLEAN]

\* Every variable has its type; no thread has seen an epoch that is not there
\* yet, and the counters of the render callback stay within their limits.
TypeOK ==
    /\ Playback!QTypeOK /\ Microphone!QTypeOK
    /\ epoch \in 0..MaxEpoch /\ boundary \in 0..epoch
    /\ {active, host_running, microphone_enabled} \subseteq BOOLEAN
    /\ guest.output \in Resampler /\ tap.input \in Resampler
    /\ guest.epoch \in 0..epoch /\ render.epoch \in 0..epoch /\ tap.epoch \in 0..epoch
    /\ {guest.capture.a, guest.capture.b, render.last, render.tail} \subseteq Sample
    /\ render.wait \in 0..VM_AUDIO_PREFILL /\ render.fade_out \in 0..VM_AUDIO_FADE
    /\ tap.left \in 0..TapFrames

\* Each queue is a first-in first-out queue to its two threads (put, get and
\* discard of VMAudioBuffer.c), whatever the callers do around it: no frame is
\* overwritten while it is copied, none is played twice or out of order.
PlaybackIsFifo == Playback!ImplementsFifo

\* The same of the microphone queue, which the tap fills and the emulator empties.
MicrophoneIsFifo == Microphone!ImplementsFifo

\* Both directions at once: the two queues refine AudioFifo.
QueuesAreFifo == PlaybackIsFifo /\ MicrophoneIsFifo

\* "queued sound from the old kernel must not cross that boundary"
\* (VMEngine.m): once a render callback has seen the epoch of a pause, a
\* resume or a replaced board, nothing recorded before it is played again,
\* neither a queued frame nor the tail of a fade nor a frame interpolated
\* from an older one.
NoSoundFromBefore ==
    render.epoch >= boundary => render.last = Silence \/ render.last >= boundary

\* Frames of one guest frame: the most the resampler puts for it.
Burst == (VM_AUDIO_RATE + LowRate - 1) \div LowRate

Stale(s, e) == Cardinality({i \in 1..Len(s) : s[i] < e})

\* A graph that is rebuilt while the emulator is inside vm_audio_guest_frame
\* may find sound of the old graph in the queue after its discard, but only
\* what that one call was about to put.
LateSoundIsOneFrame ==
    pbGet.pc # "discard" => Stale(Playback!Items, render.epoch) <= Burst

\* The same towards the guest: after the guest has seen a new epoch, what it
\* can still hear of an earlier recording is what the tap callback that was
\* running then goes on to deliver.
LateRecordingIsOneTap ==
    LET held == IF guest.capture.primed THEN <<guest.capture.a, guest.capture.b>> ELSE <<>>
    IN  micGet.pc # "discard" =>
          Stale(Microphone!Items \o SelectSeq(held, LAMBDA x : x # Silence), guest.epoch)
              <= TapFrames * Burst

\* What crosses an epoch is bounded by the one call that was under way, in both
\* directions, with the counters of the callbacks in range.
LateIsBounded == TypeOK /\ LateSoundIsOneFrame /\ LateRecordingIsOneTap

\* Both sides of the playback queue are at work.
Running == active /\ host_running /\ main.graph /\ "out" \in use

\* "A shorter clip is released after at most this much render time"
\* (VMAudioBuffer.h): the oldest frame leaves the playback queue, even if
\* the reserve is never gathered, as long as both sides keep running.
OldestFrameLeaves ==
    <>[](Running /\ Playback!Used > 0) => []<><<pb.read' # pb.read>>_vars
=============================================================================
