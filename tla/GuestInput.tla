----------------------------- MODULE GuestInput -----------------------------
(* How a finger and five keys reach the guest, and how they are let go again *)
(* (app/Sources/VMTouchQueue.c, VMButtonQueue.c, VMGuestShutdown.c and the   *)
(* input part of VMEngine.m; core/src/soc/buttons.c, mtz2.c, machine.c).     *)
(*                                                                           *)
(* The user interface thread queues reports and transitions under the        *)
(* engine's lock.  The engine thread drains one of each between two chunks   *)
(* of guest execution, cancels and releases everything before it saves a     *)
(* checkpoint, and plays the power-off gesture through the same queues.  The *)
(* controller holds one unread report; the board refuses a transition on a   *)
(* line whose last one the guest has not serviced.  The guest is external.   *)
(*                                                                           *)
(* Host and guest clocks are choices: a key's minimum hold is "young" until  *)
(* Age, every wait of the gesture and every time limit may end at any turn.  *)
(* The Home, volume and Power keys are momentary; the ringer is a slider     *)
(* with two positions.                                                       *)
EXTENDS TouchQueue, FiniteSets

CONSTANTS
  VM_BUTTON_QUEUE_CAP,
  Momentary,       \* the momentary keys of the instance
  DRAG_STEPS,      \* moves of the power-off drag: 20 in the code
  RingerSettings,  \* the saved positions of the slider the run starts from
  MaxEvents,       \* bound: inputs and requests of the user, faults of the guest
  GestureCost      \* bound: as how many events a shutdown request counts

ASSUME InputAssumption ==
  /\ VM_BUTTON_QUEUE_CAP \in Nat \ {0, 1}
  /\ {"MENU", "HOLD"} \subseteq Momentary
  /\ Momentary \subseteq {"MENU", "VOLUP", "VOLDOWN", "HOLD"}
  /\ DRAG_STEPS \in Nat \ {0}
  /\ RingerSettings \in (SUBSET BOOLEAN) \ {{}}
  /\ MaxEvents \in Nat /\ GestureCost \in Nat

Buttons == Momentary \cup {"RINGERAB"}

VARIABLES
  life,     \* _state: "running", "checkpoint" or "saved" (stopped, on disk)
  prepared, \* checkpointInputPrepared
  shut,     \* the shutdown request and its gesture
  touch,    \* _touch: the queue of reports
  active,   \* _touchDelivery.active: an accepted finger has not been lifted
  keys,     \* _buttonQueue: the queue of transitions
  hold,     \* _momentaryHolds and _powerHold: the age of each accepted press
  shown,    \* _buttons, momentary keys: what the control bar draws as held
  silent,   \* _buttons[VMButtonRingerSilent], also the saved setting
  z2,       \* the touch controller: may it report, its report, its interrupt
  board,    \* s5l_buttons_t and its interrupt lines
  power,    \* the PMU: "on", "asleep" (hibernation) or "off" (standby)
  finger,   \* external: the guest believes a finger is down
  user,     \* external: what the person in front of the screen is doing
  lost      \* history: what no one is going to release any more

vars == <<life, prepared, shut, touch, active, keys, hold, shown, silent, z2,
          board, power, finger, user, lost>>

Phases == {"WAKE", "HOME_HELD", "WAKE_WAIT", "POWER_START", "POWER_HELD",
           "SLIDER_WAIT", "DRAG_BEGIN", "DRAGGING", "DRAG_RELEASE",
           "POWER_OFF_WAIT"}
Acts == {"NONE", "HOME_DOWN", "HOME_UP", "POWER_DOWN", "POWER_UP",
         "TOUCH_DOWN", "TOUCH_MOVE", "TOUCH_UP", "COMPLETE", "TIMEOUT"}
NoShutdown == [at |-> "none", quiescent |-> FALSE, phase |-> "WAKE",
               step |-> 0, act |-> "NONE"]

Event(which, pressed) == [which |-> which, pressed |-> pressed]
Releases(q, k) == \E i \in DOMAIN q : q[i] = Event(k, FALSE)

(* A level-sensitive line with automatic polarity flip: it asserts while the *)
(* wire differs from the level the guest last serviced.                      *)
s5l_gpioic_pending(b, k) == b.armed /\ b.held[k] # b.serviced[k]

s5l_mtz2_irq == z2.report # "none"

Init ==
  /\ life = "running" /\ prepared = FALSE /\ shut = NoShutdown
  /\ touch = <<>> /\ active = FALSE /\ keys = <<>>
  /\ hold = [k \in Momentary |-> "none"] /\ shown = {} /\ silent \in RingerSettings
  /\ z2 = [ready |-> FALSE, report |-> "none", pending |-> FALSE]
  /\ board = [held |-> [k \in Buttons |-> FALSE],
              serviced |-> [k \in Buttons |-> FALSE],
              armed |-> FALSE, wakeUnread |-> FALSE]
  /\ power = "on" /\ finger = FALSE
  /\ user = [finger |-> FALSE, keys |-> {}, events |-> 0]
  /\ lost = [keys |-> {}, lift |-> FALSE]

\* Every variable has its type; neither queue ever holds more than its size.
TypeOK ==
  /\ life \in {"running", "checkpoint", "saved"} /\ prepared \in BOOLEAN
  /\ shut \in [at : {"none", "requested", "step", "act"},
               quiescent : BOOLEAN, phase : Phases, step : 0 .. DRAG_STEPS,
               act : Acts]
  /\ touch \in Seq(TouchPhase) /\ Len(touch) <= VM_TOUCH_QUEUE_CAP
  /\ active \in BOOLEAN
  /\ keys \in Seq([which : Buttons, pressed : BOOLEAN])
  /\ Len(keys) <= VM_BUTTON_QUEUE_CAP
  /\ hold \in [Momentary -> {"none", "young", "old"}]
  /\ shown \subseteq Momentary /\ silent \in BOOLEAN
  /\ z2 \in [ready : BOOLEAN, report : TouchPhase \cup {"none"}, pending : BOOLEAN]
  /\ board \in [held : [Buttons -> BOOLEAN], serviced : [Buttons -> BOOLEAN],
                armed : BOOLEAN, wakeUnread : BOOLEAN]
  /\ power \in {"on", "asleep", "off"} /\ finger \in BOOLEAN
  /\ user \in [finger : BOOLEAN, keys : SUBSET Momentary,
               events : 0 .. MaxEvents]
  /\ lost \in [keys : SUBSET Momentary, lift : BOOLEAN]

(* The part of the state that the engine's methods work on, as a record.     *)
Here == [touch |-> touch, active |-> active, keys |-> keys, hold |-> hold,
         shown |-> shown, silent |-> silent, z2 |-> z2, board |-> board,
         power |-> power, lost |-> lost]

Becomes(s) ==
    /\ touch' = s.touch /\ active' = s.active /\ keys' = s.keys
    /\ hold' = s.hold /\ shown' = s.shown /\ silent' = s.silent
    /\ z2' = s.z2 /\ board' = s.board /\ power' = s.power /\ lost' = s.lost

-----------------------------------------------------------------------------
(* THE TWO WAYS IN: setButton:pressed: and sendTouchAtGuestX:y:phase:.       *)

(* A full queue takes nothing: a key has no transition that a later one      *)
(* supersedes.                                                               *)
vm_button_queue_push(q, e) ==
    IF Len(q) < VM_BUTTON_QUEUE_CAP THEN Append(q, e) ELSE q

HasRoom(q) == Len(q) < VM_BUTTON_QUEUE_CAP

(* A release that finds the queue full is lost.                              *)
Taken(s) == life = "running" /\ HasRoom(s.keys)

(* A key or the slider, queued only while the machine runs and only if there *)
(* is room; what the control bar draws follows what was queued.              *)
setButton(s, k, pressed) ==
    IF Taken(s)
    THEN [s EXCEPT
            !.keys = vm_button_queue_push(@, Event(k, pressed)),
            !.shown = IF k = "RINGERAB" THEN @
                      ELSE IF pressed THEN @ \cup {k} ELSE @ \ {k},
            !.silent = IF k = "RINGERAB" THEN pressed ELSE @,
            !.lost.keys = IF pressed THEN @ ELSE @ \ {k}]
    ELSE [s EXCEPT !.lost.keys =
            IF life = "running" /\ ~pressed /\ k \in Momentary THEN @ \cup {k} ELSE @]

(* A report of the finger, queued only while the machine runs.               *)
sendTouch(s, phase) ==
    LET push == vm_touch_queue_push(s.touch, phase)
    IN  IF life = "running"
        THEN [s EXCEPT !.touch = push.queue,
                       !.lost.lift = @ /\ ~(push.taken /\ phase = "break")]
        ELSE s

(* The user: one finger that lands, moves and lifts; keys that go down and   *)
(* up; the slider.  What a screen event does to the queues is what the two   *)
(* methods above do with it.                                                 *)
Finger(phase) ==
    /\ life # "saved"
    /\ user.events < MaxEvents
    /\ user.finger = (phase # "make")
    /\ user' = [user EXCEPT !.finger = phase # "break", !.events = @ + 1]
    /\ Becomes(sendTouch(Here, phase))
    /\ UNCHANGED <<life, prepared, shut, finger>>

Key(k) ==
    /\ life # "saved"
    /\ user.events < MaxEvents
    /\ user' = [user EXCEPT !.keys = IF k \in @ THEN @ \ {k} ELSE @ \cup {k},
                            !.events = @ + 1]
    /\ Becomes(setButton(Here, k, k \notin user.keys))
    /\ UNCHANGED <<life, prepared, shut, finger>>

Slider ==
    /\ life # "saved"
    /\ user.events < MaxEvents
    /\ user' = [user EXCEPT !.events = @ + 1]
    /\ Becomes(setButton(Here, "RINGERAB", ~silent))
    /\ UNCHANGED <<life, prepared, shut, finger>>

(* saveCheckpointAndStop and shutDownAndStop, each refused while the other   *)
(* is under way.                                                             *)
RequestCheckpoint ==
    /\ life = "running" /\ shut.at = "none"
    /\ user.events < MaxEvents
    /\ user' = [user EXCEPT !.events = @ + 1]
    /\ life' = "checkpoint"
    /\ UNCHANGED <<prepared, shut, touch, active, keys, hold, shown, silent,
                   z2, board, power, finger, lost>>

RequestShutdown ==
    /\ life = "running" /\ shut.at = "none"
    /\ user.events + GestureCost <= MaxEvents
    /\ user' = [user EXCEPT !.events = @ + GestureCost]
    /\ shut' = [NoShutdown EXCEPT !.at = "requested"]
    /\ UNCHANGED <<life, prepared, touch, active, keys, hold, shown, silent,
                   z2, board, power, finger, lost>>

-----------------------------------------------------------------------------
(* THE TWO WAYS TO THE GUEST: drainOneTouch and drainOneButton.              *)

(* Mutant: a report the controller is still holding back is thrown away.     *)
drainOneTouchDrops(s) ==
    IF s.touch = <<>> THEN s
    ELSE IF s.z2.ready /\ s.z2.report = "none"
         THEN [s EXCEPT !.touch = Tail(@), !.active = Head(s.touch) # "break",
                        !.z2 = [@ EXCEPT !.report = Head(s.touch), !.pending = TRUE]]
         ELSE [s EXCEPT !.touch = Tail(@)]

(* One report: accepted by a controller that is up and has none; kept while  *)
(* the guest has not read the last one; dropped by a controller that is in   *)
(* reset or has no firmware yet.                                             *)
drainOneTouch(s) ==
    IF s.touch = <<>> \/ s.z2.report # "none" THEN s
    ELSE IF s.z2.ready
         THEN [s EXCEPT !.touch = Tail(@), !.active = Head(s.touch) # "break",
                        !.z2 = [@ EXCEPT !.report = Head(s.touch), !.pending = TRUE]]
         ELSE [s EXCEPT !.touch = Tail(@)]

(* The board's answer to a transition while it is powered: s5l8900_set_button *)
(* and s5l_buttons_set beneath it.                                           *)
Accepts(b, e) ==
    /\ ~(e.which = "HOLD" /\ ~e.pressed /\ b.held["HOLD"] /\ b.wakeUnread)
    /\ \/ b.held[e.which] = e.pressed
       \/ b.armed /\ ~s5l_gpioic_pending(b, e.which)

(* A press that wakes a board that sleeps; any other transition of a board   *)
(* without power is consumed and changes nothing.                            *)
Wakes(s, e) == /\ e.pressed
               /\ \/ e.which = "HOLD"
                  \/ e.which = "MENU" /\ s.power = "asleep"

(* The switches after an accepted transition, and the keys whose release was *)
(* consumed by a board without power.                                        *)
Switched(s, e) ==
    IF s.power = "on" THEN [s EXCEPT !.board.held[e.which] = e.pressed]
    ELSE IF Wakes(s, e)
         THEN [s EXCEPT !.board.held[e.which] = TRUE, !.power = "on",
                        !.board.wakeUnread = @ \/ e.which = "HOLD"]
         ELSE IF ~e.pressed /\ s.board.held[e.which] /\ e.which \in Momentary
              THEN [s EXCEPT !.lost.keys = @ \cup {e.which}]
              ELSE s

(* When the board accepted a press its hold begins, when it accepted the     *)
(* release it ends.  A repeated press of Power starts the hold anew, one of  *)
(* another key does not.                                                     *)
Anchored(h, e) ==
    IF e.which \notin Momentary THEN h
    ELSE [h EXCEPT ![e.which] =
            IF ~e.pressed THEN "none"
            ELSE IF @ # "none" /\ e.which # "HOLD" THEN @ ELSE "young"]

(* Mutant: a release does not wait for the minimum hold of its press.        *)
ReleaseReadyAlways(s, e) == TRUE

(* Mutant: a release waits for its hold to be over, which only it ends.      *)
ReleaseReadyUnheld(s, e) ==
    e.pressed \/ e.which \notin Momentary \/ s.hold[e.which] = "none"

(* vm_button_momentary_release_ready and vm_button_power_release_ready.      *)
ReleaseReady(s, e) ==
    e.pressed \/ e.which \notin Momentary \/ s.hold[e.which] # "young"

vm_button_ringer_reconcile(s) == s.board.held["RINGERAB"] # s.silent

(* One transition: the slider is reconciled when nothing else is queued; a   *)
(* refused transition stays at the head and is tried again.                  *)
drainOneButton(s) ==
    LET q == IF s.keys = <<>> /\ vm_button_ringer_reconcile(s)
             THEN <<Event("RINGERAB", s.silent)>> ELSE s.keys
        t == [s EXCEPT !.keys = q]
    IN  IF q = <<>> THEN s
        ELSE IF ReleaseReady(s, Head(q)) /\ (s.power # "on" \/ Accepts(s.board, Head(q)))
             THEN [Switched(t, Head(q)) EXCEPT !.keys = Tail(@),
                                              !.hold = Anchored(@, Head(q))]
             ELSE t

-----------------------------------------------------------------------------
(* LETTING GO: the quiesce before a checkpoint and before the gesture.       *)

(* beginCheckpointInputQuiesce: what no device has accepted is cancelled.    *)
Cancelled(s) == [s EXCEPT !.touch = <<>>, !.keys = <<>>, !.shown = {}]

(* The held keys, and the first of them in the order they are let go in.     *)
momentary == <<"MENU", "VOLUP", "VOLDOWN", "HOLD">>
HeldKeys(s) == {k \in Momentary : s.board.held[k]}
FirstHeld(s) == momentary[Min({i \in DOMAIN momentary : momentary[i] \in HeldKeys(s)})]

(* Mutant: the slider is left where it is.                                   *)
vm_button_checkpoint_release_keys(s) ==
    IF HeldKeys(s) # {} THEN <<Event(FirstHeld(s), FALSE)>> ELSE <<>>

(* A held key to release, else the slider if it is not where the user put    *)
(* it: no transition or one.                                                 *)
vm_button_checkpoint_release(s) ==
    IF HeldKeys(s) # {} THEN <<Event(FirstHeld(s), FALSE)>>
    ELSE IF vm_button_ringer_reconcile(s) THEN <<Event("RINGERAB", s.silent)>>
    ELSE <<>>

(* The touch half of checkpointInputIsQuiescent: what a turn does, and       *)
(* whether it still waits.                                                   *)
TouchLetGo(s) ==
    IF s.touch # <<>> THEN drainOneTouch(s)
    ELSE IF s.z2.report = "none" /\ s.active
         THEN drainOneTouch([s EXCEPT !.touch = vm_touch_queue_push(@, "break").queue])
         ELSE s
TouchWaits(s) ==
    s.touch # <<>> \/ s.z2.report # "none" \/ s.active \/ s.z2.pending

(* The key half.                                                             *)
KeysLetGo(s) ==
    IF s.keys # <<>> THEN drainOneButton(s)
    ELSE IF vm_button_checkpoint_release(s) # <<>>
         THEN drainOneButton([s EXCEPT !.keys = vm_button_checkpoint_release(s)])
         ELSE s
KeysWait(s) == \/ s.keys # <<>> \/ vm_button_checkpoint_release(s) # <<>>
               \/ \E k \in Buttons : s5l_gpioic_pending(s.board, k)

(* checkpointInputIsQuiescent: one turn, which reports quiet only if it had  *)
(* nothing to do.                                                            *)
Quiet(s) == ~TouchWaits(s) /\ ~KeysWait(s)
Quiesce(s) ==
    IF Quiet(s)
    THEN {[s EXCEPT !.shown = {}, !.hold = [k \in Momentary |-> "none"]]}
    ELSE {KeysLetGo(t) : t \in {TouchLetGo(s)}}

(* What the guest will believe once everything under way has arrived.        *)
WillHoldFinger(s) ==
    IF s.touch # <<>> THEN Last(s.touch) # "break"
    ELSE IF s.z2.report # "none" THEN s.z2.report # "break" ELSE finger

(* History: a quiesce that is given up leaves behind what it cancelled and   *)
(* did not release.                                                          *)
GivenUp(s) ==
    [s EXCEPT
       !.lost.keys = @ \cup {k \in Momentary \ user.keys :
                               s.board.held[k] /\ ~Releases(s.keys, k)},
       !.lost.lift = @ \/ (WillHoldFinger(s) /\ ~user.finger)]

Prepared == IF prepared THEN Here ELSE Cancelled(Here)

(* One turn of the engine while a checkpoint is wanted.  A board without     *)
(* power is saved as it is; otherwise the input must be quiet.  The save may *)
(* succeed, may find a disk operation under way, or fail; a guest that does  *)
(* not take its releases in time fails it too.                               *)
CheckpointTurn(s, ready, outcome) ==
    /\ outcome \in IF ready THEN {"ok", "busy", "error"} ELSE {"busy", "error"}
    /\ \E u \in {IF outcome = "error" THEN GivenUp(s) ELSE s} : Becomes(u)
    /\ life' = CASE outcome = "ok" -> "saved" [] outcome = "busy" -> "checkpoint"
                 [] outcome = "error" -> "running"
    /\ prepared' = (outcome = "busy")
    /\ UNCHANGED <<shut, finger, user>>

Checkpoint ==
    /\ life = "checkpoint"
    /\ \E p \in {Prepared} : \E outcome \in {"ok", "busy", "error"} :
         IF power = "off" THEN CheckpointTurn(p, TRUE, outcome)
         ELSE \E s \in Quiesce(p) : CheckpointTurn(s, Quiet(p), outcome)

(* The machine is opened again from the checkpoint: the host's input state   *)
(* starts empty, the slider from the setting, the guest where it was saved.  *)
Resume ==
    /\ life = "saved"
    /\ life' = "running"
    /\ touch' = <<>> /\ active' = FALSE /\ keys' = <<>> /\ shown' = {}
    /\ hold' = [k \in Momentary |-> "none"]
    /\ lost' = [lost EXCEPT !.keys = IF power = "off"
                   THEN {k \in Momentary : board.held[k]} ELSE @]
    /\ user' = [user EXCEPT !.finger = FALSE, !.keys = {}]
    /\ UNCHANGED <<prepared, shut, silent, z2, board, power, finger>>

-----------------------------------------------------------------------------
(* THE POWER-OFF GESTURE.                                                    *)

(* vm_guest_shutdown_step once the input is idle and no limit has passed:    *)
(* the next phase, the drag step and what is to be done.  over: the wait of  *)
(* this phase has passed; slider: the guest shows its power-off slider.      *)
Stays == [shut EXCEPT !.act = "NONE"]
Goes(phase, act) == [shut EXCEPT !.phase = phase, !.act = act]
PhaseStep(over, slider, held) ==
    CASE shut.phase = "WAKE" -> Goes("HOME_HELD", "HOME_DOWN")
      [] shut.phase = "HOME_HELD" /\ over -> Goes("WAKE_WAIT", "HOME_UP")
      [] shut.phase = "WAKE_WAIT" /\ over -> Goes("POWER_START", "POWER_DOWN")
      [] shut.phase = "POWER_START" /\ held -> Goes("POWER_HELD", "NONE")
      [] shut.phase = "POWER_HELD" /\ (slider \/ over) -> Goes("SLIDER_WAIT", "POWER_UP")
      [] shut.phase = "SLIDER_WAIT" /\ ~held /\ over ->
            Goes(IF slider THEN "DRAG_BEGIN" ELSE "WAKE", "NONE")
      [] shut.phase = "DRAG_BEGIN" ->
            IF slider THEN [Goes("DRAGGING", "TOUCH_DOWN") EXCEPT !.step = 0]
            ELSE Goes("SLIDER_WAIT", "NONE")
      [] shut.phase = "DRAGGING" /\ over ->
            [Goes(IF shut.step + 1 = DRAG_STEPS THEN "DRAG_RELEASE" ELSE "DRAGGING",
                  "TOUCH_MOVE") EXCEPT !.step = @ + 1]
      [] shut.phase = "DRAG_RELEASE" /\ over -> Goes("POWER_OFF_WAIT", "TOUCH_UP")
      [] OTHER -> Stays

Idle(s) == s.touch = <<>> /\ s.keys = <<>> /\ s.z2.report = "none"

vm_guest_shutdown_step(s, quiescent, late, over, slider) ==
    CASE s.power = "off" -> Goes(shut.phase, "COMPLETE")
      [] s.power # "off" /\ late -> Goes(shut.phase, "TIMEOUT")
      [] s.power # "off" /\ ~late /\ quiescent /\ Idle(s) ->
            PhaseStep(over, slider, s.board.held["HOLD"])
      [] OTHER -> Stays

Drained(s) == {drainOneButton(t) : t \in {drainOneTouch(s)}}

(* The first half of a turn of the engine while a shutdown is wanted: cancel *)
(* and quiesce what the user had under way, then decide.  If there is        *)
(* nothing to do the turn drains the queues and is over.                     *)
GestureTurn ==
    /\ life = "running" /\ shut.at \in {"requested", "step"}
    /\ \E begun \in {IF shut.at = "requested" THEN Cancelled(Here) ELSE Here} :
       \E s \in IF shut.quiescent THEN {begun} ELSE Quiesce(begun) :
       \E quiescent \in {shut.quiescent \/ Quiet(begun)} :
       \E late, over, slider \in BOOLEAN :
       \E next \in {vm_guest_shutdown_step(s, quiescent, late, over, slider)} :
          /\ shut' = [next EXCEPT !.quiescent = quiescent,
                        !.at = IF next.act = "NONE" THEN "step" ELSE "act"]
          /\ \E u \in IF next.act = "NONE" THEN Drained(s) ELSE {s} : Becomes(u)
    /\ UNCHANGED <<life, prepared, finger, user>>

Pushed(s) ==
    CASE shut.act = "HOME_DOWN" -> setButton(s, "MENU", TRUE)
      [] shut.act = "HOME_UP" -> setButton(s, "MENU", FALSE)
      [] shut.act = "POWER_DOWN" -> setButton(s, "HOLD", TRUE)
      [] shut.act = "POWER_UP" -> setButton(s, "HOLD", FALSE)
      [] shut.act = "TOUCH_DOWN" -> sendTouch(s, "make")
      [] shut.act = "TOUCH_MOVE" -> sendTouch(s, "move")
      [] shut.act = "TOUCH_UP" -> sendTouch(s, "break")
      [] OTHER -> s
Accepted(s) ==
    CASE shut.act \in {"HOME_DOWN", "HOME_UP", "POWER_DOWN", "POWER_UP"} -> Taken(s)
      [] shut.act = "TOUCH_DOWN" -> vm_touch_queue_push(s.touch, "make").taken
      [] shut.act = "TOUCH_MOVE" -> vm_touch_queue_push(s.touch, "move").taken
      [] shut.act = "TOUCH_UP" -> vm_touch_queue_push(s.touch, "break").taken
      [] OTHER -> FALSE

(* Mutant: a gesture that is given up leaves Power as it is.                 *)
ReleasedHome(s) == sendTouch(setButton(s, "MENU", FALSE), "break")

(* What a gesture that ends early lets go of.                                *)
Released(s) == sendTouch(setButton(setButton(s, "MENU", FALSE), "HOLD", FALSE), "break")

(* The second half: the user may have queued something in between.  A        *)
(* refused step or the time limit ends the request and releases what it may  *)
(* hold; a guest that has powered itself off is saved.                       *)
GestureAct ==
    /\ shut.at = "act"
    /\ \E pushed \in {Pushed(Here)} :
       \E ends \in {shut.act # "COMPLETE" /\ ~Accepted(Here)} :
       \E let \in {IF ends THEN Released(pushed) ELSE pushed} :
       \E left \in {IF ends /\ ~shut.quiescent THEN GivenUp(let) ELSE let} :
          /\ shut' = IF ends \/ shut.act = "COMPLETE" THEN NoShutdown
                     ELSE [shut EXCEPT !.at = "step", !.act = "NONE"]
          /\ life' = IF shut.act = "COMPLETE" THEN "checkpoint" ELSE life
          /\ \E u \in IF shut.act = "COMPLETE" THEN {left} ELSE Drained(left) : Becomes(u)
    /\ UNCHANGED <<prepared, finger, user>>

(* An ordinary turn: a USB client may wake a guest that sleeps with a press  *)
(* and a release of Home, if no key is queued, drawn or held; then one       *)
(* report and one transition.                                                *)
Woken(s) ==
    IF /\ s.power = "asleep" /\ s.keys = <<>>
       /\ \A k \in {"MENU", "HOLD"} : k \notin s.shown /\ ~s.board.held[k]
    THEN [s EXCEPT !.keys = <<Event("MENU", TRUE), Event("MENU", FALSE)>>]
    ELSE s
Drain ==
    /\ life = "running" /\ shut.at = "none"
    /\ \E s \in {Here, Woken(Here)} : \E u \in Drained(s) : Becomes(u)
    /\ UNCHANGED <<life, prepared, shut, finger, user>>

(* A press has been held long enough (host time, the display or retired      *)
(* instructions).                                                            *)
Age(k) ==
    /\ hold[k] = "young"
    /\ hold' = [hold EXCEPT ![k] = "old"]
    /\ UNCHANGED <<life, prepared, shut, touch, active, keys, shown, silent,
                   z2, board, power, finger, user, lost>>

-----------------------------------------------------------------------------
(* THE GUEST (external): its drivers start, read and acknowledge; it may     *)
(* reset its touch controller, sleep, power itself off, or be rebooted by    *)
(* the watchdog.                                                             *)

GuestStep(z, b, p, f, faults) ==
    /\ life # "saved"
    /\ user.events + faults <= MaxEvents
    /\ user' = [user EXCEPT !.events = @ + faults]
    /\ z2' = z /\ board' = b /\ power' = p /\ finger' = f
    /\ UNCHANGED <<life, prepared, shut, touch, active, keys, hold, shown,
                   silent, lost>>

(* Its key driver arms the lines, its touch driver loads the controller.     *)
GuestArms == /\ power = "on" /\ ~board.armed
             /\ GuestStep(z2, [board EXCEPT !.armed = TRUE], power, finger, 0)
GuestBootsTouch == /\ power = "on" /\ ~z2.ready
                   /\ GuestStep([z2 EXCEPT !.ready = TRUE], board, power, finger, 0)

(* It clocks the report out, and acknowledges the interrupt.                 *)
GuestReads == /\ power = "on" /\ z2.report # "none"
              /\ GuestStep([z2 EXCEPT !.report = "none"], board, power,
                           z2.report # "break", 0)
GuestAcks == /\ power = "on" /\ z2.pending
             /\ GuestStep([z2 EXCEPT !.pending = FALSE], board, power, finger, 0)

(* It services a key's line: the polarity flips, the latch clears.           *)
GuestServices(k) ==
    /\ power = "on" /\ s5l_gpioic_pending(board, k)
    /\ GuestStep(z2, [board EXCEPT !.serviced[k] = ~@], power, finger, 0)

(* It reads why it was woken.                                                *)
GuestReadsWake ==
    /\ power = "on" /\ board.wakeUnread
    /\ GuestStep(z2, [board EXCEPT !.wakeUnread = FALSE], power, finger, 0)

(* It takes its touch controller down, as it does before it sleeps; a finger *)
(* it knew of is forgotten, and an unread report with it.                    *)
GuestResetsTouch ==
    /\ power = "on" /\ z2.ready
    /\ GuestStep([z2 EXCEPT !.ready = FALSE, !.report = "none"], board, power, FALSE, 1)
GuestSleeps ==
    /\ power = "on" /\ ~z2.ready
    /\ GuestStep(z2, board, "asleep", finger, 1)

(* It powers itself off, at the end of the gesture or by itself.             *)
GuestPowersOff ==
    /\ power = "on"
    /\ GuestStep([z2 EXCEPT !.ready = FALSE, !.report = "none"], board, "off",
                 FALSE, IF shut.phase = "POWER_OFF_WAIT" THEN 0 ELSE 1)

(* The watchdog replaces the board.                                          *)
Reboot ==
    GuestStep([ready |-> FALSE, report |-> "none", pending |-> FALSE],
              [held |-> [k \in Buttons |-> FALSE],
               serviced |-> [k \in Buttons |-> FALSE],
               armed |-> FALSE, wakeUnread |-> FALSE], "on", FALSE, 1)

-----------------------------------------------------------------------------
UserStep == \/ \E phase \in TouchPhase : Finger(phase)
            \/ \E k \in Momentary : Key(k)
            \/ Slider \/ RequestCheckpoint \/ RequestShutdown \/ Resume
EngineTurn == Checkpoint \/ GestureTurn \/ GestureAct \/ Drain
GuestRuns == GuestArms \/ GuestBootsTouch \/ GuestReads \/ GuestAcks
             \/ (\E k \in Buttons : GuestServices(k)) \/ GuestReadsWake
GuestFault == GuestResetsTouch \/ GuestSleeps \/ GuestPowersOff \/ Reboot
Time == \E k \in Momentary : Age(k)

Next == UserStep \/ EngineTurn \/ GuestRuns \/ GuestFault \/ Time

(* The engine takes its turns, the guest's drivers run while it has power,   *)
(* and time passes.                                                          *)
Spec == /\ Init /\ [][Next]_vars
        /\ WF_vars(EngineTurn) /\ WF_vars(GuestRuns) /\ WF_vars(Time)

-----------------------------------------------------------------------------
(* A saved machine is at rest: no finger, no unread report, no interrupt of  *)
(* either kind, no key held, nothing queued, and the slider where the user   *)
(* put it.  Only a guest that powered itself off is saved as it is.          *)
QuietSave ==
    life = "saved" /\ power # "off" =>
        /\ touch = <<>> /\ keys = <<>> /\ ~active
        /\ z2.report = "none" /\ ~z2.pending /\ ~finger
        /\ \A k \in Momentary : ~board.held[k] /\ hold[k] = "none"
        /\ \A k \in Buttons : ~s5l_gpioic_pending(board, k)
        /\ board.held["RINGERAB"] = silent

(* The gesture has a finger on the screen that it will lift.                 *)
GestureTouches ==
    shut.at # "none" /\
        \/ ~shut.quiescent
        \/ shut.phase \in {"DRAGGING", "DRAG_RELEASE"}
        \/ shut.at = "act" /\ shut.act = "TOUCH_UP"

(* The finger is never left on the guest's screen: if the guest will end up  *)
(* believing one is down, then the user's or the gesture's is, or a quiesce  *)
(* is under way that lifts it.  The two producers, a full queue, a reset of  *)
(* the controller and a reboot included; the exception is a quiesce that was *)
(* given up (README).                                                        *)
FingerAccounted ==
    WillHoldFinger(IF life = "checkpoint" THEN Prepared ELSE Here) =>
        \/ user.finger \/ GestureTouches \/ lost.lift
        \/ life = "checkpoint" /\ (active \/ z2.report # "none")

GestureHolds(k) ==
    shut.at # "none" /\
        \/ ~shut.quiescent
        \/ k = "MENU" /\ (shut.phase = "HOME_HELD" \/ shut.act = "HOME_UP")
        \/ k = "HOLD" /\ (shut.phase \in {"POWER_START", "POWER_HELD"} \/ shut.act = "POWER_UP")

(* A key of a running guest is held only if someone holds it or its release  *)
(* is queued, unless that release was lost to a full queue, a board without  *)
(* power or a quiesce that was given up.                                     *)
KeyAccounted ==
    \A k \in Momentary : power = "on" /\ board.held[k] =>
        \/ k \in user.keys \/ Releases(keys, k) \/ GestureHolds(k)
        \/ life = "checkpoint" \/ k \in lost.keys

(* A finger that has landed can always be lifted: the report that lifts it   *)
(* finds a place in the queue, or the queue already ends with a lift.        *)
LiftHasRoom ==
    touch # <<>> /\ Last(touch) # "break" => ReleaseSpace(touch) >= 1

(* Nothing is left pressed: every finger and key that is down has its         *)
(* release ahead of it, and the release finds its place in the queue.         *)
InputAccounted == TypeOK /\ FingerAccounted /\ KeyAccounted /\ LiftHasRoom

(* The minimum hold: a key goes up on the board only after its press has     *)
(* been held long enough for the guest's debounce to sample it.              *)
PulseIsHeld ==
    [][\A k \in Momentary :
         board.held[k] /\ ~board'.held[k] /\ board'.armed => hold[k] # "young"]_vars

(* The landings and lifts of the finger.                                     *)
Edges(q) == SelectSeq(q, LAMBDA p : ~IsMove(p))

(* Whatever happens to moves, the edges pass through the queue in order:     *)
(* what the user adds goes behind all of them and displaces none, a turn of  *)
(* the engine takes them from the front (one, or two while a shutdown        *)
(* quiesces), and only the start of a quiesce empties the queue.             *)
EdgesInOrder ==
    [][LET e == Edges(touch)
           f == Edges(touch')
           taken == IF user' # user THEN 0 ELSE IF shut.at = "step" THEN 2 ELSE 1
       IN  \/ \E n \in 0 .. taken :
                 /\ n <= Len(e)
                 /\ IsPrefix(SubSeq(e, n + 1, Len(e)), f)
                 /\ Len(f) <= Len(e) - n + 1
           \/ f = <<>> /\ (life = "checkpoint" \/ shut.at = "requested")]_vars

(* While the guest has power, what was queued reaches it or is given up:     *)
(* the queues run empty again and again.                                     *)
QueuesDrain == <>[](power # "on") \/ []<>(touch = <<>> /\ keys = <<>>)
=============================================================================
