SPECIFICATION Spec
CONSTANTS
  VM_TOUCH_QUEUE_CAP = 2
  VM_BUTTON_QUEUE_CAP = 2
  Momentary = {"MENU", "HOLD"}
  DRAG_STEPS = 1
  RingerSettings = {TRUE}
  MaxEvents = 4
  GestureCost = 2
INVARIANTS InputAccounted QuietSave
PROPERTIES PulseIsHeld EdgesInOrder QueuesDrain
CHECK_DEADLOCK FALSE
