SPECIFICATION Spec
CONSTANTS
  UsedStages = {"listening", "tts_speaking"}
  News = {"volume_changed", "timer_ticking", "timer_ringing"}
  MaxEvents = 2
INVARIANTS TypeOK RingTold RingShows
PROPERTIES RingSettles
