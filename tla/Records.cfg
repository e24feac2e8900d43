CONSTANTS
  Calls = {c1, c2}
  Kinds = {"rename", "target", "config", "debug"}
  Names = {"lab"}
  Pins = {"pico2"}
  Configs = {"rp2350", "none"}
  Usb = {"pico"}
  DiskFaults = TRUE
  Whole = FALSE
SPECIFICATION Spec
SYMMETRY CallSymmetry
INVARIANTS
  TypeOK
  LastWriteStands
  PinTakesHold
  

  
