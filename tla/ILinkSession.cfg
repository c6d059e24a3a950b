SPECIFICATION Spec
CONSTANTS
  Handler = {primary, secondary}
  NoHandler = NoHandler
  MaxDisconnect = 1
  MaxLogin = 2
  MaxEvent = 1
INVARIANT SessionInv
PROPERTIES LoginReported SilenceEnds
CHECK_DEADLOCK FALSE
