CONSTANTS
  Sources = {"prod"}
  Guests = {"prod"}
  TicksPerSecond = 2
  Spacing = 1
  MaxAge = 2
  MaxRead = 1
  Expiry = 3
  GrantAge = 1
  Budget = 1
  Margin = 1
  Openings = {12}
  WindowEnd = 7
  MaxRestarts = 1
  Horizon = 12
SPECIFICATION Spec
INVARIANT SecondReadStartsLater
CHECK_DEADLOCK FALSE
