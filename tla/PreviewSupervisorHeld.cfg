SPECIFICATION PreviewSpec
CONSTANTS
  PreviewCall = {p1, p2, p3}
  NoChild = NoChild
INVARIANT ServingIsHeld
CHECK_DEADLOCK FALSE
