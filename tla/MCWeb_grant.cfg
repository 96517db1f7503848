SPECIFICATION AllSpec
CONSTANTS
  Components = {"userlist"}
  None = None
  UnderWay = UnderWay
  Bad = Bad
INVARIANTS RetriedConfirmIsOneGrant
CHECK_DEADLOCK FALSE
