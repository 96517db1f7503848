SPECIFICATION AllSpec
CONSTANTS
  Components = {"builder"}
  None = None
  UnderWay = UnderWay
  Bad = Bad
PROPERTIES EditsMadeMeanwhileStay
CHECK_DEADLOCK FALSE
