CONSTANTS
  None = None
  MaxPrefix <- PrefixDef
  DEC_DIGITS = 2
  DefaultPrec = 5
  WordBits <- Words
  FracDigits = 2
  MinuteSecs = 2
  HourMins = 2
  DayHours = 2
  MinDay <- MinDayDef
  MaxDay = 2
  MinTooSmall <- MinTooSmallDef
  MaxDeltaDays = 760
  FloatBits = 8
  FloatScale = 14
SPECIFICATION Spec
INVARIANTS ValuesSurvive ContainersSurvive QueriesAgree AdaptersAgree
