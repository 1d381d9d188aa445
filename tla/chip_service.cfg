CONSTANTS
  TIMER1 = TIMER1
  RTC1 = RTC1
  GPIOTE = GPIOTE
  TIMER0 = TIMER0
  UART0 = UART0
  POWER_CLOCK = POWER_CLOCK
  NoLine = NoLine
  Lines <- MC_Lines
  Dispatched <- MC_Dispatched
  Enabled <- MC_Enabled
  IQ_SIZE <- MC_IQ_SIZE
SPECIFICATION Spec
INVARIANTS TypeOK LineDiscipline
PROPERTIES ServiceRefinement
CHECK_DEADLOCK FALSE
