CONSTANTS
  Sigs = {s1, s2}
  MaxCalls = 2
SPECIFICATION FairSpec
INVARIANTS AnswerIsMine PageExclusive InterruptIsMine NoLostWakeup NoSignalLost SignalBeforeAnswer
PROPERTIES CallImplemented SignalInterrupts ContResumes
