SPECIFICATION MCSpec
CONSTANTS
  StartBoxes <- MCStartBoxes
  m1 = m1
  m2 = m2
  m3 = m3
  NewMail = NewMail
  MaxCommands = 5
  MaxFaults = 2
INVARIANT CurrentFolderAgrees
INVARIANT AtMostOneCopy
INVARIANT MoveLosesNothing
INVARIANT QuiescentNotBusy
INVARIANT PrintedLagsByTimeouts
PROPERTY SuccessMeansDone
PROPERTY CommandsAnswered
PROPERTY StopReturns
