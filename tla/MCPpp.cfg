SPECIFICATION FairSpec
CONSTANTS
  LcpMaxConfigure = 1
  IpcpMaxConfigure = 0
  MaxTerminate = 1
  MaxNakLoops = 1
  IdMod = 2
  DefaultMru = 2
  LinkMru = 1
  OurMagic = 3
  AskDns = TRUE
  LcpOptions <- LcpVaried
  IpcpOptions <- IpcpVaried
INVARIANTS
  TypeOK
  TimerArmed
  NeverStuck
  RequestBound
  IpOverOpenLcp
  UpOnce
  UpIsSound
  QuietAfterClose
  RequestInUse
PROPERTIES
  OnlyForward
  Decides
  CloseEnds
