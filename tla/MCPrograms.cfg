SPECIFICATION ProgramsSpec
CONSTANTS
  Threads = {"t1", "t2"}
  Operations = {"push", "clear", "drop", "flush", "window", "reset"}
  Windows = {1}
  Misuses = {}
  MaxPermits = 1
  MaxPushes = 2
  MaxCalls = 2
  ScriptSetup <- MCScript
  ScriptFaultsSetup <- MCScriptFaults
  TaskSetup <- MCTask
  TaskFaultsSetup <- MCTaskFaults
  QuitSetup <- MCQuit
  AutoSetup <- MCAuto
  VpuSetup <- MCVpu
  VpuDecoderSetup <- MCVpuDecoder
  VpuFaultsSetup <- MCVpuFaults
  LoneSetup <- MCLone
  AudioSetup <- MCAudio
  LoneThread = "t1"
  ThreadNumber = 6
INVARIANTS
  ProgramsTypeOK
  IndexListGuarded
  ScriptsRunAsWritten
  TestsRunAndEnd
  AudioInOrder
PROPERTIES
  ProgramsEnd
CHECK_DEADLOCK FALSE
