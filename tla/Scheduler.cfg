SPECIFICATION FairSpec
CONSTANTS
  Machines = {1, 2}
  Workers = {w1}
  RetryTimes = 1
  SilentPeers = {}
  None = None
INVARIANTS DrainedBeforeExit LoopDiesOnlyOnStop
PROPERTIES StoppedIsQuiet GracefulExit EnabledMachineServed DisabledGoesQuiet
