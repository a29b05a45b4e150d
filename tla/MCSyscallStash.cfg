SPECIFICATION Spec
CONSTANTS
  t1 = t1  t2 = t2
  cpu0 = cpu0  cpu1 = cpu1
  Tasks = {t1, t2}
  CPUs = {cpu0, cpu1}
  NoCPU = NoCPU
  Calls = {"setuid", "setgid", "setns", "finit_module"}
  Values = {0, 1}
  Zero = 0
  NoArg = NoArg
  RingSize = 1
  MaxCalls = 3
SYMMETRY Symmetric
INVARIANTS
  UninterruptedIsOwn
  LossIsCounted
