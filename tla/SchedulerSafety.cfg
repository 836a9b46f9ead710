SPECIFICATION FairSpec
CONSTANTS
  t1 = t1
  t2 = t2
  t3 = t3
  t4 = t4
  Task = {t1, t2, t3, t4}
  NoTask = NoTask
  Boot = Boot
  Creators = {Boot, t1, t2}
  Exiters = {t2, t3}
  MaxTaskCount = 3
  LastSlot = 4
INVARIANTS TypeOK Coherence ContextIntegrity OneRunning PreparedOnce DeletionSafe
PROPERTIES NoResurrection ImplementsVirtualCpus NoStarvation ZombiesLeave
