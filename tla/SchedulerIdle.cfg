SPECIFICATION FairSpec
CONSTANTS
  t1 = t1
  t2 = t2
  t3 = t3
  t4 = t4
  Task = {t1, t2, t3}
  NoTask = NoTask
  Boot = Boot
  Creators = {Boot, t1}
  Exiters = {t2}
  MaxTaskCount = 4
  LastSlot = 3
PROPERTIES IdleTaskComesBack
