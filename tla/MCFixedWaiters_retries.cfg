SPECIFICATION RunSpec
CONSTANTS
  Tasks = {t1, t2, t3}
  Slots = {s1}
  None = None
PROPERTIES RetriesEnd
