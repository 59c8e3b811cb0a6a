SPECIFICATION Spec
CONSTANTS
  Tasks = {t1, t2, t3, t4}
  Times = {1, 2, 3, 5}
PROPERTY IsAlarms
