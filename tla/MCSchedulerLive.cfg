CONSTANTS
  idle0 = idle0  idle1 = idle1  a = a  b = b
  Tasks = {idle0, idle1, a, b}
  None = None
  NumberOfCores = 2
SPECIFICATION LiveSpec
PROPERTIES MovingTaskArrives PutAsideComeBack
