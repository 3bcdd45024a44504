SPECIFICATION Spec
CONSTANTS
  s1 = s1
  s2 = s2
  laptop = laptop
  NoSocket = NoSocket
  Sockets <- MCSockets
  Devices <- MCDevices
  DeviceOf <- MCDeviceOf
  Tasks = {t1, t2}
  MaxLogins = 1
INVARIANTS
  NoGhostPresence
SYMMETRY Symmetry
CHECK_DEADLOCK FALSE
