SPECIFICATION FairSpec
CONSTANTS
  s1 = s1
  s2 = s1
  laptop = laptop
  NoSocket = NoSocket
  Sockets <- MCSockets
  Devices <- MCDevices
  DeviceOf <- MCDeviceOf
  Tasks = {t1, t2}
  MaxLogins = 1
PROPERTIES
  ConnectedIsSeen
  ExpiredSocketIsDropped
CHECK_DEADLOCK FALSE
