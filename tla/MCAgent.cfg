SPECIFICATION HalfSpec
CONSTANTS
  d1 = d1  d2 = d2  cl = cl  Null = Null
  Devices = {d1, d2}
  Clients = {cl}
  MaxEvents = 4
  MaxIndex = 3
  MaxRequests = 2
  BtDevices = {d1, d2}
  Near = {d1}
  Nameless = {d2}
  MaxSwitches = 1
  MaxOthers = 1
  MaxReports = 2
  MaxMail = 1
  MaxPlace = 2
  MaxAsks = 2
INVARIANTS TypeOK ListExact BluetoothTypes ChainsBounded
PROPERTIES IndexNamesDevice ErrorsExplained DeviceAppears ScansGoOn AnswersExplained
CONSTRAINT OneExtra
CHECK_DEADLOCK FALSE
