SPECIFICATION FairSpec
CONSTANTS
  t1 = t1
  t2 = t2
  phone = phone
  Tabs = {t1, t2}
  Devices = {phone}
  DeviceOf <- OneDevice
  Trips = {"a"}
  MaxEndpoints = 2
  MaxRows = 2
  None = None
PROPERTIES LiveRowsAreKept SubmissionsSettle
