SPECIFICATION SpecHistory
CONSTANTS
  Devices = {1, 2, 3}
  NoDevice = NoDevice
  Paired = {1, 2}
  Legacy = {1}
  Second = 2
  SettingsDelay = 1
  BatteryPeriod = 1
  MaxRequests = 2
  MaxFaults = 1
INVARIANTS EveryFailureDoubles
