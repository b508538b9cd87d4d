SPECIFICATION GpioSpec
CONSTANTS
  Ports <- SmallPorts
  Values <- SomeValues
  Wirings <- OneHigh
INVARIANT
  ReservedClear
PROPERTIES
  PinsAsTold
