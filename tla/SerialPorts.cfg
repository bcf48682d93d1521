SPECIFICATION Spec
CONSTANTS
    usb = usb
    rs232 = rs232
    Port = {usb, rs232}
    Usb = {usb}
    PollPorts = {rs232}
    RestPorts = {usb}
    SlowChildren = TRUE
    MaxChanges = 3
INVARIANT PortsServed
INVARIANT PollingHasTimer
PROPERTY InstrumentIsFound
PROPERTY GoneIsRemoved
CHECK_DEADLOCK FALSE
