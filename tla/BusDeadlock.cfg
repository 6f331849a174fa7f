SPECIFICATION Spec
CONSTANTS
    fdc = fdc
    psg = psg
    free = free
    spare = spare
    Ports = {fdc, psg, free, spare}
    Guest <- MCGuest
    MaxPerPort = 2
    MaxDevices = 4
    Inis <- MCInis
    MaxPresses = 2
    ReadFifo = 4
    WriteFifo = 4
INVARIANT NoLockoutDeadlock
CHECK_DEADLOCK FALSE
