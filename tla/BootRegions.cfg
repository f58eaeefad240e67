CONSTANTS
    Fan = 4
    Frames <- Phys
    Pool <- Ram
    Root = Root
    NoFrame = NoFrame
    Wild = Wild
    Leftovers <- NoOld
    PhysBase = 128
    KernelBase = 192
    KernelPages = 2
    MemoryMaps <- Maps
    FrameBuffers <- Buffers
    KernelPlaces <- Places
    NoAnswer = NoAnswer
    DriverPages <- AtPages
    DriverFrames <- AtFrames
    MaxCalls = 2
SPECIFICATION Spec
INVARIANTS RegionsAreMapped
CHECK_DEADLOCK FALSE
