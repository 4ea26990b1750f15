SPECIFICATION FairSpec
CONSTANT Nodes = {0, 1, 2}
CONSTANT Cameras = {0, 2}
CONSTANT Streams = {stream}
CONSTANT Variants = {}
CONSTANT Paths = {path}
CONSTANT Token = usb_camera
INVARIANT UsbIsKept
INVARIANT ExplicitIsKept
INVARIANT FailureHoldsNothing
PROPERTY ComesBack
