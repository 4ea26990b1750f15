SPECIFICATION FairSpec
CONSTANT Nodes = {0, 1, 2}
CONSTANT Cameras = {0, 2}
CONSTANT Streams = {}
CONSTANT Variants = {}
CONSTANT Paths = {}
CONSTANT Token = usb_camera
PROPERTY CameraComesBack
