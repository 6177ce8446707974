\* A callback resets the stream while packets are being written.
CONSTANTS
    MaxPackno = 4
    MaxPackets = 4
    MaxBuffered = 0
    Kinds = {"stream", "ctl"}
    Gaps = {9}
    Events = {"reset_while_writing"}
SPECIFICATION Spec
INVARIANT AckedWasReported
