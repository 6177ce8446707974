\* Packets are sent without being squeezed first, and memory for loss
\* records may run out.  A connection whose peer is refused stops.
CONSTANTS
    MaxPackno = 2
    MaxPackets = 2
    MaxBuffered = 1
    Kinds = {"stream", "ctl"}
    Gaps = {9}
    Events = {"pacer_blocks", "send_unsent", "no_memory"}
SPECIFICATION Spec
CHECK_DEADLOCK FALSE
INVARIANTS
    FramesAreKept
