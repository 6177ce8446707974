\* Two packets of every kind; packet number 1 is skipped, or none is.
CONSTANTS
    MaxPackno = 3
    MaxPackets = 2
    MaxBuffered = 1
    Kinds = {"stream", "ctl"}
    Gaps = {1, 9}
    Events = {}
SPECIFICATION Spec
INVARIANTS
    NumberingIsSound
    AckedWasReported
    ScheduledIsSane
    FramesAreKept
    AlarmArmed
    HonestPeerAccepted
