\* Units of 20 ms: both builds, and a sensor as slow as init allows.
SPECIFICATION FairSpec
CONSTANTS
    Pulses = {0, 15}
    Pause = 5
    Timeout = 25
    Warmup = 10
    MaxFaults = 3
INVARIANTS TypeOK UsesBegunMouse
PROPERTIES CrashIsReal Resumes FollowsTouch
