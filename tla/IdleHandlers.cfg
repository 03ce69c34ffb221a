SPECIFICATION IdleFairSpec
CONSTANTS
    Keys = {k1, k2}
    MaxIdle = 5
    MaxIdleDepth = 3
INVARIANTS IdleTypeOK IdleNoneLostNoneTwice
PROPERTIES IdlePassComplete IdleRun
