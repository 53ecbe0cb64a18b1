SPECIFICATION Spec
INVARIANTS LateByOne KeyframeReachesSource
PROPERTIES GoroutinesEnd
