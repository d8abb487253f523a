\* Two threads inside queueInLoop or quit at any point of the loop's life.
SPECIFICATION ThreadSpec
CONSTANTS
    Threads = {t1, t2}
    Channels = {io}
    Wakeup = wakeup
    MaxCalls = 4
INVARIANTS ThreadTypeOK NoLostFunctor NoLostQuit WakeupReadable PointerGood
PROPERTIES StartReturns QuitEndsThread ExecutorSpec
CHECK_DEADLOCK FALSE
