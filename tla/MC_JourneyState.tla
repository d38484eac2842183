--------------------------- MODULE MC_JourneyState ---------------------------
(* Instances of JourneyState for TLC.                                       *)
EXTENDS JourneyState

MCAllKinds == {"sleep", "socket", "detach", "applySync", "group", "awaiter",
              "awaiterDtor", "goWait", "anyWait", "anyResult", "detachWait", "reschedule",
              "asyncWaiter"}
MCEventKinds == {"sleep", "applySync", "group", "awaiter",
                "awaiterDtor", "goWait", "anyWait", "anyResult", "detachWait", "reschedule",
              "asyncWaiter"}
MCApplyKinds == {"applySync"}
MCSleepKinds == {"sleep"}
MCTimeoutKinds == {"applySync", "sleep"}
====
