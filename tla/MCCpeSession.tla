---------------------------- MODULE MCCpeSession ----------------------------
(* Small instances of CpeSession.  A scenario is a profile and an environment: *)
(* the requests the ACS may make and how often the rest may happen.            *)
EXTENDS CpeSession, TLC

MCKind ==
    [download |-> "Download", firmware |-> "Firmware", upload |-> "Upload",
     duChange |-> "ChangeDUState", reboot |-> "Reboot", slowReboot |-> "Reboot",
     reset |-> "FactoryReset", slowReset |-> "FactoryReset", slowReset2 |-> "FactoryReset"]

MCKeys == DOMAIN MCKind

MCDelayed == {"slowReboot", "slowReset", "slowReset2"}

\* One boot, and the rest of the budget as given.
Scenario(asks, budget) ==
    [asks   |-> asks,
     budget |-> [r \in Resource |-> IF r = "boot" THEN 1
                                    ELSE IF r \in DOMAIN budget THEN budget[r] ELSE 0]]

SafetyScenarios == {
    \* a transfer and a delayed reboot among ticks, connection requests, failures
    Scenario({"download", "slowReboot"}, [tick |-> 1, connection |-> 1, failure |-> 1]),
    \* an immediate reboot and a factory reset that supersedes another
    Scenario({"reboot", "slowReset", "slowReset2"}, [tick |-> 1, failure |-> 1]),
    \* parameter writes, now and deferred, and a path that goes away
    Scenario({"upload"}, [write |-> 2, failure |-> 1]),
    Scenario({"reset"}, [write |-> 1, remove |-> 1]),
    \* a DU change whose trigger meets others in the latch
    Scenario({"duChange"}, [tick |-> 1, connection |-> 1, write |-> 1, failure |-> 1]),
    \* the dark window of a firmware upgrade, with retries before and in it
    Scenario({"firmware"}, [tick |-> 1, connection |-> 1, failure |-> 2]) }

\* Retry timers are interchangeable.
TimerSymmetry == Permutations(Timers)

\* The instances below are about fewer requests.
LivenessKeys == {"duChange"}

LivenessKind == [k \in LivenessKeys |-> MCKind[k]]

LivenessScenarios == {Scenario({"duChange"}, [failure |-> 1])}

=============================================================================
