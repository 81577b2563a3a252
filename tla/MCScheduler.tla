---------------------------- MODULE MCScheduler -----------------------------
EXTENDS SchedulerInvariant

Scenario(es, n) == [events |-> es, faults |-> n]

\* Everything once; and, without cancels and lost replies, two faults in a row.
SafetyScenarios == {
    Scenario(EventKind, 1),
    Scenario({"missHealth", "submitError", "uploadError", "downloadError",
              "agentDeath", "crash"}, 2)}

\* The faults the code recovers from.
LiveScenarios == {
    Scenario({"missHealth", "submitError", "lostReply", "pollError", "diskError"}, 2)}

QuietScenarios == {Scenario({}, 0)}
CancelScenarios == {Scenario({"cancel"}, 0)}
DeathScenarios == {Scenario({"agentDeath"}, 1)}
HealthScenarios == {Scenario({"missHealth"}, 1)}
DownloadScenarios == {Scenario({"downloadError"}, 1)}
=============================================================================
