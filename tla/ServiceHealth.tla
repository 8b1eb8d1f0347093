---------------------------- MODULE ServiceHealth ----------------------------
(***************************************************************************)
(* Health of one monitored service: a round reads the service's metrics    *)
(* and later stores what it read as a sample.  Rounds are run by the       *)
(* leader-elected monitor of each replica, and without any lock by the     *)
(* scheduled collector and the administrator's capture.  The samples feed  *)
(* the availability summary, the SLO verdict and the trend charts; a live  *)
(* panel reads the service directly.                                       *)
(***************************************************************************)
EXTENDS Naturals, Sequences

CONSTANTS
  HealthReplicas,             \* replicas that run the monitor
  Unlocked,             \* collectors that take no lock
  NoLeader,
  Failures,             \* ways in which the process behind the endpoint fails to answer
  MinimumSamples,       \* samples needed before an SLO claim
  TargetNum, TargetDen, \* target availability as a ratio
  MaxWork,              \* bound: operations the service ever counts
  MaxSamples            \* bound: samples stored

ASSUME HealthAssumption ==
  /\ NoLeader \notin HealthReplicas /\ HealthReplicas \cap Unlocked = {}
  /\ MinimumSamples \in Nat \ {0} /\ TargetNum <= TargetDen /\ TargetDen \in Nat \ {0}
  /\ Failures \subseteq {"http_error", "non_json", "drifted", "other_language", "silent"}

VARIABLES
  watch,      \* which readers this instance is about: the samples or the live panel
  endpoint,   \* configuration: "unset", "invalid" or "set"
  behaviour,  \* what the process behind the endpoint does when asked
  counter,    \* its cumulative counter since it started
  work,       \* operations it has counted in all
  leaderLock,   \* holder of the monitor's advisory lock
  rounds,     \* collector -> its round
  samples,    \* service_health_samples in collected_at order
  overlapped, \* an unlocked round overlapped another one
  panel       \* the live status panel: last read, and whether it failed

healthVars == <<watch, endpoint, behaviour, counter, work, leaderLock, rounds, samples, overlapped, panel>>
serviceVars == <<watch, endpoint, behaviour, counter, work>>

Collectors == HealthReplicas \cup Unlocked
Behaviours == Failures \cup {"answers"}
NoRound == [step |-> "idle", status |-> "none", value |-> 0, answered |-> FALSE]

(* resolveServiceEndpoint: null when unset, an error when not acceptable.  *)
ResolveServiceEndpoint == endpoint

(* collectServiceStatus: healthy only if the metrics arrive in time, parse *)
(* and come from the expected implementation.                              *)
CollectServiceStatus ==
  CASE ResolveServiceEndpoint = "invalid" -> "unreachable"
    [] ResolveServiceEndpoint = "unset"   -> "not_configured"
    [] OTHER -> IF behaviour = "answers" THEN "healthy" ELSE "unreachable"

PeerAnswered == endpoint = "set" /\ behaviour = "answers"

Observation == [step |-> "collected", status |-> CollectServiceStatus, answered |-> PeerAnswered,
                value |-> IF CollectServiceStatus = "healthy" THEN counter ELSE 0]

HealthInit ==
  /\ watch \in {"samples", "panel"}
  /\ endpoint \in {"unset", "invalid", "set"}
  /\ behaviour = "answers"
  /\ counter = 0 /\ work = 0
  /\ leaderLock = NoLeader
  /\ rounds = [c \in Collectors |-> NoRound]
  /\ samples = <<>>
  /\ overlapped = FALSE
  /\ panel = [read |-> "never", status |-> "none", answered |-> FALSE]

-----------------------------------------------------------------------------
(* The service itself.                                                     *)
Serve ==
  /\ PeerAnswered /\ work < MaxWork
  /\ work' = work + 1 /\ counter' = counter + 1
  /\ UNCHANGED <<watch, endpoint, behaviour, leaderLock, rounds, samples, overlapped, panel>>

Restart ==
  /\ counter > 0
  /\ counter' = 0
  /\ UNCHANGED <<watch, endpoint, behaviour, work, leaderLock, rounds, samples, overlapped, panel>>

BehaviourChanges(b) ==
  /\ endpoint = "set" /\ behaviour # b
  /\ behaviour' = b
  /\ UNCHANGED <<watch, endpoint, counter, work, leaderLock, rounds, samples, overlapped, panel>>

-----------------------------------------------------------------------------
(* Rounds.                                                                 *)

(* Plausible bug: the answer of pg_try_advisory_lock is ignored.           *)
AcquireRegardless(r) ==
  /\ rounds[r].step = "idle"
  /\ leaderLock' = r
  /\ rounds' = [rounds EXCEPT ![r].step = "leading"]
  /\ UNCHANGED <<serviceVars, samples, overlapped, panel>>

(* A replica that does not get the lock skips the round.                   *)
AcquirePostgresLeader(r) ==
  /\ rounds[r].step = "idle" /\ leaderLock = NoLeader
  /\ leaderLock' = r
  /\ rounds' = [rounds EXCEPT ![r].step = "leading"]
  /\ UNCHANGED <<serviceVars, samples, overlapped, panel>>

(* The metrics are read: by the leader, or by a collector without a lock   *)
(* (serviceHealthCollector, captureServiceHealthSample).                   *)
Collect(c) ==
  /\ rounds[c].step = IF c \in HealthReplicas THEN "leading" ELSE "idle"
  /\ rounds' = [rounds EXCEPT ![c] = Observation]
  /\ UNCHANGED <<serviceVars, leaderLock, samples, overlapped, panel>>

(* The end of a round: the collector is idle and its lock released.        *)
RoundEnds(c) ==
  /\ rounds' = [rounds EXCEPT ![c] = NoRound]
  /\ leaderLock' = IF c \in HealthReplicas THEN NoLeader ELSE leaderLock

(* recordServiceHealthSamples: one transaction, stamped when it is stored. *)
RecordServiceHealthSamples(c) ==
  /\ rounds[c].step = "collected" /\ Len(samples) < MaxSamples
  /\ samples' = Append(samples, [status |-> rounds[c].status, counter |-> rounds[c].value,
                               answered |-> rounds[c].answered])
  /\ overlapped' = (overlapped \/ \E d \in Collectors \ {c} :
                      rounds[d].step = "collected" /\ {c, d} \cap Unlocked # {})
  /\ RoundEnds(c)
  /\ UNCHANGED <<serviceVars, panel>>

(* The database refuses the round, or the process stops in the middle.     *)
RoundFails(c) ==
  /\ rounds[c].step # "idle"
  /\ RoundEnds(c)
  /\ UNCHANGED <<serviceVars, samples, overlapped, panel>>

(* The panel's query polls the service, or fails before it gets there.     *)
PanelReads ==
  /\ panel' = [read |-> "ok", status |-> CollectServiceStatus,
               answered |-> PeerAnswered]
  /\ panel' # panel
  /\ UNCHANGED <<serviceVars, leaderLock, rounds, samples, overlapped>>

PanelFails ==
  /\ panel.read # "failed"
  /\ panel' = [panel EXCEPT !.read = "failed"]
  /\ UNCHANGED <<serviceVars, leaderLock, rounds, samples, overlapped>>

RunServiceHealthMonitorRound(r) ==
  AcquirePostgresLeader(r) \/ Collect(r) \/ RecordServiceHealthSamples(r) \/ RoundFails(r)

ServiceHealthCollector(c) == Collect(c) \/ RecordServiceHealthSamples(c) \/ RoundFails(c)

HealthNext ==
  \/ Serve \/ Restart
  \/ \E b \in Behaviours : BehaviourChanges(b)
  \/ watch = "samples" /\ \E r \in HealthReplicas : RunServiceHealthMonitorRound(r)
  \/ watch = "samples" /\ \E c \in Unlocked : ServiceHealthCollector(c)
  \/ watch = "panel" /\ (PanelReads \/ PanelFails)

HealthSpec == HealthInit /\ [][HealthNext]_healthVars

-----------------------------------------------------------------------------
(* Readers of the samples.                                                 *)

Healthy == {i \in DOMAIN samples : samples[i].status = "healthy"}

(* summariseServiceAvailability over the window that holds every sample.   *)
SummariseServiceAvailability ==
  [samples |-> Len(samples), healthy |-> Len(SelectSeq(samples, LAMBDA s : s.status = "healthy"))]

EvaluateServiceHealthSlo ==
  LET summary == SummariseServiceAvailability
  IN  IF summary.samples < MinimumSamples THEN "insufficient_evidence"
      ELSE IF summary.healthy * TargetDen < TargetNum * summary.samples THEN "breach"
      ELSE "within_target"

(* buildLatencySeries: the chart has a point where the service responded.  *)
BuildLatencySeries == [i \in DOMAIN samples |-> samples[i].status = "healthy"]

(* The healthy sample a delta is taken from, 0 if there is none.           *)
Previous(i) ==
  LET before == {j \in Healthy : j < i}
  IN  IF before = {} THEN 0 ELSE CHOOSE j \in before : \A k \in before : k <= j

(* buildThroughputSeries: the delta drawn at a sample; a decrease is taken *)
(* for a restart and not drawn.                                            *)
BuildThroughputSeries ==
  [i \in DOMAIN samples |->
     IF i \in Healthy /\ Previous(i) # 0 /\ samples[i].counter > samples[Previous(i)].counter
     THEN samples[i].counter - samples[Previous(i)].counter ELSE 0]

Drawn ==
  LET sum[i \in 0..Len(samples)] == IF i = 0 THEN 0 ELSE sum[i - 1] + BuildThroughputSeries[i]
  IN  sum[Len(samples)]

(* What the panel says of the service.                                     *)
ServiceStatusDashboard ==
  CASE panel.read = "never"  -> "reading"
    [] panel.read = "failed" -> "unknown"
    [] OTHER -> panel.status

-----------------------------------------------------------------------------
(* Types of the rounds, samples and panel.                                 *)
HealthTypeOK ==
  /\ watch \in {"samples", "panel"}
  /\ endpoint \in {"unset", "invalid", "set"} /\ behaviour \in Behaviours
  /\ counter \in 0..MaxWork /\ work \in 0..MaxWork
  /\ leaderLock \in HealthReplicas \cup {NoLeader}
  /\ \A c \in Collectors : rounds[c].step \in {"idle", "leading", "collected"}
  /\ Len(samples) <= MaxSamples /\ overlapped \in BOOLEAN
  /\ panel.read \in {"never", "ok", "failed"}

(* The chart never draws more throughput than the service performed since  *)
(* the first sample: no order of rounds and restarts makes a late sample   *)
(* look like a restart followed by the same work again, as long as         *)
(* collectors that take no lock do not overlap another round.              *)
ThroughputNeverOverstated ==
  \A i \in Healthy : ~overlapped /\ Previous(i) = 0 => samples[i].counter + Drawn <= work

(* A stored sample or a point of the latency chart says "healthy" only if  *)
(* the service answered properly when that round asked it, and an SLO is   *)
(* met only on samples enough of which were such answers.                  *)
HealthyWasObserved ==
  /\ \A i \in DOMAIN samples : BuildLatencySeries[i] => samples[i].answered
  /\ EvaluateServiceHealthSlo = "within_target" =>
       LET answered == SelectSeq(samples, LAMBDA s : s.answered)
       IN  Len(samples) >= MinimumSamples /\ Len(answered) * TargetDen >= TargetNum * Len(samples)

(* The live panel reports a responding service only if its last read       *)
(* succeeded and the service answered it; a failed read shows neither a    *)
(* fault nor health.                                                       *)
PanelNeverHealthier ==
  ServiceStatusDashboard = "healthy" => panel.read = "ok" /\ panel.answered

\* Samples, verdicts and panel never show a service better than it was observed
\* (serviceHealth.ts, serviceHealthHistory.ts, ServiceStatusDashboard.tsx).
HealthSafety ==
  /\ HealthTypeOK
  /\ ThroughputNeverOverstated
  /\ HealthyWasObserved
  /\ PanelNeverHealthier
=============================================================================
