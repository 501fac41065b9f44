--------------------------- MODULE NodeReadiness ----------------------------
(***************************************************************************)
(* How a node comes to be called ready.  The userdata shim                 *)
(* (internal/bootstrap) fetches the script-set once and executes           *)
(* bootstrap.sh, which mounts the shared storage and starts q0-spored and  *)
(* slurmd.  q0-spored (internal/spored) probes the node on an interval and *)
(* writes the result into the tags of its instance; the Enroller of a      *)
(* resume reads them through Observer.ReadReadiness, by the node's name.   *)
(*                                                                         *)
(* An Instance is one EC2 instance of one node.  q0:phase and q0:ready are *)
(* always written together and alike: tag is both.  Time is counted in     *)
(* intervals of the reporter.  A behaviour is of one deployment, which     *)
(* bounds what happens in it.                                              *)
(***************************************************************************)
EXTENDS Integers, FiniteSets

CONSTANTS
  Instance,
  StableCount,   \* Run: passes after which the reporter slows down
  KeepAlive,     \* Run: the slow wait, in intervals
  Deployments,   \* the deployments to consider
  None

\* A step of the shim fails; a tag request fails; the server behind a mount stops
\* to answer; the node is stopped or hibernated; a terminated instance is still
\* described.
FaultKind == {"shim", "net", "hang", "stop", "hibernate", "remnant"}

\* What goes wrong; whether /etc/q0/mounts names a controller; how many instances
\* the node has over time, and how often one of them is stopped or hibernated.
Deployment == [faults : SUBSET FaultKind, controller : BOOLEAN, instances : Nat, stops : Nat]

ASSUME ReadinessAssumption ==
  /\ StableCount \in Nat \ {0} /\ KeepAlive \in Nat \ {0}
  /\ Deployments \subseteq Deployment /\ None \notin Instance

VARIABLES
  deployment,                     \* which one this behaviour is of
  power, stops,                   \* EC2
  boot, sentinel, config, enabled,   \* the shim and bootstrap.sh; what is on disk
  mounted, slurmd,                \* the truth the probes look for
  hung,                           \* a dead mount that answers nobody: mounted "hard"
  spored, probes, verdict, stable, wait,  \* Reporter.Run and its local state
  tag,                            \* q0:ready and q0:phase of the instance
  reader, found, answer,          \* ReadReadiness: where, which instance, Readiness.OK
  saw, proof,      \* history: the truth at the last checks, and behind the tags
  complete,        \* bootstrap.sh came to its end: slurmd is enabled, if it is to be
  stale            \* history: intervals the tags have said ready over a dead mount
                   \* that the reporter was not stuck in

ec2      == <<power, stops>>
disk     == <<sentinel, config, enabled>>
health   == <<mounted, slurmd, hung>>
reporter == <<spored, probes, verdict, stable, wait>>
observer == <<reader, found, answer>>
seen     == <<saw, proof>>
vars     == <<deployment, ec2, boot, disk, health, reporter, tag, observer, seen, complete, stale>>

Faults == deployment.faults

all(x) == [i \in Instance |-> x]
healthy(i) == mounted[i] /\ slurmd[i]

MountBecomes(i, up, stuck) ==
  mounted' = [mounted EXCEPT ![i] = up] /\ hung' = [hung EXCEPT ![i] = stuck]

Init ==
  /\ deployment \in Deployments
  /\ power = all("none") /\ stops = all(0)
  /\ boot = all("none") /\ sentinel = all(FALSE) /\ config = all(FALSE) /\ enabled = all(FALSE)
  /\ mounted = all(FALSE) /\ slurmd = all(FALSE) /\ hung = all(FALSE)
  /\ spored = all("off") /\ probes = all(FALSE) /\ verdict = all(FALSE)
  /\ stable = all(0) /\ wait = all(0)
  /\ tag = all(FALSE)
  /\ reader = "idle" /\ found = None /\ answer = "none"
  /\ saw = all(FALSE) /\ proof = all(FALSE)
  /\ complete = all(FALSE)
  /\ stale = all(0)

-----------------------------------------------------------------------------
(* EC2 and the node's surroundings.                                         *)

SporedOff(i) ==
  /\ spored' = [spored EXCEPT ![i] = "off"] /\ stable' = [stable EXCEPT ![i] = 0]
  /\ wait' = [wait EXCEPT ![i] = 0]
  /\ UNCHANGED <<probes, verdict>>

\* systemd starts q0-spored: main reads the mount paths, once.
SporedStarts(i) ==
  /\ spored' = [spored EXCEPT ![i] = "identify"]
  /\ probes' = [probes EXCEPT ![i] = config[i]]
  /\ UNCHANGED <<verdict, stable, wait>>

Launch(i) ==
  /\ power[i] = "none" /\ \A j \in Instance : power[j] \in {"none", "gone"}
  /\ Cardinality({j \in Instance : power[j] # "none"}) < deployment.instances
  /\ power' = [power EXCEPT ![i] = "running"] /\ boot' = [boot EXCEPT ![i] = "start"]
  /\ answer' = "none" /\ UNCHANGED <<reader, found>>
  /\ UNCHANGED <<stops, disk, health, reporter, tag, seen, complete, stale>>

\* What runs on the node ends with it; a write under way may have been made.
PowerOff(i, to) ==
  /\ power[i] = "running"
  /\ power' = [power EXCEPT ![i] = to] /\ boot' = [boot EXCEPT ![i] = "none"]
  /\ MountBecomes(i, FALSE, FALSE) /\ slurmd' = [slurmd EXCEPT ![i] = FALSE]
  /\ SporedOff(i)
  /\ UNCHANGED <<disk, tag, observer, saw, proof, complete>>
  /\ stale' = [stale EXCEPT ![i] = 0]

Terminate(i) == PowerOff(i, "gone") /\ UNCHANGED stops

Stop(i) ==
  /\ "stop" \in Faults /\ stops[i] < deployment.stops
  /\ PowerOff(i, "stopped")
  /\ stops' = [stops EXCEPT ![i] = @ + 1]

\* Boot: cloud-init runs the shim, systemd what is enabled.
Start(i) ==
  /\ power[i] = "stopped"
  /\ power' = [power EXCEPT ![i] = "running"] /\ boot' = [boot EXCEPT ![i] = "start"]
  /\ IF enabled[i] THEN SporedStarts(i) ELSE UNCHANGED reporter
  /\ slurmd' = [slurmd EXCEPT ![i] = complete[i] /\ deployment.controller]
  /\ answer' = "none" /\ UNCHANGED <<reader, found>>
  /\ UNCHANGED <<stops, disk, mounted, hung, tag, seen, complete, stale>>

\* The processes are frozen and go on where they were, over mounts that may be dead.
Hibernate(i) ==
  /\ "hibernate" \in Faults /\ stops[i] < deployment.stops
  /\ power[i] = "running" /\ boot[i] = "done"
  /\ power' = [power EXCEPT ![i] = "hibernated"] /\ stops' = [stops EXCEPT ![i] = @ + 1]
  /\ UNCHANGED <<boot, disk, health, reporter, tag, observer, saw, proof, complete, stale>>

Thaw(i) ==
  /\ power[i] = "hibernated"
  /\ power' = [power EXCEPT ![i] = "running"]
  /\ \/ UNCHANGED <<mounted, hung>>
     \/ MountBecomes(i, FALSE, FALSE)
     \/ "hang" \in Faults /\ mounted[i] /\ MountBecomes(i, FALSE, TRUE)
  /\ answer' = "none" /\ UNCHANGED <<reader, found>>
  /\ UNCHANGED <<stops, boot, disk, slurmd, reporter, tag, seen, complete, stale>>

\* A mount or slurmd dies, or is repaired, on a node that was set up.  A mount whose
\* server is dead hangs until the server answers again or somebody unmounts it.
HealthChanges(i) ==
  /\ power[i] = "running" /\ boot[i] = "done" /\ complete[i]
  /\ \/ MountBecomes(i, ~mounted[i], FALSE) /\ UNCHANGED slurmd
     \/ hung[i] /\ MountBecomes(i, FALSE, FALSE) /\ UNCHANGED slurmd
     \/ "hang" \in Faults /\ mounted[i] /\ MountBecomes(i, FALSE, TRUE) /\ UNCHANGED slurmd
     \/ /\ deployment.controller
        /\ slurmd' = [slurmd EXCEPT ![i] = ~@] /\ UNCHANGED <<mounted, hung>>
  /\ stale' = [stale EXCEPT ![i] = IF mounted'[i] THEN 0 ELSE @]
  /\ UNCHANGED <<ec2, boot, disk, reporter, tag, observer, seen, complete>>

-----------------------------------------------------------------------------
(* The shim, and bootstrap.sh, which it executes.                           *)

ShimGoes(i, from, to) ==
  /\ power[i] = "running" /\ boot[i] = from
  /\ boot' = [boot EXCEPT ![i] = to]
  /\ UNCHANGED <<ec2, tag, observer, seen, stale>>

ShimStarts(i) ==
  /\ ShimGoes(i, "start", IF sentinel[i] THEN "done" ELSE "fetch")
  /\ UNCHANGED <<disk, health, reporter, complete>>

\* Fetch, verify and unpack; then the sentinel.
ShimFetches(i) ==
  /\ ShimGoes(i, "fetch", "config")
  /\ sentinel' = [sentinel EXCEPT ![i] = TRUE]
  /\ UNCHANGED <<config, enabled, health, reporter, complete>>

\* set -e: a step that fails ends the shim or bootstrap.sh.  "systemctl enable --now"
\* may have enabled the unit it could not start.
ShimFails(i) ==
  /\ "shim" \in Faults
  /\ \/ /\ ShimGoes(i, "fetch", "failed") \/ ShimGoes(i, "mount", "failed")
        /\ UNCHANGED <<enabled, complete>>
     \/ /\ ShimGoes(i, "services", "failed")
        /\ enabled' \in {enabled, [enabled EXCEPT ![i] = TRUE]} /\ UNCHANGED complete
     \/ /\ deployment.controller /\ ShimGoes(i, "slurmd", "failed")
        /\ complete' \in {complete, [complete EXCEPT ![i] = TRUE]} /\ UNCHANGED enabled
  /\ UNCHANGED <<sentinel, config, health, reporter>>

\* /etc/q0/mounts, then exec of bootstrap.sh.
ShimConfigures(i) ==
  /\ ShimGoes(i, "config", "mount")
  /\ config' = [config EXCEPT ![i] = TRUE]
  /\ UNCHANGED <<sentinel, enabled, health, reporter, complete>>

mount_shared_storage(i) ==
  /\ ShimGoes(i, "mount", "services")
  /\ MountBecomes(i, TRUE, FALSE)
  /\ UNCHANGED <<disk, slurmd, reporter, complete>>

start_spored(i) ==
  /\ ShimGoes(i, "services", "slurmd")
  /\ enabled' = [enabled EXCEPT ![i] = TRUE]
  /\ SporedStarts(i)
  /\ UNCHANGED <<sentinel, config, health, complete>>

\* Only when a controller was configured.
start_slurmd(i) ==
  /\ ShimGoes(i, "slurmd", "done")
  /\ slurmd' = [slurmd EXCEPT ![i] = deployment.controller]
  /\ complete' = [complete EXCEPT ![i] = TRUE]
  /\ UNCHANGED <<disk, mounted, hung, reporter>>

-----------------------------------------------------------------------------
(* Reporter.Run.                                                            *)

SporedGoes(i, from, to) ==
  /\ power[i] = "running" /\ spored[i] = from
  /\ spored' = [spored EXCEPT ![i] = to]
  /\ UNCHANGED <<ec2, boot, disk, health, probes, observer, complete, stale>>

\* Mutant: each good pass makes the next wait longer.
sleepsLonger(i, good) ==
  LET n == IF ~good THEN 0 ELSE IF stable[i] < StableCount THEN stable[i] + 1 ELSE stable[i]
  IN /\ stable' = [stable EXCEPT ![i] = n]
     /\ wait' = [wait EXCEPT ![i] = IF n >= StableCount THEN KeepAlive + n - 1 ELSE 1]

\* To sleep after a pass with this outcome.
sleeps(i, good) ==
  LET n == IF ~good THEN 0 ELSE IF stable[i] < StableCount THEN stable[i] + 1 ELSE stable[i]
  IN /\ stable' = [stable EXCEPT ![i] = n]
     /\ wait' = [wait EXCEPT ![i] = IF n >= StableCount THEN KeepAlive ELSE 1]

Identify(i) ==
  /\ SporedGoes(i, "identify", "mounts")
  /\ UNCHANGED <<verdict, stable, wait, tag, seen>>

IdentifyFails(i) ==
  /\ "net" \in Faults
  /\ SporedGoes(i, "identify", "sleep") /\ sleeps(i, FALSE)
  /\ UNCHANGED <<verdict, tag, seen>>

\* The probe is in a stat of a hung mount: it does not look at its context.
stuck(i) == spored[i] = "mounts" /\ probes[i] /\ hung[i]

CheckMounts(i) ==
  /\ ~stuck(i)
  /\ SporedGoes(i, "mounts", "slurmd")
  /\ verdict' = [verdict EXCEPT ![i] = probes[i] => mounted[i]]
  /\ saw' = [saw EXCEPT ![i] = mounted[i]]
  /\ UNCHANGED <<stable, wait, tag, proof>>

\* Mutant: the last probe decides.
CheckSlurmdAlone(i) ==
  /\ SporedGoes(i, "slurmd", "write")
  /\ verdict' = [verdict EXCEPT ![i] = slurmd[i]]
  /\ saw' = [saw EXCEPT ![i] = @ /\ slurmd[i]]
  /\ UNCHANGED <<stable, wait, tag, proof>>

CheckSlurmd(i) ==
  /\ SporedGoes(i, "slurmd", "write")
  /\ verdict' = [verdict EXCEPT ![i] = @ /\ slurmd[i]]
  /\ saw' = [saw EXCEPT ![i] = @ /\ slurmd[i]]
  /\ UNCHANGED <<stable, wait, tag, proof>>

Written(i) ==
  /\ tag' = [tag EXCEPT ![i] = verdict[i]] /\ proof' = [proof EXCEPT ![i] = saw[i]]

\* Mutant: only good news is written.
WriteTagsOnce(i) ==
  /\ SporedGoes(i, "write", "sleep") /\ sleeps(i, verdict[i])
  /\ IF verdict[i] THEN Written(i) ELSE UNCHANGED <<tag, proof>>
  /\ UNCHANGED <<verdict, saw>>

WriteTags(i) ==
  /\ SporedGoes(i, "write", "sleep") /\ sleeps(i, verdict[i])
  /\ Written(i)
  /\ UNCHANGED <<verdict, saw>>

\* An error, whether or not EC2 made the change.
WriteFails(i) ==
  /\ "net" \in Faults
  /\ SporedGoes(i, "write", "sleep") /\ sleeps(i, FALSE)
  /\ Written(i) \/ UNCHANGED <<tag, proof>>
  /\ UNCHANGED <<verdict, saw>>

Wake(i) ==
  /\ wait[i] = 0 /\ SporedGoes(i, "sleep", "identify")
  /\ UNCHANGED <<verdict, stable, wait, tag, seen>>

\* An interval passes; a pass of the reporter is short against it, if it ends.
Tick ==
  /\ \A i \in Instance : power[i] = "running" =>
       spored[i] = "off" \/ (spored[i] = "sleep" /\ wait[i] > 0) \/ stuck(i)
  /\ \E i \in Instance : power[i] = "running" /\ spored[i] = "sleep"
  /\ wait' = [i \in Instance |-> IF power[i] = "running" /\ wait[i] > 0 THEN wait[i] - 1 ELSE wait[i]]
  /\ stale' = [i \in Instance |-> IF power[i] # "running" \/ ~tag[i] \/ mounted[i] THEN 0
                                  ELSE IF stale[i] <= KeepAlive /\ ~stuck(i) THEN stale[i] + 1 ELSE stale[i]]
  /\ UNCHANGED <<ec2, boot, disk, health, spored, probes, verdict, stable, tag, observer, seen, complete>>

-----------------------------------------------------------------------------
(* ReadReadiness: DescribeByTag, then the tags of the first instance.       *)

running == \E i \in Instance : power[i] = "running"

\* Only what EC2 describes, terminated instances for a while included.
Described ==
  {i \in Instance : power[i] # "none" /\ (power[i] = "gone" => "remnant" \in Faults)}

Describe ==
  /\ reader = "idle" /\ running
  /\ \E i \in Described : found' = i
  /\ reader' = "tags" /\ UNCHANGED answer
  /\ UNCHANGED <<ec2, boot, disk, health, reporter, tag, seen, complete, stale>>

\* Readiness.OK of what the tags say.
ReadTags ==
  /\ reader = "tags" /\ reader' = "idle" /\ found' = None
  /\ answer' = IF tag[found] THEN "ok" ELSE "no"
  /\ UNCHANGED <<ec2, boot, disk, health, reporter, tag, seen, complete, stale>>

\* An error of either request reads as not ready.
ReadFails ==
  /\ reader # "idle" /\ "net" \in Faults
  /\ reader' = "idle" /\ found' = None /\ answer' = "no"
  /\ UNCHANGED <<ec2, boot, disk, health, reporter, tag, seen, complete, stale>>

Report(i) ==
  \/ Identify(i) \/ IdentifyFails(i) \/ CheckMounts(i) \/ CheckSlurmd(i)
  \/ WriteTags(i) \/ WriteFails(i) \/ Wake(i)
Shim(i) ==
  \/ ShimStarts(i) \/ ShimFetches(i) \/ ShimConfigures(i)
  \/ mount_shared_storage(i) \/ start_spored(i) \/ start_slurmd(i)

Same == UNCHANGED deployment

Next ==
  /\ Same
  /\ \/ \E i \in Instance :
          \/ Launch(i) \/ Terminate(i) \/ Stop(i) \/ Start(i) \/ Hibernate(i) \/ Thaw(i)
          \/ HealthChanges(i)
          \/ Shim(i) \/ ShimFails(i)
          \/ Report(i)
     \/ Tick
     \/ Describe \/ ReadTags \/ ReadFails

Spec == Init /\ [][Next]_vars

\* The processes of a node run, timers fire, and EC2 does not fail for ever.
FairSpec ==
  /\ Spec
  /\ WF_vars(Same /\ Tick)
  /\ \A i \in Instance :
       /\ WF_vars(Same /\ Shim(i)) /\ WF_vars(Same /\ Report(i))
       /\ SF_vars(Same /\ Identify(i)) /\ SF_vars(Same /\ WriteTags(i))

-----------------------------------------------------------------------------
TypeOK ==
  /\ power \in [Instance -> {"none", "running", "stopped", "hibernated", "gone"}]
  /\ deployment \in Deployments /\ stops \in [Instance -> 0..deployment.stops]
  /\ boot \in [Instance -> {"none", "start", "fetch", "config", "mount", "services", "slurmd", "done", "failed"}]
  /\ \A b \in {sentinel, config, enabled, mounted, slurmd, hung, probes, verdict, tag,
              saw, proof, complete} : b \in [Instance -> BOOLEAN]
  /\ spored \in [Instance -> {"off", "identify", "mounts", "slurmd", "write", "sleep"}]
  /\ stable \in [Instance -> 0..StableCount] /\ wait \in [Instance -> 0..KeepAlive]
  /\ \A i \in Instance : spored[i] # "off" => power[i] \in {"running", "hibernated"} /\ config[i]
  /\ reader \in {"idle", "tags"} /\ answer \in {"none", "ok", "no"}
  /\ found \in Instance \cup {None} /\ (reader = "tags" <=> found # None)
  /\ stale \in [Instance -> Nat]

\* Tags that say ready stand on a pass in which the mounts and slurmd were
\* found up, however often the node was stopped, its bootstrap cut short or a
\* write lost (evaluate, probesFromEnv, and the shim's order of steps).
ReadyWasVerified == \A i \in Instance : tag[i] => proof[i]

\* As long as tag writes succeed, a node with a dead mount is called ready for
\* no longer than one keepalive, not counting the time the reporter is stuck in
\* that mount (Run, "catch a mount that dies later").
StaleIsShort == "net" \notin Faults => \A i \in Instance : stale[i] <= KeepAlive

\* A node that stays up and healthy is called ready in the end, and one whose
\* mounts stay dead is not, if they answer (Run, "still a sensor, never silent").
SensorConverges ==
  \A i \in Instance :
    LET up == power[i] = "running" /\ boot[i] = "done" IN
    /\ <>[](up /\ healthy(i)) => <>[]tag[i]
    /\ <>[](up /\ ~mounted[i] /\ ~hung[i] /\ enabled[i]) => <>[]~tag[i]

\* "It also confirms the path is statable (a hung mount errors)" (MountProbe): a
\* node whose mount stays hung is not called ready in the end.  It does not hold: see
\* stuck.
HungMountErrors ==
  \A i \in Instance :
    <>[](power[i] = "running" /\ boot[i] = "done" /\ hung[i] /\ enabled[i]) => <>[]~tag[i]

=============================================================================
