------------------------ MODULE NodeReadinessProofs -------------------------
(***************************************************************************)
(* What NodeReadiness promises for any instances, in every deployment:     *)
(* that tags that say ready stand on a pass that found the node up, and    *)
(* that they do not say so for longer than a keepalive over a dead mount.  *)
(***************************************************************************)
EXTENDS NodeReadiness, TLAPS

\* The shim has configured an instance before q0-spored can start on it, and it
\* runs but once: q0-spored is not there before it has.
Ordered == \A i \in Instance :
  /\ boot[i] = "fetch" => ~sentinel[i]
  /\ ~sentinel[i] => ~config[i] /\ ~enabled[i]
  /\ boot[i] \in {"config", "mount", "services", "slurmd"} => sentinel[i]
  /\ boot[i] \in {"config", "mount", "services"} => ~enabled[i]
  /\ boot[i] \in {"mount", "services"} => config[i]
  /\ enabled[i] => config[i] /\ power[i] # "none"
  /\ ~enabled[i] => spored[i] = "off" /\ ~tag[i] /\ stale[i] = 0
  /\ power[i] \in {"running", "hibernated"} /\ enabled[i] =>
       spored[i] # "off" \/ (boot[i] = "failed" /\ ~tag[i])

\* A pass probes the mounts, and its verdict rests on what it saw.
Probed == \A i \in Instance :
  /\ spored[i] # "off" => probes[i]
  /\ spored[i] \in {"slurmd", "write"} /\ verdict[i] => saw[i]
  /\ tag[i] => proof[i]

\* As long as tag writes succeed, a verdict is of mounts that are up or died just
\* now, and tags that say ready are renewed before a keepalive is over.
Short == "net" \notin Faults => \A i \in Instance :
  /\ stale[i] <= KeepAlive
  /\ mounted[i] \/ power[i] \in {"none", "stopped", "gone"} => stale[i] = 0
  /\ spored[i] \in {"slurmd", "write"} /\ verdict[i] => stale[i] = 0
  /\ spored[i] = "sleep" /\ tag[i] => stale[i] + wait[i] <= KeepAlive

IInv == TypeOK /\ Ordered /\ Probed /\ Short
-----------------------------------------------------------------------------
\* What the types of the variables come to.
LEMMA TypeFacts ==
  ASSUME TypeOK
  PROVE  /\ deployment \in Deployments /\ stops \in [Instance -> 0..deployment.stops]
         /\ power \in [Instance -> {"none", "running", "stopped", "hibernated", "gone"}]
         /\ boot \in [Instance -> {"none", "start", "fetch", "config", "mount", "services", "slurmd", "done", "failed"}]
         /\ sentinel \in [Instance -> BOOLEAN] /\ config \in [Instance -> BOOLEAN] /\ enabled \in [Instance -> BOOLEAN]
         /\ mounted \in [Instance -> BOOLEAN] /\ slurmd \in [Instance -> BOOLEAN] /\ hung \in [Instance -> BOOLEAN]
         /\ deployment.controller \in BOOLEAN /\ probes \in [Instance -> BOOLEAN]
         /\ verdict \in [Instance -> BOOLEAN] /\ tag \in [Instance -> BOOLEAN] /\ saw \in [Instance -> BOOLEAN]
         /\ proof \in [Instance -> BOOLEAN] /\ complete \in [Instance -> BOOLEAN]
         /\ spored \in [Instance -> {"off", "identify", "mounts", "slurmd", "write", "sleep"}]
         /\ stable \in [Instance -> 0..StableCount] /\ wait \in [Instance -> 0..KeepAlive]
         /\ stale \in [Instance -> Nat]
         /\ \A i \in Instance : spored[i] # "off" => power[i] \in {"running", "hibernated"} /\ config[i]
         /\ StableCount \in Nat \ {0} /\ KeepAlive \in Nat \ {0} /\ deployment.stops \in Nat
BY ReadinessAssumption DEF TypeOK, Deployment

\* There is no instance at first.
LEMMA InitIInv == Init => IInv
BY ReadinessAssumption DEF Init, all, Deployment, IInv, TypeOK, Ordered, Probed, Short

-----------------------------------------------------------------------------
(* The invariant is inductive.                                              *)

\* Whatever stops an instance ends its pass; what starts it again starts the reporter,
\* if it was set up.
LEMMA PowerStep ==
  ASSUME IInv, UNCHANGED deployment, NEW i \in Instance,
         Launch(i) \/ Terminate(i) \/ Stop(i) \/ Start(i) \/ Hibernate(i) \/ Thaw(i) \/ HealthChanges(i)
  PROVE  IInv'
<1>1. CASE Launch(i)
  <2>1. TypeOK'
    BY <1>1, TypeFacts DEF Launch, ec2, disk, health, reporter, seen, TypeOK, IInv
  <2>2. Ordered'
    BY <1>1, TypeFacts DEF Launch, ec2, disk, health, reporter, seen, Ordered, IInv
  <2>3. Probed'
    BY <1>1, TypeFacts DEF Launch, ec2, disk, health, reporter, seen, Probed, Ordered, IInv
  <2>4. Short'
    BY <1>1, TypeFacts DEF Launch, ec2, disk, health, reporter, seen, Faults, Short, Ordered, Probed, IInv
  <2> QED BY <2>1, <2>2, <2>3, <2>4 DEF IInv
<1>2. CASE Terminate(i)
  <2>1. TypeOK'
    BY <1>2, TypeFacts DEF Terminate, PowerOff, MountBecomes, SporedOff, disk, observer, TypeOK, IInv
  <2>2. Ordered'
    BY <1>2, TypeFacts DEF Terminate, PowerOff, MountBecomes, SporedOff, disk, observer, Ordered, IInv
  <2>3. Probed'
    BY <1>2, TypeFacts DEF Terminate, PowerOff, MountBecomes, SporedOff, disk, observer, Probed, Ordered, IInv
  <2>4. Short'
    BY <1>2, TypeFacts DEF Terminate, PowerOff, MountBecomes, SporedOff, disk, observer, Faults, Short, Ordered, Probed, IInv
  <2> QED BY <2>1, <2>2, <2>3, <2>4 DEF IInv
<1>3. CASE Stop(i)
  <2>1. TypeOK'
    BY <1>3, TypeFacts DEF Stop, PowerOff, MountBecomes, SporedOff, disk, observer, TypeOK, IInv
  <2>2. Ordered'
    BY <1>3, TypeFacts DEF Stop, PowerOff, MountBecomes, SporedOff, disk, observer, Ordered, IInv
  <2>3. Probed'
    BY <1>3, TypeFacts DEF Stop, PowerOff, MountBecomes, SporedOff, disk, observer, Probed, Ordered, IInv
  <2>4. Short'
    BY <1>3, TypeFacts DEF Stop, PowerOff, MountBecomes, SporedOff, disk, observer, Faults, Short, Ordered, Probed, IInv
  <2> QED BY <2>1, <2>2, <2>3, <2>4 DEF IInv
<1>4. CASE Start(i)
  <2>1. TypeOK'
    BY <1>4, TypeFacts DEF Start, SporedStarts, disk, reporter, seen, TypeOK, Ordered, IInv
  <2>2. Ordered'
    BY <1>4, TypeFacts DEF Start, SporedStarts, disk, reporter, seen, Ordered, IInv
  <2>3. Probed'
    BY <1>4, TypeFacts DEF Start, SporedStarts, disk, reporter, seen, Probed, Ordered, IInv
  <2>4. Short'
    BY <1>4, TypeFacts DEF Start, SporedStarts, disk, reporter, seen, Faults, Short, Ordered, Probed, IInv
  <2> QED BY <2>1, <2>2, <2>3, <2>4 DEF IInv
<1>5. CASE Hibernate(i)
  <2>1. TypeOK'
    BY <1>5, TypeFacts DEF Hibernate, disk, health, reporter, observer, TypeOK, IInv
  <2>2. Ordered'
    BY <1>5, TypeFacts DEF Hibernate, disk, health, reporter, observer, Ordered, IInv
  <2>3. Probed'
    BY <1>5, TypeFacts DEF Hibernate, disk, health, reporter, observer, Probed, Ordered, IInv
  <2>4. Short'
    BY <1>5, TypeFacts DEF Hibernate, disk, health, reporter, observer, Faults, Short, Ordered, Probed, IInv
  <2> QED BY <2>1, <2>2, <2>3, <2>4 DEF IInv
<1>6. CASE Thaw(i)
  <2>1. TypeOK'
    <3>1. mounted' \in [Instance -> BOOLEAN] /\ hung' \in [Instance -> BOOLEAN]
      <4>1. UNCHANGED <<mounted, hung>> \/ \E b \in BOOLEAN : MountBecomes(i, FALSE, b)
        BY <1>6 DEF Thaw
      <4>2. CASE UNCHANGED <<mounted, hung>>
        BY <4>2, TypeFacts DEF IInv
      <4>3. ASSUME NEW b \in BOOLEAN, MountBecomes(i, FALSE, b)
            PROVE  mounted' \in [Instance -> BOOLEAN] /\ hung' \in [Instance -> BOOLEAN]
        BY <4>3, TypeFacts DEF MountBecomes, IInv
      <4> QED BY <4>1, <4>2, <4>3
    <3>2. power' = [power EXCEPT ![i] = "running"] /\ power[i] = "hibernated" /\ answer' = "none"
      BY <1>6 DEF Thaw
    <3>3. /\ UNCHANGED <<stops, boot, sentinel, config, enabled, slurmd, spored, probes, verdict, stable, wait>>
          /\ UNCHANGED <<tag, reader, found, saw, proof, complete, stale, deployment>>
      BY <1>6 DEF Thaw, disk, reporter, seen
    <3> QED BY <3>1, <3>2, <3>3, TypeFacts DEF TypeOK, IInv
  <2>2. Ordered'
    BY <1>6, TypeFacts DEF Thaw, disk, reporter, seen, Ordered, IInv
  <2>3. Probed'
    BY <1>6, TypeFacts DEF Thaw, disk, reporter, seen, Probed, Ordered, IInv
  <2>4. Short'
    <3>1. /\ \A j \in Instance : mounted'[j] => mounted[j]
          /\ \A j \in Instance : power'[j] = IF j = i THEN "running" ELSE power[j]
      BY <1>6, TypeFacts DEF Thaw, MountBecomes, IInv
    <3>2. UNCHANGED <<spored, verdict, tag, wait, stale>>
      BY <1>6 DEF Thaw, reporter
    <3> QED BY <3>1, <3>2 DEF Faults, Short, IInv
  <2> QED BY <2>1, <2>2, <2>3, <2>4 DEF IInv
<1>7. CASE HealthChanges(i)
  <2>1. TypeOK'
    <3>1. /\ mounted' \in [Instance -> BOOLEAN] /\ slurmd' \in [Instance -> BOOLEAN]
          /\ hung' \in [Instance -> BOOLEAN] /\ stale' \in [Instance -> Nat]
      BY <1>7, TypeFacts DEF HealthChanges, MountBecomes, IInv
    <3> QED BY <1>7, <3>1, TypeFacts DEF HealthChanges, MountBecomes, ec2, disk, reporter, observer, seen, TypeOK, IInv
  <2>2. Ordered'
    BY <1>7, TypeFacts DEF HealthChanges, MountBecomes, ec2, disk, reporter, observer, seen, Ordered, IInv
  <2>3. Probed'
    BY <1>7, TypeFacts DEF HealthChanges, MountBecomes, ec2, disk, reporter, observer, seen, Probed, Ordered, IInv
  <2>4. Short'
    BY <1>7, TypeFacts DEF HealthChanges, MountBecomes, ec2, disk, reporter, observer, seen, Faults, Short, Ordered, Probed, IInv
  <2> QED BY <2>1, <2>2, <2>3, <2>4 DEF IInv
<1> QED BY <1>1, <1>2, <1>3, <1>4, <1>5, <1>6, <1>7

\* The shim starts the reporter after it has configured it.
LEMMA ShimStep ==
  ASSUME IInv, UNCHANGED deployment, NEW i \in Instance,
         ShimStarts(i) \/ ShimFetches(i) \/ ShimFails(i) \/ ShimConfigures(i) \/ mount_shared_storage(i) \/ start_spored(i) \/ start_slurmd(i)
  PROVE  IInv'
<1>1. CASE ShimStarts(i)
  <2>1. TypeOK'
    BY <1>1, TypeFacts DEF ShimStarts, ShimGoes, ec2, disk, health, reporter, observer, seen, TypeOK, IInv
  <2>2. Ordered'
    BY <1>1, TypeFacts DEF ShimStarts, ShimGoes, ec2, disk, health, reporter, observer, seen, Ordered, IInv
  <2>3. Probed'
    BY <1>1, TypeFacts DEF ShimStarts, ShimGoes, ec2, disk, health, reporter, observer, seen, Probed, Ordered, IInv
  <2>4. Short'
    BY <1>1, TypeFacts DEF ShimStarts, ShimGoes, ec2, disk, health, reporter, observer, seen, Faults, Short, Ordered, Probed, IInv
  <2> QED BY <2>1, <2>2, <2>3, <2>4 DEF IInv
<1>2. CASE ShimFetches(i)
  <2>1. TypeOK'
    BY <1>2, TypeFacts DEF ShimFetches, ShimGoes, ec2, health, reporter, observer, seen, TypeOK, IInv
  <2>2. Ordered'
    BY <1>2, TypeFacts DEF ShimFetches, ShimGoes, ec2, health, reporter, observer, seen, Ordered, IInv
  <2>3. Probed'
    BY <1>2, TypeFacts DEF ShimFetches, ShimGoes, ec2, health, reporter, observer, seen, Probed, Ordered, IInv
  <2>4. Short'
    BY <1>2, TypeFacts DEF ShimFetches, ShimGoes, ec2, health, reporter, observer, seen, Faults, Short, Ordered, Probed, IInv
  <2> QED BY <2>1, <2>2, <2>3, <2>4 DEF IInv
<1>3. CASE ShimFails(i)
  <2>1. TypeOK'
    <3>1. enabled' \in [Instance -> BOOLEAN] /\ complete' \in [Instance -> BOOLEAN]
      <4>1. \/ UNCHANGED <<enabled, complete>>
            \/ enabled' \in {enabled, [enabled EXCEPT ![i] = TRUE]} /\ UNCHANGED complete
            \/ complete' \in {complete, [complete EXCEPT ![i] = TRUE]} /\ UNCHANGED enabled
        BY <1>3 DEF ShimFails
      <4> QED BY <4>1, TypeFacts DEF IInv
    <3>2. boot' = [boot EXCEPT ![i] = "failed"]
      BY <1>3 DEF ShimFails, ShimGoes
    <3>3. /\ UNCHANGED <<power, stops, sentinel, config, mounted, slurmd, hung, spored, probes, verdict, stable, wait>>
          /\ UNCHANGED <<tag, reader, found, answer, saw, proof, stale>>
      BY <1>3 DEF ShimFails, ShimGoes, ec2, health, reporter, observer, seen
    <3> QED BY <3>1, <3>2, <3>3, TypeFacts DEF TypeOK, IInv
  <2>2. Ordered'
    BY <1>3, TypeFacts DEF ShimFails, ShimGoes, ec2, disk, health, reporter, observer, seen, Ordered, IInv
  <2>3. Probed'
    BY <1>3, TypeFacts DEF ShimFails, ShimGoes, ec2, disk, health, reporter, observer, seen, Probed, Ordered, IInv
  <2>4. Short'
    BY <1>3, TypeFacts DEF ShimFails, ShimGoes, ec2, disk, health, reporter, observer, seen, Faults, Short, Ordered, Probed, IInv
  <2> QED BY <2>1, <2>2, <2>3, <2>4 DEF IInv
<1>4. CASE ShimConfigures(i)
  <2>1. TypeOK'
    BY <1>4, TypeFacts DEF ShimConfigures, ShimGoes, ec2, health, reporter, observer, seen, TypeOK, IInv
  <2>2. Ordered'
    BY <1>4, TypeFacts DEF ShimConfigures, ShimGoes, ec2, health, reporter, observer, seen, Ordered, IInv
  <2>3. Probed'
    BY <1>4, TypeFacts DEF ShimConfigures, ShimGoes, ec2, health, reporter, observer, seen, Probed, Ordered, IInv
  <2>4. Short'
    BY <1>4, TypeFacts DEF ShimConfigures, ShimGoes, ec2, health, reporter, observer, seen, Faults, Short, Ordered, Probed, IInv
  <2> QED BY <2>1, <2>2, <2>3, <2>4 DEF IInv
<1>5. CASE mount_shared_storage(i)
  <2>1. TypeOK'
    BY <1>5, TypeFacts DEF mount_shared_storage, MountBecomes, ShimGoes, ec2, disk, reporter, observer, seen, TypeOK, IInv
  <2>2. Ordered'
    BY <1>5, TypeFacts DEF mount_shared_storage, MountBecomes, ShimGoes, ec2, disk, reporter, observer, seen, Ordered, IInv
  <2>3. Probed'
    BY <1>5, TypeFacts DEF mount_shared_storage, MountBecomes, ShimGoes, ec2, disk, reporter, observer, seen, Probed, Ordered, IInv
  <2>4. Short'
    BY <1>5, TypeFacts DEF mount_shared_storage, MountBecomes, ShimGoes, ec2, disk, reporter, observer, seen, Faults, Short, Ordered, Probed, IInv
  <2> QED BY <2>1, <2>2, <2>3, <2>4 DEF IInv
<1>6. CASE start_spored(i)
  <2>1. TypeOK'
    BY <1>6, TypeFacts DEF start_spored, SporedStarts, ShimGoes, ec2, health, observer, seen, TypeOK, Ordered, IInv
  <2>2. Ordered'
    BY <1>6, TypeFacts DEF start_spored, SporedStarts, ShimGoes, ec2, health, observer, seen, Ordered, IInv
  <2>3. Probed'
    BY <1>6, TypeFacts DEF start_spored, SporedStarts, ShimGoes, ec2, health, observer, seen, Probed, Ordered, IInv
  <2>4. Short'
    BY <1>6, TypeFacts DEF start_spored, SporedStarts, ShimGoes, ec2, health, observer, seen, Faults, Short, Ordered, Probed, IInv
  <2> QED BY <2>1, <2>2, <2>3, <2>4 DEF IInv
<1>7. CASE start_slurmd(i)
  <2>1. TypeOK'
    BY <1>7, TypeFacts DEF start_slurmd, ShimGoes, ec2, disk, reporter, observer, seen, TypeOK, IInv
  <2>2. Ordered'
    BY <1>7, TypeFacts DEF start_slurmd, ShimGoes, ec2, disk, reporter, observer, seen, Ordered, IInv
  <2>3. Probed'
    BY <1>7, TypeFacts DEF start_slurmd, ShimGoes, ec2, disk, reporter, observer, seen, Probed, Ordered, IInv
  <2>4. Short'
    BY <1>7, TypeFacts DEF start_slurmd, ShimGoes, ec2, disk, reporter, observer, seen, Faults, Short, Ordered, Probed, IInv
  <2> QED BY <2>1, <2>2, <2>3, <2>4 DEF IInv
<1> QED BY <1>1, <1>2, <1>3, <1>4, <1>5, <1>6, <1>7

\* A pass asks both probes before it writes; a good verdict is of a live mount.
LEMMA ReportStep ==
  ASSUME IInv, UNCHANGED deployment, NEW i \in Instance,
         Identify(i) \/ IdentifyFails(i) \/ CheckMounts(i) \/ CheckSlurmd(i) \/ WriteTags(i) \/ WriteFails(i) \/ Wake(i)
  PROVE  IInv'
<1>1. CASE Identify(i)
  <2>1. TypeOK'
    BY <1>1, TypeFacts DEF Identify, SporedGoes, ec2, disk, health, observer, seen, TypeOK, IInv
  <2>2. Ordered'
    BY <1>1, TypeFacts DEF Identify, SporedGoes, ec2, disk, health, observer, seen, Ordered, IInv
  <2>3. Probed'
    BY <1>1, TypeFacts DEF Identify, SporedGoes, ec2, disk, health, observer, seen, Probed, Ordered, IInv
  <2>4. Short'
    BY <1>1, TypeFacts DEF Identify, SporedGoes, ec2, disk, health, observer, seen, Faults, Short, Ordered, Probed, IInv
  <2> QED BY <2>1, <2>2, <2>3, <2>4 DEF IInv
<1>2. CASE IdentifyFails(i)
  <2>1. TypeOK'
    BY <1>2, TypeFacts DEF IdentifyFails, SporedGoes, sleeps, ec2, disk, health, observer, seen, TypeOK, IInv
  <2>2. Ordered'
    BY <1>2, TypeFacts DEF IdentifyFails, SporedGoes, sleeps, ec2, disk, health, observer, seen, Ordered, IInv
  <2>3. Probed'
    BY <1>2, TypeFacts DEF IdentifyFails, SporedGoes, sleeps, ec2, disk, health, observer, seen, Probed, Ordered, IInv
  <2>4. Short'
    BY <1>2, TypeFacts DEF IdentifyFails, SporedGoes, sleeps, ec2, disk, health, observer, seen, Faults, Short, Ordered, Probed, IInv
  <2> QED BY <2>1, <2>2, <2>3, <2>4 DEF IInv
<1>3. CASE CheckMounts(i)
  <2>1. TypeOK'
    BY <1>3, TypeFacts DEF CheckMounts, stuck, SporedGoes, ec2, disk, health, observer, TypeOK, IInv
  <2>2. Ordered'
    BY <1>3, TypeFacts DEF CheckMounts, stuck, SporedGoes, ec2, disk, health, observer, Ordered, IInv
  <2>3. Probed'
    BY <1>3, TypeFacts DEF CheckMounts, stuck, SporedGoes, ec2, disk, health, observer, Probed, Ordered, IInv
  <2>4. Short'
    BY <1>3, TypeFacts DEF CheckMounts, stuck, SporedGoes, ec2, disk, health, observer, Faults, Short, Ordered, Probed, IInv
  <2> QED BY <2>1, <2>2, <2>3, <2>4 DEF IInv
<1>4. CASE CheckSlurmd(i)
  <2>1. TypeOK'
    BY <1>4, TypeFacts DEF CheckSlurmd, SporedGoes, ec2, disk, health, observer, TypeOK, IInv
  <2>2. Ordered'
    BY <1>4, TypeFacts DEF CheckSlurmd, SporedGoes, ec2, disk, health, observer, Ordered, IInv
  <2>3. Probed'
    BY <1>4, TypeFacts DEF CheckSlurmd, SporedGoes, ec2, disk, health, observer, Probed, Ordered, IInv
  <2>4. Short'
    BY <1>4, TypeFacts DEF CheckSlurmd, SporedGoes, ec2, disk, health, observer, Faults, Short, Ordered, Probed, IInv
  <2> QED BY <2>1, <2>2, <2>3, <2>4 DEF IInv
<1>5. CASE WriteTags(i)
  <2>1. TypeOK'
    BY <1>5, TypeFacts DEF WriteTags, SporedGoes, sleeps, Written, ec2, disk, health, observer, TypeOK, IInv
  <2>2. Ordered'
    BY <1>5, TypeFacts DEF WriteTags, SporedGoes, sleeps, Written, ec2, disk, health, observer, Ordered, IInv
  <2>3. Probed'
    BY <1>5, TypeFacts DEF WriteTags, SporedGoes, sleeps, Written, ec2, disk, health, observer, Probed, Ordered, IInv
  <2>4. Short'
    BY <1>5, TypeFacts DEF WriteTags, SporedGoes, sleeps, Written, ec2, disk, health, observer, Faults, Short, Ordered, Probed, IInv
  <2> QED BY <2>1, <2>2, <2>3, <2>4 DEF IInv
<1>6. CASE WriteFails(i)
  <2>1. TypeOK'
    BY <1>6, TypeFacts DEF WriteFails, SporedGoes, sleeps, Written, ec2, disk, health, observer, TypeOK, IInv
  <2>2. Ordered'
    BY <1>6, TypeFacts DEF WriteFails, SporedGoes, sleeps, Written, ec2, disk, health, observer, Ordered, IInv
  <2>3. Probed'
    BY <1>6, TypeFacts DEF WriteFails, SporedGoes, sleeps, Written, ec2, disk, health, observer, Probed, Ordered, IInv
  <2>4. Short'
    BY <1>6, TypeFacts DEF WriteFails, SporedGoes, sleeps, Written, ec2, disk, health, observer, Faults, Short, Ordered, Probed, IInv
  <2> QED BY <2>1, <2>2, <2>3, <2>4 DEF IInv
<1>7. CASE Wake(i)
  <2>1. TypeOK'
    BY <1>7, TypeFacts DEF Wake, SporedGoes, ec2, disk, health, observer, seen, TypeOK, IInv
  <2>2. Ordered'
    BY <1>7, TypeFacts DEF Wake, SporedGoes, ec2, disk, health, observer, seen, Ordered, IInv
  <2>3. Probed'
    BY <1>7, TypeFacts DEF Wake, SporedGoes, ec2, disk, health, observer, seen, Probed, Ordered, IInv
  <2>4. Short'
    BY <1>7, TypeFacts DEF Wake, SporedGoes, ec2, disk, health, observer, seen, Faults, Short, Ordered, Probed, IInv
  <2> QED BY <2>1, <2>2, <2>3, <2>4 DEF IInv
<1> QED BY <1>1, <1>2, <1>3, <1>4, <1>5, <1>6, <1>7

\* Time passes only while the reporters sleep.
LEMMA TickStep ==
  ASSUME IInv, UNCHANGED deployment, Tick
  PROVE  IInv'
<1>1. /\ wait' \in [Instance -> 0..KeepAlive] /\ stale' \in [Instance -> Nat]
      /\ \A i \in Instance : /\ power[i] = "running" /\ wait[i] > 0 => wait'[i] = wait[i] - 1
                             /\ wait'[i] <= wait[i]
                             /\ stale'[i] = 0 \/ /\ power[i] = "running" /\ tag[i] /\ ~mounted[i]
                                                 /\ stale'[i] <= stale[i] + 1
                                                 /\ stuck(i) => stale'[i] = stale[i]
  BY TypeFacts DEF Tick, IInv
<1>2. /\ UNCHANGED <<power, stops, boot, sentinel, config, enabled, mounted, slurmd, hung, spored, probes, verdict, stable>>
      /\ UNCHANGED <<tag, reader, found, answer, saw, proof, complete>>
  BY DEF Tick, ec2, disk, health, observer, seen
<1>3. TypeOK'
  BY <1>1, <1>2, TypeFacts DEF TypeOK, IInv
<1>4. Ordered' /\ Probed'
  BY <1>1, <1>2, TypeFacts DEF Ordered, Probed, IInv
<1>5. Short'
  <2> SUFFICES ASSUME "net" \notin Faults, NEW i \in Instance
               PROVE  /\ stale'[i] <= KeepAlive
                      /\ mounted[i] \/ power[i] \in {"none", "stopped", "gone"} => stale'[i] = 0
                      /\ spored[i] \in {"slurmd", "write"} /\ verdict[i] => stale'[i] = 0
                      /\ spored[i] = "sleep" /\ tag[i] => stale'[i] + wait'[i] <= KeepAlive
    BY <1>2 DEF Short, Faults
  <2>1. /\ stale[i] \in Nat /\ wait[i] \in 0..KeepAlive /\ wait'[i] \in 0..KeepAlive /\ stale'[i] \in Nat
        /\ KeepAlive \in Nat
    BY <1>1, TypeFacts DEF IInv
  <2>2. CASE stale'[i] = 0
    BY <2>1, <2>2
  <2>3. CASE stale'[i] # 0
    <3>1. /\ power[i] = "running" /\ tag[i] /\ ~mounted[i] /\ stale'[i] <= stale[i] + 1
          /\ stuck(i) => stale'[i] = stale[i]
      BY <1>1, <2>3
    <3>2. (spored[i] = "sleep" /\ wait[i] > 0) \/ stuck(i)
      <4>1. spored[i] = "off" \/ (spored[i] = "sleep" /\ wait[i] > 0) \/ stuck(i)
        BY <3>1 DEF Tick
      <4>2. spored[i] # "off"
        BY <3>1 DEF Ordered, IInv
      <4> QED BY <4>1, <4>2
    <3>3. CASE stuck(i)
      <4>1. spored[i] = "mounts" /\ stale'[i] = stale[i] /\ stale[i] <= KeepAlive
        BY <3>1, <3>3 DEF stuck, Short, IInv
      <4>2. ~(mounted[i] \/ power[i] \in {"none", "stopped", "gone"})
        BY <3>1
      <4> QED BY <4>1, <4>2
    <3>4. CASE spored[i] = "sleep" /\ wait[i] > 0
      <4>1. stale[i] + wait[i] <= KeepAlive /\ wait'[i] = wait[i] - 1
        BY <1>1, <3>1, <3>4 DEF Short, IInv
      <4> QED BY <2>1, <3>1, <3>4, <4>1
    <3> QED BY <3>2, <3>3, <3>4
  <2> QED BY <2>2, <2>3
<1> QED BY <1>3, <1>4, <1>5 DEF IInv

\* A reader changes nothing but what it has found.
LEMMA ReadStep ==
  ASSUME IInv, UNCHANGED deployment, Describe \/ ReadTags \/ ReadFails
  PROVE  IInv'
<1>1. /\ UNCHANGED <<power, stops, boot, sentinel, config, enabled, mounted, slurmd, hung, spored, probes, verdict, stable, wait>>
      /\ UNCHANGED <<tag, saw, proof, complete, stale>>
  BY DEF Describe, ReadTags, ReadFails, ec2, disk, health, reporter, seen
<1>2. TypeOK'
  BY <1>1, ReadinessAssumption DEF Describe, Described, ReadTags, ReadFails, TypeOK, IInv
<1>3. Ordered' /\ Probed' /\ Short'
  BY <1>1 DEF Ordered, Probed, Short, Faults, IInv
<1> QED BY <1>2, <1>3 DEF IInv

\* Every step keeps the invariant.
LEMMA StepIInv == IInv /\ [Next]_vars => IInv'
<1> SUFFICES ASSUME IInv, [Next]_vars PROVE IInv'
  OBVIOUS
<1>1. CASE UNCHANGED vars
  BY <1>1 DEF vars, ec2, disk, health, reporter, observer, seen, IInv, TypeOK, Ordered, Probed, Short, Faults
<1>2. CASE Next
  BY <1>2, PowerStep, ShimStep, ReportStep, TickStep, ReadStep DEF Next, Same, Shim, Report
<1> QED BY <1>1, <1>2

\* The inductive invariant holds in every reachable state.
THEOREM Invariance == Spec => []IInv
BY InitIInv, StepIInv, PTL DEF Spec

\* Tags that say ready stand on a pass that found the mounts and slurmd up
\* (evaluate, writeTags).
THEOREM ReadyVerified == Spec => []ReadyWasVerified
<1>1. IInv => ReadyWasVerified
  BY DEF IInv, Probed, ReadyWasVerified
<1> QED BY <1>1, Invariance, PTL

\* Over a dead mount they say so for no longer than a keepalive, as long as tag
\* writes succeed (Run's slow wait).
THEOREM StaleBounded == Spec => []StaleIsShort
<1>1. IInv => StaleIsShort
  BY DEF IInv, Short, StaleIsShort
<1> QED BY <1>1, Invariance, PTL
=============================================================================
