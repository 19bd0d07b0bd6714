----------------------------- MODULE DeployRecord -----------------------------
(***************************************************************************)
(* The state file `deploy-<app>.json` through which `agentbricks deploy`   *)
(* processes of one project know of each other: a deploy reads it before   *)
(* it starts (running_deploy), records itself and its phases in it         *)
(* (DeployStateTracker), `deploy --no-wait` writes it on behalf of the     *)
(* child it spawned (record_background_start), and `deployments wait`      *)
(* reads a deploy's outcome from it.  Writes are atomic; a read and the    *)
(* write that relies on it are not.                                        *)
(*                                                                         *)
(* A process is its pid.  Timestamps are abstracted to one bit: a record   *)
(* is `old` once its phase began more than STALE_AFTER_S ago.              *)
(*                                                                         *)
(* A definition named Op_Slip is operation Op with a plausible slip in it; *)
(* nothing uses it but the mutation runs listed in PROJECT.json.           *)
(***************************************************************************)
EXTENDS Integers, FiniteSets

CONSTANTS Deploys,      \* the deploy processes
          Background,   \* those that `deploy --no-wait` spawns
          MaxPhases,    \* bound: phases a deploy moves through
          MaxKills,     \* bound: processes killed
          MaxSleeps     \* bound: running deploys that sit in a phase for STALE_AFTER_S

ASSUME RecordAssumption ==
  Background \subseteq Deploys /\ MaxPhases \in Nat /\ MaxKills \in Nat /\ MaxSleeps \in Nat

VARIABLES file,     \* the set of records in the state file: none or one
          proc,     \* proc[d]: the deploy process
          launch,   \* launch[d]: the `deploy --no-wait` that spawns d
          reused,   \* pids of dead deploys that an unrelated process has now
          wait,     \* a `deployments wait`
          faults,   \* [kills, sleeps] so far
          raced     \* history: two deploys were between check and record at once

core == <<file, proc, launch, reused, wait, faults>>
vars == <<file, proc, launch, reused, wait, faults, raced>>

Record == [pid : Deploys, status : {"running", "succeeded", "failed"}, old : BOOLEAN]

(* unborn | new: not checked yet | checked: in the rest of prepare |        *)
(* rolling: its tracker has started | over                                  *)
Proc == [pc : {"unborn", "new", "checked", "rolling", "over"},
         end : {"none", "succeeded", "failed", "refused", "killed"},
         phases : Nat]

(* idle | checked | spawned | absent: the file does not name the child |    *)
(* returned | over: refused or killed                                       *)
Launch == [pc : {"idle", "checked", "spawned", "absent", "returned", "over"},
           before : SUBSET Deploys]   \* the deploys that were over when it spawned the child

(* target: the children whose launch had returned when the wait began       *)
Wait == [pc : {"idle", "polling", "over"}, target : SUBSET Background,
         status : {"none", "succeeded", "failed"}, pid : SUBSET Deploys]

Init ==
  /\ file = {}
  /\ proc = [d \in Deploys |-> [pc |-> "unborn", end |-> "none", phases |-> 0]]
  /\ launch = [d \in Background |-> [pc |-> "idle", before |-> {}]]
  /\ reused = {}
  /\ wait = [pc |-> "idle", target |-> {}, status |-> "none", pid |-> {}]
  /\ faults = [kills |-> 0, sleeps |-> 0]
  /\ raced = FALSE

Over       == {d \in Deploys : proc[d].pc = "over"}
Rolling    == {d \in Deploys : proc[d].pc = "rolling"}
Alive(pid) == proc[pid].pc \notin {"unborn", "over"} \/ pid \in reused

Write(d, status) == file' = {[pid |-> d, status |-> status, old |-> FALSE]}
End(d, end)      == proc' = [proc EXCEPT ![d].pc = "over", ![d].end = end]

Resolved_PidOnly(r) ==
  IF r.status = "running" /\ ~Alive(r.pid) THEN "failed" ELSE r.status

(* resolve_state: a running record of a dead process, or an old one, failed *)
Resolved(r) ==
  IF r.status = "running" /\ (~Alive(r.pid) \/ r.old) THEN "failed" ELSE r.status

(* running_deploy: someone else's record, still running                     *)
RunningDeploy(own) == \E r \in file : r.pid \notin own /\ Resolved(r) = "running"

-----------------------------------------------------------------------------
(* The deploy process *)
StartForeground(d) ==
  /\ d \notin Background /\ proc[d].pc = "unborn"
  /\ proc' = [proc EXCEPT ![d].pc = "new"]
  /\ UNCHANGED <<file, launch, reused, wait, faults>>

(* prepare, also in the child: refuse while another deploy runs             *)
Check(d) ==
  /\ proc[d].pc = "new"
  /\ IF RunningDeploy({d}) THEN End(d, "refused")
     ELSE proc' = [proc EXCEPT ![d].pc = "checked"]
  /\ UNCHANGED <<file, launch, reused, wait, faults>>

(* The rest of prepare reads the App and the user's scopes, and may raise;  *)
(* the tracker has not started.                                             *)
PrepareFails(d) ==
  /\ proc[d].pc = "checked"
  /\ End(d, "failed")
  /\ UNCHANGED <<file, launch, reused, wait, faults>>

TrackerStart_NextPhase(d) ==
  /\ proc[d].pc = "checked"
  /\ proc' = [proc EXCEPT ![d].pc = "rolling"]
  /\ UNCHANGED <<file, launch, reused, wait, faults>>

TrackerStart(d) ==
  /\ proc[d].pc = "checked"
  /\ Write(d, "running")
  /\ proc' = [proc EXCEPT ![d].pc = "rolling"]
  /\ UNCHANGED <<launch, reused, wait, faults>>

Phase(d) ==
  /\ proc[d].pc = "rolling" /\ proc[d].phases < MaxPhases
  /\ Write(d, "running")
  /\ proc' = [proc EXCEPT ![d].phases = @ + 1]
  /\ UNCHANGED <<launch, reused, wait, faults>>

(* The rollout succeeds or raises; the tracker records which.               *)
TrackerEnd(d) ==
  /\ proc[d].pc = "rolling"
  /\ \E end \in {"succeeded", "failed"} : Write(d, end) /\ End(d, end)
  /\ UNCHANGED <<launch, reused, wait, faults>>

(* SIGKILL, a power cut: nothing is written *)
Kill(d) ==
  /\ proc[d].pc \in {"new", "checked", "rolling"} /\ faults.kills < MaxKills
  /\ End(d, "killed")
  /\ faults' = [faults EXCEPT !.kills = @ + 1]
  /\ UNCHANGED <<file, launch, reused, wait>>

-----------------------------------------------------------------------------
(* deploy --no-wait *)
LaunchCheck(d) ==
  /\ launch[d].pc = "idle"
  /\ launch' = [launch EXCEPT ![d].pc = IF RunningDeploy({}) THEN "over" ELSE "checked"]
  /\ UNCHANGED <<file, proc, reused, wait, faults>>

Spawn(d) ==
  /\ launch[d].pc = "checked"
  /\ launch' = [launch EXCEPT ![d] = [pc |-> "spawned", before |-> Over]]
  /\ proc' = [proc EXCEPT ![d].pc = "new"]
  /\ UNCHANGED <<file, reused, wait, faults>>

LaunchRead_Always(d) ==
  /\ launch[d].pc = "spawned"
  /\ launch' = [launch EXCEPT ![d].pc = "returned"]
  /\ UNCHANGED <<file, proc, reused, wait, faults>>

(* record_background_start: skipped when the child recorded itself          *)
LaunchRead(d) ==
  /\ launch[d].pc = "spawned"
  /\ launch' = [launch EXCEPT ![d].pc =
                  IF \E r \in file : r.pid = d THEN "returned" ELSE "absent"]
  /\ UNCHANGED <<file, proc, reused, wait, faults>>

LaunchWrite(d) ==
  /\ launch[d].pc = "absent"
  /\ Write(d, "running")
  /\ launch' = [launch EXCEPT ![d].pc = "returned"]
  /\ UNCHANGED <<proc, reused, wait, faults>>

KillLaunch(d) ==
  /\ launch[d].pc \in {"checked", "spawned", "absent"} /\ faults.kills < MaxKills
  /\ launch' = [launch EXCEPT ![d].pc = "over"]
  /\ faults' = [faults EXCEPT !.kills = @ + 1]
  /\ UNCHANGED <<file, proc, reused, wait>>

-----------------------------------------------------------------------------
(* deployments wait, with a local record *)
WaitStart ==
  /\ wait.pc = "idle" /\ file # {}
  /\ wait' = [wait EXCEPT !.pc = "polling",
                          !.target = {d \in Background : launch[d].pc = "returned"}]
  /\ UNCHANGED <<file, proc, launch, reused, faults>>

WaitPoll ==
  /\ wait.pc = "polling"
  /\ \E r \in file :
       /\ Resolved(r) # "running"
       /\ wait' = [wait EXCEPT !.pc = "over", !.status = Resolved(r), !.pid = {r.pid}]
  /\ UNCHANGED <<file, proc, launch, reused, faults>>

(* An unrelated process gets the pid of a dead deploy.                      *)
Reuse(d) ==
  /\ d \in Over \ reused
  /\ reused' = reused \cup {d}
  /\ UNCHANGED <<file, proc, launch, wait, faults>>

(* STALE_AFTER_S pass without a phase.  A phase has no time limit of its    *)
(* own: a live deploy gets that far in a phase that takes so long, or when  *)
(* the machine sleeps.                                                      *)
Age ==
  \E r \in file :
    /\ r.status = "running" /\ ~r.old
    /\ file' = {[r EXCEPT !.old = TRUE]}
    /\ IF proc[r.pid].pc # "over"
       THEN faults.sleeps < MaxSleeps /\ faults' = [faults EXCEPT !.sleeps = @ + 1]
       ELSE UNCHANGED faults
    /\ UNCHANGED <<proc, launch, reused, wait>>

Deploy(d)   == StartForeground(d) \/ Check(d) \/ PrepareFails(d) \/ TrackerStart(d)
                 \/ Phase(d) \/ TrackerEnd(d) \/ Kill(d) \/ Reuse(d)
Launcher(d) == LaunchCheck(d) \/ Spawn(d) \/ LaunchRead(d) \/ LaunchWrite(d) \/ KillLaunch(d)

(* Between the check that let a deploy in and the record that keeps others  *)
(* out, of the process and of the command that spawned it.                  *)
InWindow(d) ==
  \/ proc[d].pc = "checked"
  \/ d \in Background /\ (proc[d].pc = "new" \/ launch[d].pc \in {"checked", "spawned", "absent"})

Crowded == \E d, e \in Deploys : d # e /\ InWindow(d) /\ InWindow(e)

Step ==
  \/ \E d \in Deploys : Deploy(d)
  \/ \E d \in Background : Launcher(d)
  \/ WaitStart \/ WaitPoll
  \/ Age

Next == Step /\ raced' = (raced \/ Crowded')

Spec == Init /\ [][Next]_vars

(* Time passes, and a process that is not killed gets on with its work.     *)
FairSpec ==
  /\ Spec /\ WF_core(Age) /\ WF_core(WaitPoll)
  /\ \A d \in Deploys : WF_core(Check(d) \/ PrepareFails(d) \/ TrackerStart(d) \/ TrackerEnd(d))
  /\ \A d \in Background : WF_core(Spawn(d) \/ LaunchRead(d) \/ LaunchWrite(d))

-----------------------------------------------------------------------------
RecordTypeOK ==
  /\ file \subseteq Record /\ Cardinality(file) <= 1
  /\ proc \in [Deploys -> Proc]
  /\ launch \in [Background -> Launch]
  /\ reused \subseteq Deploys
  /\ wait \in Wait
  /\ faults \in [kills : Nat, sleeps : Nat]
  /\ raced \in BOOLEAN

(* What the module docstring asks of the record: no second deploy starts a  *)
(* concurrent rollout.                                                      *)
OneRollout == Cardinality(Rolling) <= 1

(* It holds as long as no two deploys are ever between their check and      *)
(* their record at once and no rollout stays in a phase for STALE_AFTER_S.  *)
OneRolloutUnlessRaced == ~raced /\ faults.sleeps = 0 => OneRollout

(* `deployments wait` started after `deploy --no-wait` returned does not    *)
(* report an outcome of a deploy that was over before the child existed,    *)
(* unless another deploy raced with it.                                     *)
WaitSeesThisDeploy ==
  ~raced => \A d \in wait.target : wait.pid \cap launch[d].before = {}

(* The record of an outcome stays until another deploy is recorded: what a  *)
(* deploy wrote last is what a reader resolves.                             *)
OutcomeKept ==
  \A r \in file :
    proc[r.pid].end \in {"succeeded", "failed"} =>
      Resolved(r) = proc[r.pid].end /\ r.status # "running"

(* A wait that follows the record ends, whoever is killed and whatever      *)
(* process gets a dead deploy's pid.                                        *)
WaitEnds == wait.pc = "polling" ~> wait.pc = "over"
=============================================================================
