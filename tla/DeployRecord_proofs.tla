------------------------ MODULE DeployRecord_proofs ------------------------
(***************************************************************************)
(* Theorems about the two records that the command line keeps.             *)
(*                                                                         *)
(* DeployRecord, for any number of deploys, phases, kills and sleeps: a    *)
(* deploy that rolls out is named by a running record that nobody else is  *)
(* about to overwrite, because whoever could overwrite it was let in       *)
(* before the record was there, and then two deploys were in the window    *)
(* between check and record at once.                                       *)
(*                                                                         *)
(* ModelSwitch, for any services, models, prompts, actions and trouble:    *)
(* the actions that are not undone for a thing are chained, each found it  *)
(* where the one before had left it, and the last says where the thing is, *)
(* or was before the running command moved it.                             *)
(***************************************************************************)
EXTENDS DeployRecord, ModelSwitch, FiniteSetTheorems, WellFoundedInduction, TLAPS

USE RecordAssumption DEF RecordAssumption

-----------------------------------------------------------------------------
(* A state file is none or one: FileOK speaks of sets of at most one record. *)
LEMMA FewFiles ==
  /\ \A x : Cardinality({x}) <= 1
  /\ Cardinality({}) <= 1
<1>0. 0 <= 1 /\ 1 <= 1
  OBVIOUS
<1>1. Cardinality({}) = 0
  BY FS_EmptySet, Zenon
<1>2. ASSUME NEW x PROVE Cardinality({x}) <= 1
  <2>1. Cardinality({x}) = 1
    BY FS_Singleton, Zenon
  <2>. QED
    BY <2>1, <1>0, Zenon
<1>3. Cardinality({}) <= 1
  BY <1>0, <1>1, Zenon
<1>. QED
  BY <1>2, <1>3, Zenon

(* The types without Cardinality; the file is empty or a singleton.         *)
FileOK == file = {} \/ \E r \in Record : file = {r}

TypeInv ==
  /\ FileOK
  /\ proc \in [Deploys -> Proc]
  /\ launch \in [Background -> Launch]
  /\ reused \subseteq Deploys
  /\ wait \in Wait
  /\ faults \in [kills : Nat, sleeps : Nat]
  /\ raced \in BOOLEAN

(* TypeInv is RecordTypeOK with the states of the launchers spelled out. *)
LEMMA TypeInvIsType == TypeInv => RecordTypeOK
BY FewFiles DEF TypeInv, FileOK, RecordTypeOK

(* Every record a deploy writes is one record. *)
LEMMA WriteType ==
  ASSUME NEW d \in Deploys, NEW status \in {"running", "succeeded", "failed"}, Write(d, status)
  PROVE  FileOK'
BY DEF Write, FileOK, Record

(* A deploy that ends is over, and no other deploy moves. *)
LEMMA EndType ==
  ASSUME TypeInv, NEW d \in Deploys,
         NEW end \in {"none", "succeeded", "failed", "refused", "killed"}, End(d, end)
  PROVE  /\ proc' \in [Deploys -> Proc]
         /\ proc'[d].pc = "over"
         /\ \A e \in Deploys : e # d => proc'[e] = proc[e]
BY DEF TypeInv, End, Proc

(* There is no file and no process at first. *)
LEMMA InitType == Init => TypeInv
<1>. SUFFICES ASSUME Init PROVE TypeInv
  OBVIOUS
<1>1. wait \in Wait
  BY DEF Init, Wait
<1>2. proc \in [Deploys -> Proc] /\ launch \in [Background -> Launch]
  BY DEF Init, Proc, Launch
<1>. QED
  BY <1>1, <1>2 DEF Init, TypeInv, FileOK

(* The steps of a deploy process keep the types. *)
LEMMA DeployType ==
  ASSUME TypeInv, NEW d \in Deploys, Deploy(d), raced' \in BOOLEAN
  PROVE  TypeInv'
<1>1. CASE StartForeground(d)
  BY <1>1 DEF StartForeground, TypeInv, FileOK, Proc
<1>2. CASE Check(d)
  <2>1. CASE RunningDeploy({d})
    BY <1>2, <2>1, EndType DEF Check, TypeInv, FileOK
  <2>2. CASE ~RunningDeploy({d})
    BY <1>2, <2>2 DEF Check, TypeInv, FileOK, Proc
  <2>. QED
    BY <2>1, <2>2
<1>3. CASE PrepareFails(d)
  BY <1>3, EndType DEF PrepareFails, TypeInv, FileOK
<1>4. CASE TrackerStart(d)
  <2>1. FileOK'
    BY <1>4, WriteType DEF TrackerStart
  <2>. QED
    BY <1>4, <2>1 DEF TrackerStart, TypeInv, Proc
<1>5. CASE Phase(d)
  <2>1. FileOK'
    BY <1>5, WriteType DEF Phase
  <2>2. proc[d].phases + 1 \in Nat
    BY DEF TypeInv, Proc
  <2>. QED
    BY <1>5, <2>1, <2>2 DEF Phase, TypeInv, Proc
<1>6. CASE TrackerEnd(d)
  <2>1. PICK end \in {"succeeded", "failed"} : Write(d, end) /\ End(d, end)
    BY <1>6 DEF TrackerEnd
  <2>. QED
    BY <1>6, <2>1, WriteType, EndType DEF TrackerEnd, TypeInv
<1>7. CASE Kill(d)
  <2>1. faults' \in [kills : Nat, sleeps : Nat]
    BY <1>7 DEF Kill, TypeInv
  <2>. QED
    BY <1>7, <2>1, EndType DEF Kill, TypeInv, FileOK
<1>8. CASE Reuse(d)
  BY <1>8 DEF Reuse, TypeInv, FileOK
<1>. QED
  BY <1>1, <1>2, <1>3, <1>4, <1>5, <1>6, <1>7, <1>8 DEF Deploy

(* The steps of `deploy --no-wait` keep the types. *)
LEMMA LauncherType ==
  ASSUME TypeInv, NEW d \in Background, Launcher(d), raced' \in BOOLEAN
  PROVE  TypeInv'
<1>0. d \in Deploys
  OBVIOUS
<1>1. CASE LaunchCheck(d)
  BY <1>1 DEF LaunchCheck, TypeInv, FileOK, Launch
<1>2. CASE Spawn(d)
  <2>1. [pc |-> "spawned", before |-> Over] \in Launch
    BY DEF Launch, Over
  <2>. QED
    BY <1>0, <1>2, <2>1 DEF Spawn, TypeInv, FileOK, Proc
<1>3. CASE LaunchRead(d)
  BY <1>3 DEF LaunchRead, TypeInv, FileOK, Launch
<1>4. CASE LaunchWrite(d)
  <2>1. FileOK'
    BY <1>0, <1>4, WriteType DEF LaunchWrite
  <2>. QED
    BY <1>4, <2>1 DEF LaunchWrite, TypeInv, Launch
<1>5. CASE KillLaunch(d)
  <2>1. faults' \in [kills : Nat, sleeps : Nat]
    BY <1>5 DEF KillLaunch, TypeInv
  <2>. QED
    BY <1>5, <2>1 DEF KillLaunch, TypeInv, FileOK, Launch
<1>. QED
  BY <1>1, <1>2, <1>3, <1>4, <1>5 DEF Launcher

(* A wait and the passing of time keep the types. *)
LEMMA OtherType ==
  ASSUME TypeInv, WaitStart \/ WaitPoll \/ Age, raced' \in BOOLEAN
  PROVE  TypeInv'
<1>1. CASE WaitStart
  <2>1. wait' \in Wait
    BY <1>1 DEF WaitStart, TypeInv, Wait
  <2>. QED
    BY <1>1, <2>1 DEF WaitStart, TypeInv, FileOK
<1>2. CASE WaitPoll
  <2>1. PICK r \in file : /\ Resolved(r) # "running"
                          /\ wait' = [wait EXCEPT !.pc = "over", !.status = Resolved(r), !.pid = {r.pid}]
    BY <1>2 DEF WaitPoll
  <2>2. r \in Record
    BY DEF TypeInv, FileOK
  <2>3. Resolved(r) \in {"succeeded", "failed"}
    BY <2>1, <2>2 DEF Resolved, Record
  <2>4. {r.pid} \in SUBSET Deploys
    BY <2>2 DEF Record
  <2>5. wait' \in Wait
    BY <2>1, <2>3, <2>4 DEF TypeInv, Wait
  <2>. QED
    BY <1>2, <2>5 DEF WaitPoll, TypeInv, FileOK
<1>3. CASE Age
  <2>1. PICK r \in file : file' = {[r EXCEPT !.old = TRUE]} /\ (UNCHANGED faults \/ faults' = [faults EXCEPT !.sleeps = @ + 1])
    BY <1>3 DEF Age
  <2>2. r \in Record /\ [r EXCEPT !.old = TRUE] \in Record
    BY DEF TypeInv, FileOK, Record
  <2>3. faults' \in [kills : Nat, sleeps : Nat]
    BY <2>1 DEF TypeInv
  <2>. QED
    BY <1>3, <2>1, <2>2, <2>3 DEF Age, TypeInv, FileOK
<1>. QED
  BY <1>1, <1>2, <1>3

(* Every step keeps the types. *)
LEMMA NextType == ASSUME TypeInv, [Next]_vars PROVE TypeInv'
<1>1. CASE Next
  <2>1. raced' \in BOOLEAN
    BY <1>1 DEF Next, TypeInv
  <2>. QED
    BY <1>1, <2>1, DeployType, LauncherType, OtherType DEF Next, Step
<1>2. CASE UNCHANGED vars
  BY <1>2 DEF vars, TypeInv, FileOK
<1>. QED
  BY <1>1, <1>2

(* Every variable of the deploys, the launchers and the file stays in its   *)
(* type, and the file never holds two records.                              *)
THEOREM RecordTypeCorrect == Spec => []RecordTypeOK
<1>1. TypeInv /\ [Next]_vars => TypeInv'
  BY NextType
<1>2. Spec => []TypeInv
  BY InitType, <1>1, PTL DEF Spec
<1>. QED
  BY <1>2, TypeInvIsType, PTL

-----------------------------------------------------------------------------
(* What the steps leave alone.                                              *)
LEMMA DeployFrame ==
  ASSUME TypeInv, NEW d \in Deploys, Deploy(d)
  PROVE  /\ launch' = launch /\ wait' = wait
         /\ \A e \in Deploys : e # d => proc'[e] = proc[e]
         /\ proc[d].pc = "over" => proc'[d].pc = "over"
         /\ \/ file' = file
            \/ /\ proc[d].pc \in {"checked", "rolling"}
               /\ \E status \in {"running", "succeeded", "failed"} : Write(d, status)
<1>1. launch' = launch /\ wait' = wait
  BY DEF Deploy, StartForeground, Check, PrepareFails, TrackerStart, Phase, TrackerEnd, Kill, Reuse
<1>2. \A e \in Deploys : e # d => proc'[e] = proc[e]
  BY DEF Deploy, StartForeground, Check, PrepareFails, TrackerStart, Phase, TrackerEnd, Kill,
         Reuse, End, TypeInv
<1>3. proc[d].pc = "over" => proc'[d].pc = "over"
  BY DEF Deploy, StartForeground, Check, PrepareFails, TrackerStart, Phase, TrackerEnd, Kill, Reuse
<1>4. \/ file' = file
      \/ /\ proc[d].pc \in {"checked", "rolling"}
         /\ \E status \in {"running", "succeeded", "failed"} : Write(d, status)
  BY DEF Deploy, StartForeground, Check, PrepareFails, TrackerStart, Phase, TrackerEnd, Kill, Reuse
<1>. QED
  BY <1>1, <1>2, <1>3, <1>4

(* What one launcher's step leaves alone, and which steps it can be. *)
LEMMA LauncherFrame ==
  ASSUME TypeInv, NEW d \in Background, Launcher(d)
  PROVE  /\ wait' = wait
         /\ \A e \in Background : e # d => launch'[e] = launch[e]
         /\ launch[d].pc \notin {"returned", "over"}
         /\ launch'[d].pc # "checked" => launch'[d].pc \in {"spawned", "absent", "returned", "over"}
         /\ \/ Spawn(d)
            \/ /\ proc' = proc /\ launch'[d].before = launch[d].before /\ launch[d].pc # "checked"
               /\ launch'[d].pc \in {"checked", "over"} \/ launch[d].pc \in {"spawned", "absent"}
            \/ KillLaunch(d) /\ proc' = proc /\ launch'[d].before = launch[d].before
         /\ LaunchWrite(d) \/ file' = file
<1>. USE DEF TypeInv, Launch
<1>1. CASE LaunchCheck(d)
  BY <1>1 DEF LaunchCheck
<1>2. CASE Spawn(d)
  BY <1>2 DEF Spawn
<1>3. CASE LaunchRead(d)
  BY <1>3 DEF LaunchRead
<1>4. CASE LaunchWrite(d)
  BY <1>4 DEF LaunchWrite
<1>5. CASE KillLaunch(d)
  BY <1>5 DEF KillLaunch
<1>. QED
  BY <1>1, <1>2, <1>3, <1>4, <1>5 DEF Launcher

(* A wait and the passing of time move no process and name no new pid in the file. *)
LEMMA OtherFrame ==
  ASSUME TypeInv, WaitStart \/ WaitPoll \/ Age
  PROVE  /\ proc' = proc /\ launch' = launch
         /\ \A r \in file' : \E s \in file : r.pid = s.pid
<1>1. CASE WaitStart \/ WaitPoll
  BY <1>1 DEF WaitStart, WaitPoll
<1>2. CASE Age
  BY <1>2 DEF Age, TypeInv, FileOK, Record
<1>. QED
  BY <1>1, <1>2

-----------------------------------------------------------------------------
(* A launcher that has not spawned its child has none, and the deploys that *)
(* were over when it did are still over; its child is not one of them.      *)
LifeInv ==
  \A d \in Background :
    /\ launch[d].pc \in {"idle", "checked"} => proc[d].pc = "unborn"
    /\ launch[d].before \subseteq Over
    /\ d \notin launch[d].before

(* No launcher has spawned anything at first. *)
LEMMA LifeInit == Init => LifeInv
BY DEF Init, LifeInv

(* A child exists only after its spawn, and deploys that were over at the spawn stay over. *)
LEMMA LifeNext == ASSUME TypeInv, LifeInv, [Next]_vars PROVE LifeInv'
<1>1. ASSUME NEW d \in Deploys, Deploy(d) PROVE LifeInv'
  <2>1. d \in Background /\ proc[d].pc = "unborn" => proc' = proc
    BY <1>1 DEF Deploy, StartForeground, Check, PrepareFails, TrackerStart, Phase, TrackerEnd,
                Kill, Reuse, Over
  <2>2. Over \subseteq Over'
    BY <1>1, DeployFrame DEF Over
  <2>. QED
    BY <1>1, <2>1, <2>2, DeployFrame DEF LifeInv
<1>2. ASSUME NEW d \in Background, Launcher(d) PROVE LifeInv'
  <2>1. CASE Spawn(d)
    <3>1. /\ launch' = [launch EXCEPT ![d] = [pc |-> "spawned", before |-> Over]]
          /\ proc' = [proc EXCEPT ![d].pc = "new"]
          /\ proc[d].pc = "unborn"
      BY <2>1 DEF Spawn, LifeInv
    <3>2. /\ \A e \in Deploys : e # d => proc'[e] = proc[e]
          /\ d \notin Over /\ Over \subseteq Over'
      BY <3>1 DEF TypeInv, Over, Proc
    <3>. QED
      BY <3>1, <3>2 DEF LifeInv, TypeInv
  <2>2. CASE ~Spawn(d)
    <3>1. /\ proc' = proc /\ launch'[d].before = launch[d].before
          /\ \A e \in Background : e # d => launch'[e] = launch[e]
          /\ launch'[d].pc \in {"idle", "checked"} => launch[d].pc \in {"idle", "checked"}
      BY <1>2, <2>2 DEF Launcher, LaunchCheck, LaunchRead, LaunchWrite, KillLaunch, TypeInv, Launch
    <3>. QED
      BY <3>1 DEF LifeInv, Over
  <2>. QED
    BY <2>1, <2>2
<1>3. CASE WaitStart \/ WaitPoll \/ Age
  BY <1>3, OtherFrame DEF LifeInv, Over
<1>4. CASE UNCHANGED vars
  BY <1>4 DEF vars, LifeInv, Over
<1>. QED
  BY <1>1, <1>2, <1>3, <1>4 DEF Next, Step

-----------------------------------------------------------------------------
(* A deploy that was over when the child of launcher d was spawned is not   *)
(* recorded once that launcher returned: its own launcher is the only one   *)
(* that could still record it, and then the two were in their windows at    *)
(* once.                                                                    *)
NoLateRecord ==
  \A d, e \in Background : e \in launch[d].before => launch[e].pc \notin {"spawned", "absent"}

RecordedSince ==
  \A d \in Background : launch[d].pc = "returned" => \A r \in file : r.pid \notin launch[d].before

WaitInv ==
  /\ wait.pc # "over" => wait.pid = {}
  /\ \A d \in wait.target : d \in Background /\ launch[d].pc = "returned"

RaceInv ==
  /\ WaitInv
  /\ ~raced => ~Crowded /\ NoLateRecord /\ RecordedSince /\ WaitSeesThisDeploy

(* Nobody has raced at first. *)
LEMMA RaceInit == Init => RaceInv
BY DEF Init, RaceInv, WaitInv, Crowded, InWindow, NoLateRecord, RecordedSince, WaitSeesThisDeploy

(* A launcher never goes back, and what was over at the spawn is settled.   *)
LEMMA LaunchMonotone ==
  ASSUME TypeInv, LifeInv, [Next]_vars, NEW d \in Background
  PROVE  /\ launch[d].pc = "returned" => launch'[d] = launch[d]
         /\ launch'[d].before # launch[d].before => Spawn(d)
         /\ launch'[d].pc \in {"spawned", "absent"} /\ launch[d].pc \notin {"spawned", "absent"} => Spawn(d)
<1>1. CASE \E e \in Background : Launcher(e)
  <2>1. PICK e \in Background : Launcher(e)
    BY <1>1
  <2>2. CASE e # d
    BY <2>1, <2>2, LauncherFrame
  <2>3. CASE e = d
    BY <2>1, <2>3 DEF Launcher, LaunchCheck, LaunchRead, LaunchWrite, KillLaunch, Spawn, TypeInv, Launch
  <2>. QED
    BY <2>2, <2>3
<1>2. CASE \E e \in Deploys : Deploy(e)
  BY <1>2, DeployFrame
<1>3. CASE WaitStart \/ WaitPoll \/ Age
  BY <1>3, OtherFrame
<1>4. CASE UNCHANGED vars
  BY <1>4 DEF vars
<1>. QED
  BY <1>1, <1>2, <1>3, <1>4 DEF Next, Step

(* As long as two deploys are never in the window at once, no launcher of an old deploy is left *)
(* that could still record it.                                                                  *)
LEMMA LateNext ==
  ASSUME TypeInv, LifeInv, NoLateRecord, [Next]_vars, ~Crowded'
  PROVE  NoLateRecord'
<1>. SUFFICES ASSUME NEW d \in Background, NEW e \in Background, e \in launch'[d].before,
                     launch'[e].pc \in {"spawned", "absent"}
              PROVE  FALSE
  BY DEF NoLateRecord
<1>1. CASE Spawn(d)
  <2>1. launch'[d].pc = "spawned" /\ launch'[d].before = Over
    BY <1>1 DEF Spawn, TypeInv
  <2>2. e # d
    BY <1>1, <2>1 DEF Spawn, LifeInv, Over
  <2>3. InWindow(d)' /\ InWindow(e)'
    BY <2>1 DEF InWindow
  <2>. QED
    BY <2>2, <2>3 DEF Crowded
<1>2. CASE ~Spawn(d)
  <2>1. e \in launch[d].before
    BY <1>2, LaunchMonotone
  <2>2. launch[e].pc \notin {"spawned", "absent"} /\ e \in Over
    BY <2>1 DEF NoLateRecord, LifeInv
  <2>3. Spawn(e)
    BY <2>2, LaunchMonotone
  <2>. QED
    BY <2>2, <2>3 DEF Spawn, LifeInv, Over
<1>. QED
  BY <1>1, <1>2

(* Who is recorded by a step is a deploy that is not over, or one whose     *)
(* launcher found it absent.                                                *)
LEMMA RecordedBy ==
  ASSUME TypeInv, [Next]_vars, NEW r \in file', \A s \in file : s.pid # r.pid
  PROVE  \/ r.pid \in Deploys \ Over
         \/ r.pid \in Background /\ launch[r.pid].pc = "absent" /\ LaunchWrite(r.pid)
<1>1. ASSUME NEW d \in Deploys, Deploy(d) PROVE r.pid \in Deploys \ Over
  BY <1>1, DeployFrame DEF Write, Over
<1>2. ASSUME NEW d \in Background, Launcher(d)
      PROVE  r.pid \in Background /\ launch[r.pid].pc = "absent" /\ LaunchWrite(r.pid)
  <2>1. LaunchWrite(d)
    BY <1>2, LauncherFrame
  <2>2. r.pid = d
    BY <2>1 DEF LaunchWrite, Write
  <2>. QED
    BY <2>1, <2>2 DEF LaunchWrite
<1>3. CASE WaitStart \/ WaitPoll \/ Age
  BY <1>3, OtherFrame
<1>4. CASE UNCHANGED vars
  BY <1>4 DEF vars
<1>. QED
  BY <1>1, <1>2, <1>3, <1>4 DEF Next, Step

(* A record written since a spawn is not of a deploy that was over by then. *)
LEMMA SinceNext ==
  ASSUME TypeInv, LifeInv, NoLateRecord, RecordedSince, [Next]_vars
  PROVE  RecordedSince'
<1>. SUFFICES ASSUME NEW d \in Background, launch'[d].pc = "returned",
                     NEW r \in file', r.pid \in launch'[d].before
              PROVE  FALSE
  BY DEF RecordedSince
<1>0. launch'[d].before = launch[d].before
  <2>1. CASE Spawn(d)
    BY <2>1 DEF Spawn, TypeInv
  <2>. QED
    BY <2>1, LaunchMonotone
<1>1. r.pid \in launch[d].before /\ r.pid \in Over /\ r.pid # d
  BY <1>0 DEF LifeInv
<1>2. PICK s \in file : s.pid = r.pid
  <2>. SUFFICES ASSUME \A s \in file : s.pid # r.pid PROVE FALSE
    OBVIOUS
  <2>1. r.pid \in Background /\ launch[r.pid].pc = "absent"
    BY <1>1, RecordedBy
  <2>. QED
    BY <1>1, <2>1 DEF NoLateRecord
<1>3. launch[d].pc # "returned"
  BY <1>1, <1>2 DEF RecordedSince
<1>4. LaunchRead(d) \/ LaunchWrite(d)
  <2>1. ASSUME NEW e \in Deploys, Deploy(e) PROVE FALSE
    BY <1>3, <2>1, DeployFrame
  <2>2. ASSUME NEW e \in Background, Launcher(e), e # d PROVE FALSE
    BY <1>3, <2>2, LauncherFrame
  <2>3. CASE Launcher(d)
    BY <2>3 DEF Launcher, LaunchCheck, Spawn, KillLaunch, TypeInv, Launch
  <2>4. CASE WaitStart \/ WaitPoll \/ Age
    BY <1>3, <2>4, OtherFrame
  <2>5. CASE UNCHANGED vars
    BY <1>3, <2>5 DEF vars
  <2>. QED
    BY <2>1, <2>2, <2>3, <2>4, <2>5 DEF Next, Step
<1>5. CASE LaunchRead(d)
  <2>1. (\E t \in file : t.pid = d) /\ file' = file
    BY <1>5 DEF LaunchRead, TypeInv
  <2>. QED
    BY <1>1, <1>2, <2>1 DEF TypeInv, FileOK
<1>6. CASE LaunchWrite(d)
  BY <1>1, <1>6 DEF LaunchWrite, Write
<1>. QED
  BY <1>4, <1>5, <1>6

(* Every step keeps both, up to the first race. *)
LEMMA RaceNext == ASSUME TypeInv, LifeInv, RaceInv, [Next]_vars PROVE RaceInv'
<1>1. /\ WaitStart => wait' = [wait EXCEPT !.pc = "polling",
                                        !.target = {d \in Background : launch[d].pc = "returned"}]
                      /\ wait.pc = "idle"
      /\ WaitPoll => \E r \in file : wait' = [wait EXCEPT !.pc = "over", !.status = Resolved(r), !.pid = {r.pid}]
      /\ ~WaitStart /\ ~WaitPoll => wait' = wait
  <2>1. ~WaitStart /\ ~WaitPoll => wait' = wait
    BY DeployFrame, LauncherFrame DEF Next, Step, Age, vars
  <2>. QED
    BY <2>1 DEF WaitStart, WaitPoll
<1>2. WaitStart \/ WaitPoll => launch' = launch
  BY DEF WaitStart, WaitPoll
<1>3. WaitInv'
  <2>1. CASE WaitStart
    <3>1. wait'.target = {d \in Background : launch[d].pc = "returned"} /\ wait'.pid = wait.pid
      BY <1>1, <2>1 DEF TypeInv, Wait
    <3>2. wait'.pid = {}
      BY <1>1, <2>1, <3>1 DEF RaceInv, WaitInv
    <3>. QED
      BY <1>2, <2>1, <3>1, <3>2 DEF WaitInv
  <2>2. CASE WaitPoll
    BY <1>1, <1>2, <2>2 DEF WaitInv, RaceInv, TypeInv, Wait
  <2>3. CASE ~WaitStart /\ ~WaitPoll
    BY <1>1, <2>3, LaunchMonotone DEF WaitInv, RaceInv
  <2>. QED
    BY <2>1, <2>2, <2>3
<1>4. ASSUME ~raced' PROVE ~raced /\ ~Crowded'
  <2>1. CASE Next
    BY <1>4, <2>1 DEF Next, TypeInv
  <2>2. CASE UNCHANGED vars
    BY <1>4, <2>2 DEF vars, RaceInv, Crowded, InWindow
  <2>. QED
    BY <2>1, <2>2
<1>5. ASSUME ~raced' PROVE NoLateRecord' /\ RecordedSince'
  BY <1>4, <1>5, LateNext, SinceNext DEF RaceInv
<1>6. ASSUME ~raced' PROVE WaitSeesThisDeploy'
  <2>. SUFFICES ASSUME NEW d \in wait'.target PROVE wait'.pid \cap launch'[d].before = {}
    BY DEF WaitSeesThisDeploy
  <2>1. CASE WaitStart
    BY <1>1, <2>1 DEF RaceInv, WaitInv, TypeInv, Wait
  <2>2. CASE WaitPoll
    <3>1. PICK r \in file : wait'.pid = {r.pid} /\ wait'.target = wait.target
      BY <1>1, <2>2 DEF TypeInv, Wait
    <3>2. d \in Background /\ launch[d].pc = "returned"
      BY <3>1 DEF RaceInv, WaitInv
    <3>3. r.pid \notin launch[d].before
      BY <1>4, <1>6, <3>2 DEF RaceInv, RecordedSince
    <3>. QED
      BY <1>2, <2>2, <3>1, <3>3
  <2>3. CASE ~WaitStart /\ ~WaitPoll
    <3>1. wait' = wait /\ d \in Background /\ launch[d].pc = "returned"
      BY <1>1, <2>3 DEF RaceInv, WaitInv
    <3>2. launch'[d] = launch[d]
      BY <3>1, LaunchMonotone
    <3>. QED
      BY <1>4, <1>6, <3>1, <3>2 DEF RaceInv, WaitSeesThisDeploy
  <2>. QED
    BY <2>1, <2>2, <2>3
<1>. QED
  BY <1>3, <1>4, <1>5, <1>6 DEF RaceInv

(* A wait that began after `deploy --no-wait` returned reports no outcome   *)
(* of a deploy that was over before the child existed, unless raced.        *)
THEOREM WaitIsForThisDeploy == Spec => []WaitSeesThisDeploy
<1>1. Init => TypeInv /\ LifeInv /\ RaceInv
  BY InitType, LifeInit, RaceInit
<1>2. TypeInv /\ LifeInv /\ RaceInv /\ [Next]_vars => (TypeInv /\ LifeInv /\ RaceInv)'
  BY NextType, LifeNext, RaceNext
<1>3. RaceInv => WaitSeesThisDeploy
  BY DEF RaceInv, WaitSeesThisDeploy
<1>. QED
  BY <1>1, <1>2, <1>3, PTL DEF Spec

-----------------------------------------------------------------------------
(* A deploy that rolls out holds the record, fresh and running, and nobody  *)
(* else is between a check that let it in and its own record.               *)
Holds(d) == \E r \in file : r.pid = d /\ r.status = "running" /\ ~r.old

Alone(d) == \A e \in Deploys : e # d => ~InWindow(e)

RollInv == ~raced /\ faults.sleeps = 0 => \A d \in Rolling : Holds(d) /\ Alone(d)

(* Nobody rolls out at first. *)
LEMMA RollInit == Init => RollInv
BY DEF Init, RollInv, Rolling

(* Whoever checks while a rollout holds the record is refused.              *)
LEMMA HeldIsRunning ==
  ASSUME TypeInv, NEW d \in Rolling, Holds(d), NEW own, d \notin own
  PROVE  RunningDeploy(own)
<1>1. PICK r \in file : r.pid = d /\ r.status = "running" /\ ~r.old
  BY DEF Holds
<1>2. r \in Record
  BY DEF TypeInv, FileOK
<1>3. Alive(d)
  BY DEF Rolling, Alive
<1>4. Resolved(r) = "running"
  BY <1>1, <1>2, <1>3 DEF Resolved, Record
<1>. QED
  BY <1>1, <1>4 DEF RunningDeploy

(* Only one deploy can hold the record.                                     *)
LEMMA HeldByOne ==
  ASSUME TypeInv, NEW d, NEW e, Holds(d), Holds(e)
  PROVE  d = e
BY DEF TypeInv, FileOK, Holds

(* A step of another deploy leaves a rollout its record and its peace.      *)
LEMMA OtherDeployKeeps ==
  ASSUME TypeInv, LifeInv, RollInv, ~raced, faults.sleeps = 0,
         NEW d \in Rolling, NEW e \in Deploys, e # d, Deploy(e)
  PROVE  Holds(d)' /\ Alone(d)'
<1>0. Holds(d) /\ Alone(d) /\ ~InWindow(e)
  BY DEF RollInv, Alone
<1>1. proc[e].pc # "checked" /\ proc[e].pc # "rolling"
  BY <1>0, HeldByOne DEF InWindow, RollInv, Rolling
<1>2. launch' = launch /\ \A f \in Deploys : f # e => proc'[f] = proc[f]
  BY DeployFrame
<1>3. file' = file
  BY <1>1, DeployFrame
<1>4. ~InWindow(e)'
  <2>1. CASE Check(e)
    <3>1. RunningDeploy({e})
      BY <1>0, HeldIsRunning
    <3>2. proc'[e].pc = "over"
      BY <2>1, <3>1, EndType DEF Check
    <3>. QED
      BY <1>0, <1>2, <3>2 DEF InWindow
  <2>2. CASE StartForeground(e)
    <3>1. e \notin Background /\ proc'[e].pc = "new"
      BY <2>2 DEF StartForeground, TypeInv, Proc
    <3>. QED
      BY <3>1 DEF InWindow
  <2>3. CASE Kill(e)
    <3>1. proc'[e].pc = "over"
      BY <2>3, EndType DEF Kill
    <3>. QED
      BY <1>0, <1>2, <3>1 DEF InWindow
  <2>4. CASE Reuse(e)
    BY <1>0, <2>4 DEF Reuse, InWindow
  <2>. QED
    BY <1>1, <2>1, <2>2, <2>3, <2>4 DEF Deploy, PrepareFails, TrackerStart, Phase, TrackerEnd
<1>5. Alone(d)'
  BY <1>0, <1>2, <1>4 DEF Alone, InWindow
<1>. QED
  BY <1>0, <1>3, <1>5 DEF Holds

(* So does a step of its own that it survives.                              *)
LEMMA OwnStepKeeps ==
  ASSUME TypeInv, RollInv, ~raced, ~Crowded, faults.sleeps = 0,
         NEW d \in Deploys, Deploy(d), proc'[d].pc = "rolling"
  PROVE  Holds(d)' /\ Alone(d)'
<1>1. launch' = launch /\ \A e \in Deploys : e # d => proc'[e] = proc[e]
  BY DeployFrame
<1>2. Alone(d) => Alone(d)'
  BY <1>1 DEF Alone, InWindow
<1>3. CASE TrackerStart(d)
  <2>1. InWindow(d)
    BY <1>3 DEF TrackerStart, InWindow
  <2>2. Alone(d)
    BY <2>1 DEF Alone, Crowded
  <2>. QED
    BY <1>2, <1>3, <2>2 DEF TrackerStart, Write, Holds
<1>4. CASE Phase(d)
  <2>1. Alone(d)
    BY <1>4 DEF Phase, RollInv, Rolling
  <2>. QED
    BY <1>2, <1>4, <2>1 DEF Phase, Write, Holds
<1>5. CASE Reuse(d)
  BY <1>5 DEF Reuse, RollInv, Rolling, Holds, Alone, InWindow
<1>6. ~StartForeground(d) /\ ~Check(d) /\ ~PrepareFails(d) /\ ~TrackerEnd(d) /\ ~Kill(d)
  <2>1. ~StartForeground(d)
    BY DEF StartForeground, TypeInv, Proc
  <2>2. ~Check(d)
    BY EndType DEF Check, TypeInv, Proc
  <2>3. ~PrepareFails(d) /\ ~Kill(d)
    BY EndType DEF PrepareFails, Kill
  <2>4. ~TrackerEnd(d)
    BY EndType DEF TrackerEnd, TypeInv, End, Proc
  <2>. QED
    BY <2>1, <2>2, <2>3, <2>4
<1>. QED
  BY <1>3, <1>4, <1>5, <1>6 DEF Deploy

(* A launcher either belongs to the rollout or is refused.                  *)
LEMMA LauncherKeeps ==
  ASSUME TypeInv, LifeInv, RollInv, ~raced, faults.sleeps = 0,
         NEW d \in Rolling, NEW e \in Background, Launcher(e)
  PROVE  Holds(d)' /\ Alone(d)'
<1>0. Holds(d) /\ Alone(d) /\ d \in Deploys
  BY DEF RollInv, Rolling
<1>1. \A f \in Background : f # e => launch'[f] = launch[f]
  BY LauncherFrame
<1>2. CASE e = d
  <2>1. ~LaunchCheck(d) /\ ~Spawn(d)
    BY <1>2 DEF LaunchCheck, Spawn, LifeInv, Rolling
  <2>2. proc' = proc
    BY <1>2, <2>1 DEF Launcher, LaunchRead, LaunchWrite, KillLaunch
  <2>3. Alone(d)'
    BY <1>0, <1>1, <1>2, <2>2 DEF Alone, InWindow
  <2>4. Holds(d)'
    <3>1. CASE LaunchWrite(d)
      BY <3>1 DEF LaunchWrite, Write, Holds
    <3>2. CASE ~LaunchWrite(d)
      BY <1>0, <1>2, <3>2, LauncherFrame DEF Holds
    <3>. QED
      BY <3>1, <3>2
  <2>. QED
    BY <2>3, <2>4
<1>3. CASE e # d
  <2>1. launch[e].pc \notin {"checked", "spawned", "absent"} /\ proc[e].pc # "checked"
    BY <1>0, <1>3 DEF Alone, InWindow
  <2>2. LaunchCheck(e)
    BY <2>1 DEF Launcher, Spawn, LaunchRead, LaunchWrite, KillLaunch
  <2>3. RunningDeploy({})
    BY <1>0, HeldIsRunning
  <2>4. launch'[e].pc = "over" /\ proc' = proc /\ file' = file
    BY <2>2, <2>3 DEF LaunchCheck, TypeInv, Launch
  <2>5. ~InWindow(e)
    BY <1>0, <1>3 DEF Alone
  <2>6. ~InWindow(e)'
    BY <2>4, <2>5 DEF InWindow
  <2>7. Alone(d)'
    BY <1>0, <1>1, <2>4, <2>6 DEF Alone, InWindow
  <2>. QED
    BY <1>0, <2>4, <2>7 DEF Holds
<1>. QED
  BY <1>2, <1>3

(* A wait and the passing of time leave the record of a deploy that rolls out in place. *)
LEMMA OtherKeeps ==
  ASSUME TypeInv, RollInv, ~raced, faults.sleeps = 0, faults'.sleeps = 0,
         NEW d \in Rolling, WaitStart \/ WaitPoll \/ Age
  PROVE  Holds(d)' /\ Alone(d)'
<1>0. Holds(d) /\ Alone(d)
  BY DEF RollInv
<1>1. Alone(d)'
  BY <1>0, OtherFrame DEF Alone, InWindow
<1>2. ~Age
  <2>. SUFFICES ASSUME Age PROVE FALSE
    OBVIOUS
  <2>1. PICK r \in file : IF proc[r.pid].pc # "over"
                          THEN faults' = [faults EXCEPT !.sleeps = @ + 1]
                          ELSE UNCHANGED faults
    BY DEF Age
  <2>2. r.pid = d
    BY <1>0 DEF Holds, TypeInv, FileOK
  <2>3. proc[r.pid].pc # "over"
    BY <2>2 DEF Rolling
  <2>. QED
    BY <2>1, <2>3 DEF TypeInv
<1>3. file' = file
  BY <1>2 DEF WaitStart, WaitPoll
<1>. QED
  BY <1>0, <1>1, <1>3 DEF Holds

(* A deploy that rolls out stays named by the record, and alone in the window, through every *)
(* step.                                                                                     *)
LEMMA RollNext ==
  ASSUME TypeInv, LifeInv, RaceInv, RollInv, [Next]_vars
  PROVE  RollInv'
<1>. SUFFICES ASSUME ~raced', faults'.sleeps = 0, NEW d \in Rolling' PROVE Holds(d)' /\ Alone(d)'
  BY DEF RollInv
<1>0. d \in Deploys /\ proc'[d].pc = "rolling"
  BY DEF Rolling
<1>1. CASE UNCHANGED vars
  BY <1>1 DEF vars, RollInv, Rolling, Holds, Alone, InWindow
<1>2. CASE Next
  <2>1. ~raced /\ ~Crowded
    BY <1>2 DEF Next, TypeInv, RaceInv
  <2>2. faults.sleeps = 0
    <3>1. \/ faults' = faults
          \/ faults' = [faults EXCEPT !.kills = @ + 1]
          \/ faults' = [faults EXCEPT !.sleeps = @ + 1]
      BY <1>2 DEF Next, Step, Deploy, Launcher, StartForeground, Check, PrepareFails, TrackerStart,
         Phase, TrackerEnd, Kill, Reuse, LaunchCheck, Spawn, LaunchRead, LaunchWrite, KillLaunch,
         WaitStart, WaitPoll, Age
    <3>. QED
      BY <3>1 DEF TypeInv
  <2>3. ASSUME NEW e \in Deploys, Deploy(e) PROVE Holds(d)' /\ Alone(d)'
    <3>1. CASE e = d
      BY <1>0, <2>1, <2>2, <2>3, <3>1, OwnStepKeeps
    <3>2. CASE e # d
      <4>1. d \in Rolling
        BY <1>0, <2>3, <3>2, DeployFrame DEF Rolling
      <4>. QED
        BY <2>1, <2>2, <2>3, <3>2, <4>1, OtherDeployKeeps
    <3>. QED
      BY <3>1, <3>2
  <2>4. ASSUME NEW e \in Background, Launcher(e) PROVE Holds(d)' /\ Alone(d)'
    <3>1. proc' = proc \/ proc' = [proc EXCEPT ![e].pc = "new"]
      BY <2>4, LauncherFrame DEF Spawn, KillLaunch
    <3>2. proc'[d].pc = "rolling" /\ e \in Deploys
      BY <1>0
    <3>3. proc[d].pc = "rolling"
      BY <1>0, <3>1, <3>2 DEF TypeInv, Proc
    <3>4. d \in Rolling
      BY <1>0, <3>3 DEF Rolling
    <3>. QED
      BY <2>1, <2>2, <2>4, <3>4, LauncherKeeps
  <2>5. CASE WaitStart \/ WaitPoll \/ Age
    <3>1. d \in Rolling
      BY <1>0, <2>5, OtherFrame DEF Rolling
    <3>. QED
      BY <2>1, <2>2, <2>5, <3>1, OtherKeeps
  <2>. QED
    BY <1>2, <2>3, <2>4, <2>5 DEF Next, Step
<1>. QED
  BY <1>1, <1>2

(* Two deploys that roll out would both be named by the one record. *)
LEMMA AtMostOneRolls == ASSUME TypeInv, RollInv PROVE OneRolloutUnlessRaced
<1>. SUFFICES ASSUME ~raced, faults.sleeps = 0 PROVE Cardinality(Rolling) <= 1
  BY DEF OneRolloutUnlessRaced, OneRollout
<1>1. \A d, e \in Rolling : d = e
  BY HeldByOne DEF RollInv
<1>2. Rolling = {} \/ \E d : Rolling = {d}
  BY <1>1
<1>. QED
  BY <1>2, FewFiles, Zenon

(* No second deploy starts a concurrent rollout, unless two are between     *)
(* check and record at once or a rollout sleeps through STALE_AFTER_S.      *)
THEOREM OneRolloutIsEnforced == Spec => []OneRolloutUnlessRaced
<1>1. Init => TypeInv /\ LifeInv /\ RaceInv /\ RollInv
  BY InitType, LifeInit, RaceInit, RollInit
<1>2. TypeInv /\ LifeInv /\ RaceInv /\ RollInv /\ [Next]_vars
        => (TypeInv /\ LifeInv /\ RaceInv /\ RollInv)'
  BY NextType, LifeNext, RaceNext, RollNext
<1>3. TypeInv /\ RollInv => OneRolloutUnlessRaced
  BY AtMostOneRolls
<1>. QED
  BY <1>1, <1>2, <1>3, PTL DEF Spec

-----------------------------------------------------------------------------
(* ModelSwitch.                                                               *)

HIDE RecordAssumption DEF RecordAssumption


ValuesOf(x) == IF x \in ModelServices THEN ModelChoices ELSE Nat
Maps        == {f \in [Things -> ModelChoices \cup Nat] : \A x \in Things : f[x] \in ValuesOf(x)}
Action      == [things : SUBSET Things, was : Maps, to : Maps, undone : SUBSET Things]
Reports     == [was : Maps, best : [ModelServices -> ModelChoices], rewrites : SUBSET Prompts]
Promoting   == {"set", "services", "rewrites", "record"}
CliShape    == [pc : {"idle", "check", "restore", "undo"} \cup Promoting,
                todo : SUBSET Things, was : {<<>>} \cup Maps, to : {<<>>} \cup Maps,
                moved : SUBSET Things, index : Nat, step : {1, 2}, raced : BOOLEAN]

SwitchTypeOK ==
  /\ now \in Maps /\ previous \in [Prompts -> Nat] /\ latest \in [Prompts -> Nat]
  /\ report \in {NoReport} \cup Reports /\ actions \in Seq(Action)
  /\ cli \in CliShape /\ (~CliAt("idle") => cli.was \in Maps /\ cli.to \in Maps)
  /\ astray \in SUBSET Things /\ trouble \in Nat

(* What the actions that are not undone say about a thing: where it was before the first,   *)
(* where each found it, and where it may be after the last.                                 *)
Entries(acts, x) == {k \in DOMAIN acts : x \in acts[k].things \ acts[k].undone}
IsLast(acts, x, k)  == k \in Entries(acts, x) /\ \A j \in Entries(acts, x) : j <= k
Fits(acts, x, v) ==
  /\ Entries(acts, x) = {} => v = First(x)
  /\ \A k \in Entries(acts, x) : IsLast(acts, x, k) => v \in {acts[k].to[x], acts[k].was[x]}
Begins(acts, x, k) ==
  (\A j \in Entries(acts, x) : k <= j) => acts[k].was[x] = First(x)
Links(acts, x, j, k) ==
  j < k /\ (\A i \in Entries(acts, x) : i <= j \/ k <= i) => acts[k].was[x] \in {acts[j].to[x], acts[j].was[x]}
Chained(acts, x) ==
  /\ \A k \in Entries(acts, x) : Begins(acts, x, k)
  /\ \A j, k \in Entries(acts, x) : Links(acts, x, j, k)

(* What the running command has moved, and may have to take back, is not in the history.    *)
Pending(c, x)   == (c.pc \in Promoting /\ x \in c.moved) \/ (c.pc = "restore" /\ x \in c.todo)
Origin(c, n, x) == IF Pending(c, x) THEN c.was[x] ELSE n[x]

HistoryIsWhole == \A x \in Things \ astray : Chained(actions, x) /\ Fits(actions, x, Origin(cli, now, x))

(* Where a command's things are, unless somebody else moved them during the command.        *)
NextUndo(todo) == LET S == todo \cap ModelServices IN CHOOSE x \in (IF S # {} THEN S ELSE todo) : TRUE
Untouched(c, far, x) == x \notin far \/ c.raced = FALSE
KnowsOf(c, n, x) ==
  /\ c.pc \in Promoting => n[x] = IF x \in c.moved THEN c.to[x] ELSE c.was[x]
  /\ c.pc = "check" /\ x \in ModelServices => n[x] = c.was[x]
  /\ c.pc = "undo" /\ x \in c.todo => n[x] = IF c.step = 2 /\ x = NextUndo(c.todo) THEN c.was[x] ELSE c.to[x]
CommandKnows == \A x \in Things : Untouched(cli, astray, x) => KnowsOf(cli, now, x)

Undoes(c, acts) ==
  /\ c.index \in DOMAIN acts /\ c.was = acts[c.index].was
  /\ \A x \in c.todo : IsLast(acts, x, c.index) /\ c.to[x] \in {acts[c.index].to[x], c.was[x]}
Steers(c, acts, rep) ==
  /\ c.pc = "set" => c.todo \subseteq ModelServices /\ c.moved = {}
  /\ c.pc \in {"check", "services", "rewrites"} => rep \in Reports /\ c.was = rep.was
  /\ c.pc = "check" => c.todo \subseteq ModelServices /\ c.moved = {}
  /\ c.pc = "services" => c.todo \subseteq ModelServices /\ c.moved \subseteq ModelServices /\ c.todo \cap c.moved = {}
  /\ c.pc = "rewrites" => c.todo \subseteq Prompts /\ c.todo \cap c.moved = {}
  /\ c.pc = "restore" => c.todo \subseteq c.moved
  /\ c.pc = "undo" => Undoes(c, acts)
CommandIsSound == Steers(cli, actions, report)

SwitchInv == SwitchTypeOK /\ HistoryIsWhole /\ CommandKnows /\ CommandIsSound

-----------------------------------------------------------------------------
(* Every set of numbers has a last one if it is bounded. *)
LEMMA LastExists ==
  ASSUME NEW n \in Nat, NEW S \in SUBSET (1..n), S # {}
  PROVE  /\ LastOf(S) \in S /\ \A j \in S : j <= LastOf(S)
<1>. DEFINE T == {m \in Nat : n - m \in S}
<1>. HIDE DEF T
<1>1. T \in SUBSET Nat
  BY DEF T
<1>2. \A k \in S : k \in Nat /\ n - k \in Nat /\ n - (n - k) = k
  OBVIOUS
<1>3. \A k \in S : n - k \in T
  BY <1>2 DEF T
<1>4. T # {}
  BY <1>3
<1>5. PICK t \in T : \A m \in T : t <= m
  <2>. DEFINE R == {ss \in Nat \X Nat : ss[1] < ss[2]}
  <2>1. IsWellFoundedOn(R, Nat)
    BY NatLessThanWellFounded DEF OpToRel
  <2>. HIDE DEF R
  <2>2. PICK t \in T : \A m \in T : ~(<<m, t>> \in R)
    BY <2>1, <1>1, <1>4, WFMin
  <2>3. \A m, k \in Nat : m < k => <<m, k>> \in R
    BY DEF R
  <2>4. \A m \in T : t \in Nat /\ m \in Nat /\ ~(m < t)
    BY <2>2, <2>3, <1>1
  <2>. QED
    BY <2>4
<1>6. n - t \in S /\ t \in Nat
  BY <1>1 DEF T
<1>7. \A j \in S : j <= n - t
  <2>. TAKE j \in S
  <2>1. t <= n - j
    BY <1>3, <1>5
  <2>. QED
    BY <2>1, <1>2, <1>6
<1>8. \E k \in S : \A j \in S : j <= k
  BY <1>6, <1>7
<1>. QED
  BY <1>8 DEF LastOf

(* The things and their values. *)
LEMMA FirstIs == \A x \in Things : First(x) \in ValuesOf(x)
  BY SwitchAssumption DEF First, ValuesOf

(* A map gives each thing a value of its kind, and still does when one is changed. *)
LEMMA MapsAre ==
  ASSUME NEW f \in Maps
  PROVE  /\ f \in [Things -> ModelChoices \cup Nat] /\ \A x \in Things : f[x] \in ValuesOf(x)
         /\ \A x \in Things : \A v \in ValuesOf(x) :
              LET g == [f EXCEPT ![x] = v]
              IN  g \in Maps /\ g[x] = v /\ \A y \in Things : y # x => g[y] = f[y]
  BY DEF Maps, ValuesOf

(* A call that moves a thing moves no other. *)
LEMMA MoveToIs ==
  ASSUME SwitchTypeOK, NEW x \in Things, NEW v \in ValuesOf(x), MoveTo(x, v)
  PROVE  /\ now' \in Maps /\ now'[x] = v /\ (\A y \in Things : y # x => now'[y] = now[y])
         /\ latest' \in [Prompts -> Nat]
<1>1. now \in Maps /\ now' = [now EXCEPT ![x] = v]
  BY DEF SwitchTypeOK, MoveTo
<1>2. latest' \in [Prompts -> Nat]
  <2>1. CASE x \in Prompts /\ v > latest[x]
    <3>1. v \in Nat
      BY <2>1, SwitchAssumption DEF ValuesOf
    <3>. QED
      BY <2>1, <3>1 DEF SwitchTypeOK, MoveTo
  <2>2. CASE ~(x \in Prompts /\ v > latest[x])
    BY <2>2 DEF SwitchTypeOK, MoveTo
  <2>. QED
    BY <2>1, <2>2
<1>. QED
  BY <1>1, <1>2, MapsAre

(* The fields of the history. *)
LEMMA ActionsAre ==
  ASSUME SwitchTypeOK
  PROVE  /\ Len(actions) \in Nat /\ DOMAIN actions = 1..Len(actions)
         /\ \A k \in DOMAIN actions : /\ actions[k] \in Action
                                      /\ actions[k].was \in Maps /\ actions[k].to \in Maps
                                      /\ actions[k].things \subseteq Things /\ actions[k].undone \subseteq Things
<1>1. \A k \in DOMAIN actions : actions[k] \in Action
  BY DEF SwitchTypeOK
<1>. QED
  BY <1>1 DEF SwitchTypeOK, Action

(* The types of the running command. *)
LEMMA CliFields ==
  ASSUME SwitchTypeOK
  PROVE  /\ cli.pc \in {"idle", "check", "restore", "undo"} \cup Promoting
         /\ cli.todo \subseteq Things /\ cli.moved \subseteq Things /\ cli.index \in Nat
         /\ cli.step \in {1, 2} /\ cli.raced \in BOOLEAN
         /\ cli.pc # "idle" => cli.was \in Maps /\ cli.to \in Maps
  BY DEF SwitchTypeOK, CliShape, CliAt

(* The command that is not there. *)
LEMMA NoCliIs ==
  /\ NoCli \in CliShape /\ NoCli.pc = "idle" /\ NoCli.moved = {} /\ NoCli.todo = {} /\ ~NoCli.raced
  BY DEF NoCli, CliShape, Promoting

(* A history that stays fits as before. *)
LEMMA HistoryKept ==
  ASSUME HistoryIsWhole, actions' = actions, astray \subseteq astray',
         \A x \in Things \ astray' :
            Origin(cli', now', x) = Origin(cli, now, x) \/ Fits(actions, x, Origin(cli', now', x))
  PROVE  HistoryIsWhole'
<1>. SUFFICES ASSUME NEW x \in Things \ astray'
              PROVE  Chained(actions', x) /\ Fits(actions', x, Origin(cli', now', x))
  BY DEF HistoryIsWhole
<1>1. Chained(actions, x) /\ Fits(actions, x, Origin(cli, now, x))
  BY DEF HistoryIsWhole
<1>2. Fits(actions, x, Origin(cli', now', x))
  BY <1>1
<1>. QED
  BY <1>1, <1>2

(* What the invariant says after a step, by the fields that the step gives. *)
LEMMA InvHolds ==
  ASSUME NEW n, NEW p, NEW l, NEW r, NEW acts, NEW c, NEW far, NEW tr,
         now' = n, previous' = p, latest' = l, report' = r, actions' = acts, cli' = c, astray' = far, trouble' = tr,
         n \in Maps, p \in [Prompts -> Nat], l \in [Prompts -> Nat], r \in {NoReport} \cup Reports,
         acts \in Seq(Action), c \in CliShape, c.pc # "idle" => c.was \in Maps /\ c.to \in Maps,
         far \in SUBSET Things, tr \in Nat,
         \A x \in Things \ far : Chained(acts, x) /\ Fits(acts, x, Origin(c, n, x)),
         \A x \in Things : Untouched(c, far, x) => KnowsOf(c, n, x),
         Steers(c, acts, r)
  PROVE  SwitchInv'
<1>1. SwitchTypeOK'
  BY DEF SwitchTypeOK, CliAt
<1>2. HistoryIsWhole'
  BY DEF HistoryIsWhole
<1>3. CommandKnows'
  BY DEF CommandKnows
<1>4. CommandIsSound'
  BY DEF CommandIsSound
<1>. QED
  BY <1>1, <1>2, <1>3, <1>4 DEF SwitchInv

(* What the invariant says before a step. *)
LEMMA InvGives ==
  ASSUME SwitchInv
  PROVE  /\ now \in Maps /\ previous \in [Prompts -> Nat] /\ latest \in [Prompts -> Nat]
         /\ report \in {NoReport} \cup Reports /\ actions \in Seq(Action) /\ cli \in CliShape
         /\ (cli.pc # "idle" => cli.was \in Maps /\ cli.to \in Maps)
         /\ astray \in SUBSET Things /\ trouble \in Nat
         /\ \A x \in Things \ astray : Chained(actions, x) /\ Fits(actions, x, Origin(cli, now, x))
         /\ \A x \in Things : Untouched(cli, astray, x) => KnowsOf(cli, now, x)
         /\ Steers(cli, actions, report)
  BY DEF SwitchInv, SwitchTypeOK, HistoryIsWhole, CommandKnows, CommandIsSound, CliAt

(* An idle command knows and steers nothing. *)
LEMMA IdleKnows ==
  /\ \A n, x : KnowsOf(NoCli, n, x)
  /\ \A acts, rep : Steers(NoCli, acts, rep)
  /\ \A n, x : Origin(NoCli, n, x) = n[x]
  BY DEF NoCli, KnowsOf, Steers, Origin, Pending, Promoting

(* A command that ends with nothing left to take back. *)
LEMMA CliDoneKeeps ==
  ASSUME SwitchInv, CliDone, \A x \in Things \ astray : ~Pending(cli, x)
  PROVE  SwitchInv'
<1>1. /\ now' = now /\ previous' = previous /\ latest' = latest /\ report' = report /\ actions' = actions
      /\ astray' = astray /\ trouble' = trouble /\ cli' = NoCli
  BY DEF CliDone
<1>2. \A x \in Things \ astray : Origin(NoCli, now, x) = Origin(cli, now, x)
  BY IdleKnows DEF Origin
<1>3. NoCli \in CliShape /\ NoCli.pc = "idle"
  BY NoCliIs
<1>. QED
  BY <1>1, <1>2, <1>3, IdleKnows, InvGives, InvHolds

(* A command that goes on, or begins, and moves nothing. *)
LEMMA CliGoesKeeps ==
  ASSUME SwitchInv, NEW c \in CliShape, CliGoes(c), c.was \in Maps, c.to \in Maps,
         \A x \in Things \ astray : Origin(c, now, x) = Origin(cli, now, x),
         \A x \in Things : Untouched(c, astray, x) => KnowsOf(c, now, x),
         Steers(c, actions, report)
  PROVE  SwitchInv'
<1>1. /\ now' = now /\ previous' = previous /\ latest' = latest /\ report' = report /\ actions' = actions
      /\ astray' = astray /\ trouble' = trouble /\ cli' = c
  BY DEF CliGoes
<1>. QED
  BY <1>1, InvGives, InvHolds

(* A set begins where its service is. *)
LEMMA BeginSetKeeps ==
  ASSUME SwitchInv, NEW s \in ModelServices, NEW m \in ModelChoices, BeginSet(s, m)
  PROVE  SwitchInv'
<1>. DEFINE c == [NoCli EXCEPT !.pc = "set", !.todo = {s}, !.was = now, !.to = [now EXCEPT ![s] = m]]
<1>1. now \in Maps /\ [now EXCEPT ![s] = m] \in Maps /\ s \in Things
  BY InvGives, MapsAre DEF Things, ValuesOf
<1>2. /\ c \in CliShape /\ c.pc = "set" /\ c.todo = {s} /\ c.was = now /\ c.to = [now EXCEPT ![s] = m]
      /\ c.moved = {}
  BY <1>1 DEF NoCli, CliShape, Promoting
<1>3. CliGoes(c) /\ cli.pc = "idle"
  BY DEF BeginSet, CliAt
<1>. HIDE DEF c
<1>4. \A x \in Things : Origin(c, now, x) = Origin(cli, now, x)
  BY <1>2, <1>3 DEF Origin, Pending, Promoting
<1>5. \A x \in Things : KnowsOf(c, now, x)
  BY <1>2 DEF KnowsOf
<1>6. Steers(c, actions, report)
  BY <1>2 DEF Steers
<1>. QED
  BY <1>1, <1>2, <1>3, <1>4, <1>5, <1>6, CliGoesKeeps

(* An apply begins where its services are. *)
LEMMA BeginApplyKeeps ==
  ASSUME SwitchInv, BeginApply
  PROVE  SwitchInv'
<1>. DEFINE to == [x \in Things |-> IF x \in ModelServices THEN report.best[x] ELSE 0]
            c  == [NoCli EXCEPT !.pc = "check", !.was = report.was, !.todo = Better, !.to = to]
<1>1. report \in Reports /\ report.was \in Maps /\ report.best \in [ModelServices -> ModelChoices]
  BY InvGives DEF BeginApply, Reports
<1>2. to \in Maps
  BY <1>1 DEF Maps, ValuesOf
<1>3. Better \subseteq ModelServices /\ Better \subseteq Things
  BY DEF Better, Things
<1>. HIDE DEF to
<1>4. /\ c \in CliShape /\ c.pc = "check" /\ c.todo = Better /\ c.was = report.was /\ c.to = to
      /\ c.moved = {}
  BY <1>1, <1>2, <1>3 DEF NoCli, CliShape, Promoting
<1>5. CliGoes(c) /\ cli.pc = "idle" /\ \A s \in ModelServices : now[s] = report.was[s]
  BY DEF BeginApply, CliAt, MovedSince, to
<1>. HIDE DEF c
<1>6. \A x \in Things : Origin(c, now, x) = Origin(cli, now, x)
  BY <1>4, <1>5 DEF Origin, Pending, Promoting
<1>7. \A x \in Things : KnowsOf(c, now, x)
  BY <1>4, <1>5 DEF KnowsOf, Promoting
<1>8. Steers(c, actions, report)
  BY <1>1, <1>3, <1>4 DEF Steers
<1>. QED
  BY <1>1, <1>2, <1>4, <1>5, <1>6, <1>7, <1>8, CliGoesKeeps

(* An apply goes on only if the prompts are where its search saw them. *)
LEMMA CheckPromptsKeeps ==
  ASSUME SwitchInv, CheckPrompts
  PROVE  SwitchInv'
<1>. DEFINE c == [cli EXCEPT !.pc = "services"]
<1>1. cli \in CliShape /\ cli.pc = "check" /\ cli.was \in Maps /\ cli.to \in Maps /\ Steers(cli, actions, report)
  BY InvGives DEF CheckPrompts, CliAt
<1>2. cli.moved = {} /\ cli.todo \subseteq ModelServices
  BY <1>1 DEF Steers
<1>3. CASE \A x \in Prompts : now[x] = cli.was[x]
  <2>1. /\ c \in CliShape /\ c.pc = "services" /\ c.todo = cli.todo /\ c.was = cli.was /\ c.to = cli.to
        /\ c.moved = {} /\ c.raced = cli.raced
    BY <1>1, <1>2 DEF CliShape, Promoting
  <2>2. CliGoes(c)
    BY <1>3 DEF CheckPrompts
  <2>. HIDE DEF c
  <2>3. \A x \in Things : Origin(c, now, x) = Origin(cli, now, x)
    BY <2>1, <1>1 DEF Origin, Pending, Promoting
  <2>4. \A x \in Things : Untouched(c, astray, x) => KnowsOf(c, now, x)
    <3>. SUFFICES ASSUME NEW x \in Things, Untouched(c, astray, x)
                  PROVE  KnowsOf(c, now, x)
      OBVIOUS
    <3>1. KnowsOf(cli, now, x)
      BY <2>1, InvGives DEF Untouched
    <3>. QED
      BY <3>1, <1>1, <2>1, <1>3 DEF KnowsOf, Things
  <2>5. Steers(c, actions, report)
    BY <1>1, <1>2, <2>1 DEF Steers
  <2>. QED
    BY <1>1, <2>1, <2>2, <2>3, <2>4, <2>5, CliGoesKeeps
<1>4. CASE ~ \A x \in Prompts : now[x] = cli.was[x]
  <2>1. CliDone
    BY <1>4 DEF CheckPrompts
  <2>. QED
    BY <2>1, <1>1, CliDoneKeeps DEF Pending, Promoting
<1>. QED
  BY <1>3, <1>4

(* When the services are done the prompts follow. *)
LEMMA ServicesDoneKeeps ==
  ASSUME SwitchInv, ServicesDone
  PROVE  SwitchInv'
<1>. DEFINE c == [cli EXCEPT !.pc = "rewrites", !.todo = report.rewrites]
<1>1. cli \in CliShape /\ cli.pc = "services" /\ cli.was \in Maps /\ cli.to \in Maps /\ Steers(cli, actions, report)
  BY InvGives DEF ServicesDone, CliAt
<1>2. cli.moved \subseteq ModelServices /\ report \in Reports /\ cli.was = report.was
  BY <1>1 DEF Steers
<1>3. report.rewrites \subseteq Prompts /\ report.rewrites \subseteq Things
  BY <1>2 DEF Reports, Things
<1>4. /\ c \in CliShape /\ c.pc = "rewrites" /\ c.todo = report.rewrites /\ c.was = cli.was /\ c.to = cli.to
      /\ c.moved = cli.moved /\ c.raced = cli.raced
  BY <1>1, <1>3 DEF CliShape, Promoting
<1>5. CliGoes(c)
  BY DEF ServicesDone
<1>. HIDE DEF c
<1>6. \A x \in Things : Origin(c, now, x) = Origin(cli, now, x)
  BY <1>1, <1>4 DEF Origin, Pending, Promoting
<1>7. \A x \in Things : Untouched(c, astray, x) => KnowsOf(c, now, x)
  <2>. SUFFICES ASSUME NEW x \in Things, Untouched(c, astray, x)
                PROVE  KnowsOf(c, now, x)
    OBVIOUS
  <2>1. KnowsOf(cli, now, x)
    BY <1>4, InvGives DEF Untouched
  <2>. QED
    BY <2>1, <1>1, <1>4 DEF KnowsOf, Promoting
<1>8. Steers(c, actions, report)
  BY <1>2, <1>3, <1>4, SwitchAssumption DEF Steers
<1>. QED
  BY <1>1, <1>4, <1>5, <1>6, <1>7, <1>8, CliGoesKeeps

(* When the prompts are done the command records what it did. *)
LEMMA PromptsDoneKeeps ==
  ASSUME SwitchInv, PromptsDone
  PROVE  SwitchInv'
<1>. DEFINE c == [cli EXCEPT !.pc = "record"]
<1>1. cli \in CliShape /\ cli.pc = "rewrites" /\ cli.was \in Maps /\ cli.to \in Maps
  BY InvGives DEF PromptsDone, CliAt
<1>2. /\ c \in CliShape /\ c.pc = "record" /\ c.todo = cli.todo /\ c.was = cli.was /\ c.to = cli.to
      /\ c.moved = cli.moved /\ c.raced = cli.raced
  BY <1>1 DEF CliShape, Promoting
<1>3. CliGoes(c)
  BY DEF PromptsDone
<1>. HIDE DEF c
<1>4. \A x \in Things : Origin(c, now, x) = Origin(cli, now, x)
  BY <1>1, <1>2 DEF Origin, Pending, Promoting
<1>5. \A x \in Things : Untouched(c, astray, x) => KnowsOf(c, now, x)
  <2>. SUFFICES ASSUME NEW x \in Things, Untouched(c, astray, x)
                PROVE  KnowsOf(c, now, x)
    OBVIOUS
  <2>1. KnowsOf(cli, now, x)
    BY <1>2, InvGives DEF Untouched
  <2>. QED
    BY <2>1, <1>1, <1>2 DEF KnowsOf, Promoting
<1>6. Steers(c, actions, report)
  BY <1>2 DEF Steers
<1>. QED
  BY <1>1, <1>2, <1>3, <1>4, <1>5, <1>6, CliGoesKeeps

(* A restore, or a rollback, that has nothing left to do. *)
LEMMA RestoreDoneKeeps ==
  ASSUME SwitchInv, RestoreDone
  PROVE  SwitchInv'
  BY CliDoneKeeps DEF RestoreDone, CliAt, Pending, Promoting

(* As RestoreDoneKeeps. *)
LEMMA UndoDoneKeeps ==
  ASSUME SwitchInv, UndoDone
  PROVE  SwitchInv'
  BY CliDoneKeeps DEF UndoDone, CliAt, Pending, Promoting

(* A search's report moves nothing. *)
LEMMA RecommendKeeps ==
  ASSUME SwitchInv, NEW best \in [ModelServices -> ModelChoices], NEW rewrites \in SUBSET Prompts,
         Recommend(best, rewrites)
  PROVE  SwitchInv'
<1>. DEFINE r == [was |-> now, best |-> best, rewrites |-> rewrites]
<1>1. /\ now' = now /\ previous' = previous /\ latest' = latest /\ report' = r /\ actions' = actions
      /\ astray' = astray /\ trouble' = trouble /\ cli' = cli /\ cli.pc = "idle"
  BY DEF Recommend, CliAt
<1>2. r \in Reports
  BY InvGives DEF Reports
<1>. HIDE DEF r
<1>3. Steers(cli, actions, r)
  BY <1>1 DEF Steers
<1>. QED
  BY <1>1, <1>2, <1>3, InvGives, InvHolds

(* The last action about a thing is the last that is not undone for it. *)
LEMMA LastAboutIs ==
  ASSUME SwitchInv, NEW x
  PROVE  /\ LastAbout(x) = 0 \/ IsLast(actions, x, LastAbout(x))
         /\ LastAbout(x) = 0 <=> Entries(actions, x) = {}
<1>1. Len(actions) \in Nat /\ DOMAIN actions = 1..Len(actions)
  BY ActionsAre DEF SwitchInv
<1>2. LastAbout(x) = LastOf(Entries(actions, x))
  BY DEF LastAbout, Entries, Outstanding
<1>3. Entries(actions, x) \in SUBSET (1..Len(actions))
  BY <1>1 DEF Entries
<1>4. CASE Entries(actions, x) = {}
  BY <1>2, <1>4 DEF LastOf
<1>5. CASE Entries(actions, x) # {}
  <2>1. LastAbout(x) \in Entries(actions, x) /\ \A j \in Entries(actions, x) : j <= LastAbout(x)
    BY <1>1, <1>2, <1>3, <1>5, LastExists
  <2>2. LastAbout(x) # 0
    BY <2>1, <1>3, <1>1
  <2>. QED
    BY <2>1, <2>2, <1>5 DEF IsLast
<1>. QED
  BY <1>4, <1>5

(* A rollback begins where the action it undoes, the last about its things, left them. *)
LEMMA BeginRollbackKeeps ==
  ASSUME SwitchInv, NEW k \in DOMAIN actions, NEW pending \in SUBSET Things,
         \A x \in pending : IsLast(actions, x, k), BeginRollback(k, pending)
  PROVE  SwitchInv'
<1>. DEFINE c == [NoCli EXCEPT !.pc = "undo", !.todo = pending, !.index = k, !.was = actions[k].was, !.to = now]
<1>1. now \in Maps /\ actions[k].was \in Maps /\ k \in Nat
  BY ActionsAre, InvGives DEF SwitchInv
<1>2. /\ c \in CliShape /\ c.pc = "undo" /\ c.todo = pending /\ c.was = actions[k].was /\ c.to = now
      /\ c.moved = {} /\ c.index = k /\ c.step = 1
  BY <1>1 DEF NoCli, CliShape, Promoting
<1>3. CliGoes(c) /\ cli.pc = "idle" /\ \A x \in pending : now[x] \in {actions[k].to[x], actions[k].was[x]}
  BY DEF BeginRollback, CliAt
<1>. HIDE DEF c
<1>4. \A x \in Things : Origin(c, now, x) = Origin(cli, now, x)
  BY <1>2, <1>3 DEF Origin, Pending, Promoting
<1>5. \A x \in Things : KnowsOf(c, now, x)
  BY <1>2 DEF KnowsOf, Promoting
<1>6. Steers(c, actions, report)
  BY <1>2, <1>3 DEF Steers, Undoes
<1>. QED
  BY <1>1, <1>2, <1>3, <1>4, <1>5, <1>6, CliGoesKeeps

(* A rollback of a service undoes the last action about it. *)
LEMMA RollbackRoleKeeps ==
  ASSUME SwitchInv, NEW s \in ModelServices, RollbackRole(s)
  PROVE  SwitchInv'
<1>. DEFINE k == LastAbout(s)
<1>. HIDE DEF k
<1>1. k # 0 /\ BeginRollback(k, {s}) /\ s \in Things
  BY DEF RollbackRole, BeginRollback, k, Things
<1>2. IsLast(actions, s, k) /\ k \in DOMAIN actions
  BY <1>1, LastAboutIs DEF k, IsLast, Entries
<1>. QED
  BY <1>1, <1>2, BeginRollbackKeeps

(* A rollback of an action undoes the last action that is not all undone. *)
LEMMA RollbackActionKeeps ==
  ASSUME SwitchInv, RollbackAction
  PROVE  SwitchInv'
<1>. DEFINE S == {k \in DOMAIN actions : Outstanding(actions[k]) # {}}
            k == LastOf(S)
<1>1. Len(actions) \in Nat /\ DOMAIN actions = 1..Len(actions)
  BY ActionsAre DEF SwitchInv
<1>2. S \in SUBSET (1..Len(actions))
  BY <1>1
<1>3. k # 0 /\ BeginRollback(k, Outstanding(actions[k]))
  BY DEF RollbackAction
<1>4. S # {}
  BY <1>3 DEF LastOf
<1>5. k \in S /\ \A j \in S : j <= k
  <2>. HIDE DEF S
  <2>. QED
    BY <1>1, <1>2, <1>4, LastExists
<1>6. k \in DOMAIN actions
  BY <1>5
<1>7. \A x \in Outstanding(actions[k]) : IsLast(actions, x, k)
  <2>. SUFFICES ASSUME NEW x \in Outstanding(actions[k])
                PROVE  IsLast(actions, x, k)
    OBVIOUS
  <2>1. \A j \in Entries(actions, x) : j \in S
    BY DEF Entries, Outstanding
  <2>2. k \in Entries(actions, x)
    BY <1>6 DEF Entries, Outstanding
  <2>. HIDE DEF S, k
  <2>. QED
    BY <2>1, <2>2, <1>5 DEF IsLast
<1>8. Outstanding(actions[k]) \in SUBSET Things
  BY <1>6, ActionsAre DEF Outstanding, SwitchInv
<1>. HIDE DEF k
<1>. QED
  BY <1>3, <1>6, <1>7, <1>8, BeginRollbackKeeps

(* A set moves its service from where the history has it. *)
LEMMA SetServiceKeeps ==
  ASSUME SwitchInv, NEW s \in ModelServices, SetService(s)
  PROVE  SwitchInv'
<1>. DEFINE c == [cli EXCEPT !.pc = "record", !.todo = {}, !.moved = {s}]
<1>1. cli \in CliShape /\ cli.pc = "set" /\ cli.was \in Maps /\ cli.to \in Maps /\ Steers(cli, actions, report)
  BY InvGives DEF SetService, CliAt
<1>2. cli.moved = {} /\ s \in Things
  BY <1>1 DEF Steers, Things
<1>3. /\ c \in CliShape /\ c.pc = "record" /\ c.todo = {} /\ c.was = cli.was /\ c.to = cli.to
      /\ c.moved = {s} /\ c.raced = cli.raced
  BY <1>1, <1>2 DEF CliShape, Promoting
<1>4. /\ previous' = previous /\ report' = report /\ actions' = actions
      /\ astray' = astray /\ trouble' = trouble /\ cli' = c /\ MoveTo(s, cli.to[s])
  BY DEF SetService
<1>. HIDE DEF c
<1>5. cli.to[s] \in ValuesOf(s)
  BY <1>1, <1>2, MapsAre
<1>6. /\ now' \in Maps /\ now'[s] = cli.to[s] /\ (\A y \in Things : y # s => now'[y] = now[y])
      /\ latest' \in [Prompts -> Nat]
  BY <1>2, <1>4, <1>5, MoveToIs DEF SwitchInv
<1>7. \A x \in Things : Untouched(cli, astray, x) => now[x] = cli.was[x]
  BY <1>1, <1>2, InvGives DEF KnowsOf, Promoting
<1>8. \A x \in Things \ astray : Origin(c, now', x) = Origin(cli, now, x)
  BY <1>1, <1>2, <1>3, <1>6, <1>7 DEF Origin, Pending, Promoting, Untouched
<1>9. \A x \in Things : Untouched(c, astray, x) => KnowsOf(c, now', x)
  BY <1>3, <1>6, <1>7 DEF KnowsOf, Promoting, Untouched
<1>10. Steers(c, actions, report)
  BY <1>3 DEF Steers
<1>11. \A x \in Things \ astray : Chained(actions, x) /\ Fits(actions, x, Origin(c, now', x))
  BY <1>8, InvGives
<1>. QED
  BY <1>1, <1>3, <1>4, <1>6, <1>9, <1>10, <1>11, InvGives, InvHolds

(* A promotion moves a thing from where the report has it. *)
LEMMA PromotedKeeps ==
  ASSUME SwitchInv, cli.pc \in {"services", "rewrites"}, NEW t \in cli.todo, NEW v \in ValuesOf(t), Promoted(t, v)
  PROVE  SwitchInv'
<1>. DEFINE to == [cli.to EXCEPT ![t] = v]
            c  == [cli EXCEPT !.todo = cli.todo \ {t}, !.moved = cli.moved \cup {t}, !.to = to]
<1>1. cli \in CliShape /\ cli.was \in Maps /\ cli.to \in Maps /\ Steers(cli, actions, report)
  BY InvGives
<1>2. t \in Things /\ t \notin cli.moved
  BY <1>1, CliFields DEF Steers, SwitchInv
<1>3. to \in Maps /\ to[t] = v /\ \A y \in Things : y # t => to[y] = cli.to[y]
  BY <1>1, <1>2, MapsAre
<1>. HIDE DEF to
<1>4. /\ c \in CliShape /\ c.pc = cli.pc /\ c.todo = cli.todo \ {t} /\ c.was = cli.was /\ c.to = to
      /\ c.moved = cli.moved \cup {t} /\ c.raced = cli.raced
  BY <1>1, <1>2, <1>3 DEF CliShape
<1>5. /\ previous' = previous /\ report' = report /\ actions' = actions
      /\ astray' = astray /\ trouble' = trouble /\ cli' = c /\ MoveTo(t, v)
  BY DEF Promoted, to
<1>. HIDE DEF c
<1>6. /\ now' \in Maps /\ now'[t] = v /\ (\A y \in Things : y # t => now'[y] = now[y])
      /\ latest' \in [Prompts -> Nat]
  BY <1>2, <1>5, MoveToIs DEF SwitchInv
<1>7. \A x \in Things : Untouched(cli, astray, x) => now[x] = IF x \in cli.moved THEN cli.to[x] ELSE cli.was[x]
  BY InvGives DEF KnowsOf, Promoting
<1>8. \A x \in Things \ astray : Origin(c, now', x) = Origin(cli, now, x)
  BY <1>2, <1>4, <1>6, <1>7 DEF Origin, Pending, Promoting, Untouched
<1>9. \A x \in Things : Untouched(c, astray, x) => KnowsOf(c, now', x)
  BY <1>2, <1>3, <1>4, <1>6, <1>7 DEF KnowsOf, Promoting, Untouched
<1>10. Steers(c, actions, report)
  BY <1>1, <1>2, <1>4 DEF Steers
<1>11. \A x \in Things \ astray : Chained(actions, x) /\ Fits(actions, x, Origin(c, now', x))
  BY <1>8, InvGives
<1>. QED
  BY <1>1, <1>3, <1>4, <1>5, <1>6, <1>9, <1>10, <1>11, InvGives, InvHolds

(* The name of the previous version is nobody's value. *)
LEMMA KeepPreviousKeeps ==
  ASSUME SwitchInv, NEW x \in Prompts, KeepPrevious(x)
  PROVE  SwitchInv'
<1>1. cli.pc = "rewrites" /\ cli.was \in Maps /\ x \in Things
  BY InvGives DEF KeepPrevious, CliAt, Things
<1>2. cli.was[x] \in Nat
  BY <1>1, MapsAre, SwitchAssumption DEF ValuesOf
<1>3. /\ now' = now /\ latest' = latest /\ report' = report /\ actions' = actions /\ cli' = cli
      /\ astray' = astray /\ trouble' = trouble /\ previous' = [previous EXCEPT ![x] = cli.was[x]]
  BY DEF KeepPrevious
<1>4. previous' \in [Prompts -> Nat]
  BY <1>2, <1>3, InvGives
<1>. QED
  BY <1>3, <1>4, InvGives, InvHolds

(* PromotedKeeps for services and for prompts. *)
LEMMA PromoteKeeps ==
  ASSUME SwitchInv, (\E s \in ModelServices : PromoteService(s)) \/ (\E x \in Prompts : PromotePrompt(x))
  PROVE  SwitchInv'
<1>1. CASE \E s \in ModelServices : PromoteService(s)
  <2>1. PICK s \in ModelServices : PromoteService(s)
    BY <1>1
  <2>2. cli.pc = "services" /\ cli.to \in Maps /\ s \in Things /\ s \in cli.todo /\ Promoted(s, cli.to[s])
    BY <2>1, InvGives DEF PromoteService, CliAt, Things
  <2>3. cli.to[s] \in ValuesOf(s)
    BY <2>2, MapsAre
  <2>. QED
    BY <2>2, <2>3, PromotedKeeps
<1>2. CASE \E x \in Prompts : PromotePrompt(x)
  <2>1. PICK x \in Prompts : PromotePrompt(x)
    BY <1>2
  <2>2. cli.pc = "rewrites" /\ x \in cli.todo /\ Promoted(x, latest[x] + 1)
    BY <2>1 DEF PromotePrompt, CliAt
  <2>3. latest[x] + 1 \in ValuesOf(x)
    BY InvGives, SwitchAssumption DEF ValuesOf
  <2>. QED
    BY <2>2, <2>3, PromotedKeeps
<1>. QED
  BY <1>1, <1>2

(* What a call may have done, whether it failed or not. *)
LEMMA NewValueIs ==
  ASSUME SwitchInv, cli.pc # "idle", NEW x \in Things
  PROVE  NewValue(x) \in ValuesOf(x)
<1>1. CASE x \in ModelServices
  <2>1. cli.to[x] \in ValuesOf(x)
    BY InvGives, MapsAre
  <2>. QED
    BY <2>1, <1>1 DEF NewValue
<1>2. CASE x \notin ModelServices
  <2>1. x \in Prompts /\ latest[x] \in Nat
    BY <1>2, InvGives DEF Things
  <2>. QED
    BY <2>1, <1>2 DEF NewValue, ValuesOf
<1>. QED
  BY <1>1, <1>2

(* A promotion that fails takes back what it moved before. *)
LEMMA PromoteFailsKeeps ==
  ASSUME SwitchInv, NEW t \in Things, PromoteFails(t)
  PROVE  SwitchInv'
<1>. DEFINE c == [cli EXCEPT !.pc = "restore", !.todo = ToRestore(cli.moved)]
<1>1. /\ cli \in CliShape /\ cli.pc \in {"services", "rewrites"} /\ cli.was \in Maps /\ cli.to \in Maps
      /\ Steers(cli, actions, report) /\ cli.moved \subseteq Things
  BY InvGives, CliFields DEF PromoteFails, SwitchInv
<1>2. t \notin cli.moved
  BY <1>1 DEF Steers, PromoteFails
<1>3. /\ c \in CliShape /\ c.pc = "restore" /\ c.todo = cli.moved /\ c.was = cli.was /\ c.to = cli.to
      /\ c.moved = cli.moved /\ c.raced = cli.raced
  BY <1>1 DEF CliShape, ToRestore
<1>4. previous' = previous /\ report' = report /\ actions' = actions /\ cli' = c /\ trouble' \in Nat
  BY InvGives DEF PromoteFails, Troubled
<1>. HIDE DEF c
<1>5. /\ now' \in Maps /\ (\A y \in Things : y # t => now'[y] = now[y]) /\ latest' \in [Prompts -> Nat]
      /\ astray' \in SUBSET Things /\ astray \subseteq astray' /\ (t \notin astray' => now'[t] = now[t])
  <2>1. CASE UNCHANGED <<now, latest, astray>>
    BY <2>1, InvGives
  <2>2. CASE MoveTo(t, NewValue(t)) /\ astray' = astray \cup {t}
    <3>1. NewValue(t) \in ValuesOf(t)
      BY <1>1, NewValueIs
    <3>. QED
      BY <3>1, <2>2, MoveToIs, InvGives DEF SwitchInv
  <2>3. CASE Registered(t) /\ UNCHANGED astray
    BY <2>3, InvGives DEF Registered
  <2>. QED
    BY <2>1, <2>2, <2>3 DEF PromoteFails
<1>6. \A x \in Things \ astray' : Origin(c, now', x) = Origin(cli, now, x)
  BY <1>1, <1>2, <1>3, <1>5 DEF Origin, Pending, Promoting
<1>7. \A x \in Things : KnowsOf(c, now', x)
  BY <1>3 DEF KnowsOf, Promoting
<1>8. Steers(c, actions, report)
  BY <1>3 DEF Steers
<1>9. \A x \in Things \ astray' : Chained(actions, x) /\ Fits(actions, x, Origin(c, now', x))
  BY <1>5, <1>6, InvGives
<1>. QED
  BY <1>1, <1>3, <1>4, <1>5, <1>7, <1>8, <1>9, InvGives, InvHolds

(* A thing that was taken back is where it was, or the restore gave it up. *)
LEMMA RestoreKeeps ==
  ASSUME SwitchInv, NEW t \in Things, Restore(t)
  PROVE  SwitchInv'
<1>. DEFINE c == [cli EXCEPT !.todo = cli.todo \ {t}]
<1>1. /\ cli \in CliShape /\ cli.pc = "restore" /\ cli.was \in Maps /\ cli.to \in Maps
      /\ Steers(cli, actions, report) /\ t \in cli.todo /\ cli.todo \subseteq Things
  BY InvGives, CliFields DEF Restore, CliAt, SwitchInv
<1>2. /\ c \in CliShape /\ c.pc = "restore" /\ c.todo = cli.todo \ {t} /\ c.was = cli.was /\ c.to = cli.to
      /\ c.moved = cli.moved /\ c.raced = cli.raced
  BY <1>1 DEF CliShape
<1>3. previous' = previous /\ report' = report /\ actions' = actions /\ cli' = c /\ trouble' \in Nat
  BY InvGives DEF Restore, Troubled
<1>. HIDE DEF c
<1>4. /\ now' \in Maps /\ (\A y \in Things : y # t => now'[y] = now[y]) /\ latest' \in [Prompts -> Nat]
      /\ astray' \in SUBSET Things /\ astray \subseteq astray' /\ (t \notin astray' => now'[t] = cli.was[t])
  <2>1. CASE MoveTo(t, cli.was[t]) /\ UNCHANGED <<astray, trouble>>
    <3>1. cli.was[t] \in ValuesOf(t)
      BY <1>1, MapsAre
    <3>. QED
      BY <3>1, <2>1, MoveToIs, InvGives DEF SwitchInv
  <2>2. CASE Troubled /\ astray' = astray \cup {t} /\ UNCHANGED <<now, latest>>
    BY <2>2, InvGives
  <2>. QED
    BY <2>1, <2>2 DEF Restore
<1>5. \A x \in Things \ astray' : Origin(c, now', x) = Origin(cli, now, x)
  BY <1>1, <1>2, <1>4 DEF Origin, Pending, Promoting
<1>6. \A x \in Things : KnowsOf(c, now', x)
  BY <1>2 DEF KnowsOf, Promoting
<1>7. Steers(c, actions, report)
  BY <1>1, <1>2 DEF Steers
<1>8. \A x \in Things \ astray' : Chained(actions, x) /\ Fits(actions, x, Origin(c, now', x))
  BY <1>4, <1>5, InvGives
<1>. QED
  BY <1>1, <1>2, <1>3, <1>4, <1>6, <1>7, <1>8, InvGives, InvHolds

(* What somebody else moves is known to be astray. *)
LEMMA OthersMoveKeeps ==
  ASSUME SwitchInv, NEW t \in Things, OthersMove(t)
  PROVE  SwitchInv'
<1>. DEFINE c == IF cli.pc = "idle" THEN cli ELSE [cli EXCEPT !.raced = TRUE]
<1>1. cli \in CliShape /\ Steers(cli, actions, report)
  BY InvGives
<1>2. /\ c \in CliShape /\ c.pc = cli.pc /\ c.todo = cli.todo /\ c.was = cli.was /\ c.to = cli.to
      /\ c.moved = cli.moved /\ c.index = cli.index /\ c.step = cli.step /\ (cli.pc # "idle" => c.raced = TRUE)
  BY <1>1 DEF CliShape
<1>3. /\ previous' = previous /\ report' = report /\ actions' = actions /\ cli' = c /\ trouble' \in Nat
      /\ astray' = astray \cup {t}
  BY InvGives DEF OthersMove, Troubled, CliAt
<1>. HIDE DEF c
<1>4. /\ now' \in Maps /\ (\A y \in Things : y # t => now'[y] = now[y]) /\ latest' \in [Prompts -> Nat]
  <2>1. PICK v \in (IF t \in ModelServices THEN ModelChoices ELSE 1..latest[t] + 1) : MoveTo(t, v)
    BY DEF OthersMove
  <2>2. v \in ValuesOf(t)
    <3>1. CASE t \in ModelServices
      BY <3>1, <2>1 DEF ValuesOf
    <3>2. CASE t \notin ModelServices
      <4>1. latest[t] \in Nat
        BY <3>2, InvGives DEF Things
      <4>. QED
        BY <4>1, <3>2, <2>1 DEF ValuesOf
    <3>. QED
      BY <3>1, <3>2
  <2>. QED
    BY <2>1, <2>2, MoveToIs DEF SwitchInv
<1>5. \A x \in Things \ astray' : Origin(c, now', x) = Origin(cli, now, x)
  BY <1>2, <1>3, <1>4 DEF Origin, Pending, Promoting
<1>6. \A x \in Things : Untouched(c, astray', x) => KnowsOf(c, now', x)
  <2>. SUFFICES ASSUME NEW x \in Things, Untouched(c, astray', x)
                PROVE  KnowsOf(c, now', x)
    OBVIOUS
  <2>1. CASE cli.pc = "idle"
    BY <2>1, <1>2 DEF KnowsOf, Promoting
  <2>2. CASE cli.pc # "idle"
    <3>1. x \notin astray /\ x # t
      BY <2>2, <1>2, <1>3 DEF Untouched
    <3>2. KnowsOf(cli, now, x)
      BY <3>1, InvGives DEF Untouched
    <3>. QED
      BY <3>1, <3>2, <1>2, <1>4 DEF KnowsOf
  <2>. QED
    BY <2>1, <2>2
<1>7. Steers(c, actions, report)
  BY <1>1, <1>2 DEF Steers, Undoes
<1>8. \A x \in Things \ astray' : Chained(actions, x) /\ Fits(actions, x, Origin(c, now', x))
  BY <1>3, <1>5, InvGives
<1>. QED
  BY <1>2, <1>3, <1>4, <1>6, <1>7, <1>8, InvGives, InvHolds

(* A thing's history is its entries and what they say. *)
LEMMA SameHistory ==
  ASSUME NEW a, NEW b, NEW x, Entries(a, x) = Entries(b, x),
         \A k \in Entries(a, x) : b[k].was = a[k].was /\ b[k].to = a[k].to
  PROVE  /\ Chained(a, x) => Chained(b, x)
         /\ \A v : Fits(a, x, v) => Fits(b, x, v)
         /\ \A k : IsLast(a, x, k) => IsLast(b, x, k)
  BY DEF Chained, Begins, Links, Fits, IsLast

(* An action that is recorded where the history has its thing. *)
LEMMA Recorded ==
  ASSUME NEW acts \in Seq(Action), NEW a \in Action, NEW x, x \in a.things \ a.undone,
         Chained(acts, x), Fits(acts, x, a.was[x])
  PROVE  /\ Chained(Append(acts, a), x)
         /\ \A v \in {a.to[x], a.was[x]} : Fits(Append(acts, a), x, v)
<1>. DEFINE b == Append(acts, a)
            n == Len(acts)
<1>1. n \in Nat /\ DOMAIN acts = 1..n /\ DOMAIN b = 1..(n + 1) /\ b[n + 1] = a /\ \A k \in 1..n : b[k] = acts[k]
  OBVIOUS
<1>. HIDE DEF b, n
<1>2. /\ Entries(b, x) = Entries(acts, x) \cup {n + 1}
      /\ \A k \in Entries(acts, x) : k \in Nat /\ k < n + 1 /\ b[k] = acts[k]
  BY <1>1 DEF Entries
<1>3. ASSUME NEW k \in Entries(b, x)
      PROVE  Begins(b, x, k)
  <2>1. CASE k = n + 1
    <3>. SUFFICES ASSUME \A j \in Entries(b, x) : k <= j
                  PROVE  b[k].was[x] = First(x)
      BY DEF Begins
    <3>1. \A j \in Entries(acts, x) : j \in Nat /\ n \in Nat /\ j < n + 1 /\ n + 1 <= j
      BY <1>1, <1>2, <2>1
    <3>2. Entries(acts, x) = {}
      BY <3>1
    <3>. QED
      BY <3>2, <2>1, <1>1 DEF Fits
  <2>2. CASE k \in Entries(acts, x)
    BY <2>2, <1>2 DEF Begins, Chained
  <2>. QED
    BY <2>1, <2>2, <1>2, <1>3
<1>4. ASSUME NEW j \in Entries(b, x), NEW k \in Entries(b, x)
      PROVE  Links(b, x, j, k)
  <2>. SUFFICES ASSUME j < k, \A i \in Entries(b, x) : i <= j \/ k <= i
                PROVE  b[k].was[x] \in {b[j].to[x], b[j].was[x]}
    BY DEF Links
  <2>1. j \in Entries(acts, x)
    BY <1>1, <1>2
  <2>2. CASE k = n + 1
    <3>0. \A i \in Entries(acts, x) : i \in Nat /\ n \in Nat /\ i < n + 1 /\ (i <= j \/ n + 1 <= i)
      BY <1>1, <1>2, <2>2
    <3>1. \A i \in Entries(acts, x) : i <= j
      BY <3>0
    <3>2. a.was[x] \in {acts[j].to[x], acts[j].was[x]}
      BY <3>1, <2>1 DEF Fits, IsLast
    <3>. QED
      BY <3>2, <2>1, <2>2, <1>1, <1>2
  <2>3. CASE k \in Entries(acts, x)
    <3>1. Links(acts, x, j, k)
      BY <2>1, <2>3 DEF Chained
    <3>2. \A i \in Entries(acts, x) : i <= j \/ k <= i
      BY <1>2
    <3>. QED
      BY <3>1, <3>2, <2>1, <2>3, <1>2 DEF Links
  <2>. QED
    BY <2>2, <2>3, <1>2
<1>5. ASSUME NEW v \in {a.to[x], a.was[x]}
      PROVE  Fits(b, x, v)
  <2>1. n + 1 \in Entries(b, x)
    BY <1>2
  <2>2. \A k \in Entries(b, x) : IsLast(b, x, k) => k = n + 1
    BY <2>1, <1>1, <1>2 DEF IsLast
  <2>. QED
    BY <2>1, <2>2, <1>1 DEF Fits
<1>. QED
  BY <1>3, <1>4, <1>5 DEF Chained, b

(* An action that is not about a thing. *)
LEMMA RecordedElsewhere ==
  ASSUME NEW acts \in Seq(Action), NEW a \in Action, NEW x, x \notin a.things, Chained(acts, x)
  PROVE  /\ Chained(Append(acts, a), x)
         /\ \A v : Fits(acts, x, v) => Fits(Append(acts, a), x, v)
<1>. DEFINE b == Append(acts, a)
            n == Len(acts)
<1>1. n \in Nat /\ DOMAIN acts = 1..n /\ DOMAIN b = 1..(n + 1) /\ b[n + 1] = a /\ \A k \in 1..n : b[k] = acts[k]
  OBVIOUS
<1>. HIDE DEF b, n
<1>2. Entries(acts, x) = Entries(b, x) /\ \A k \in Entries(acts, x) : b[k] = acts[k]
  BY <1>1 DEF Entries
<1>. QED
  BY <1>2, SameHistory DEF b

(* The history of a thing whose last action is undone. *)
LEMMA Marked ==
  ASSUME NEW acts \in Seq(Action), NEW k \in DOMAIN acts, NEW x, IsLast(acts, x, k), Chained(acts, x),
         NEW b \in Seq(Action), DOMAIN b = DOMAIN acts,
         \A j \in DOMAIN acts : b[j].was = acts[j].was /\ b[j].to = acts[j].to,
         Entries(b, x) = Entries(acts, x) \ {k}
  PROVE  Chained(b, x) /\ Fits(b, x, acts[k].was[x])
<1>1. /\ k \in Entries(acts, x) /\ \A j \in Entries(acts, x) : j <= k
      /\ \A j \in Entries(acts, x) : j \in Nat /\ b[j].was = acts[j].was /\ b[j].to = acts[j].to
  BY DEF IsLast, Entries
<1>2. ASSUME NEW j \in Entries(b, x)
      PROVE  Begins(b, x, j)
  <2>. SUFFICES ASSUME \A i \in Entries(b, x) : j <= i
                PROVE  b[j].was[x] = First(x)
    BY DEF Begins
  <2>1. j \in Entries(acts, x) /\ \A i \in Entries(acts, x) : j <= i
    BY <1>1
  <2>. QED
    BY <2>1, <1>1 DEF Chained, Begins
<1>3. ASSUME NEW j \in Entries(b, x), NEW m \in Entries(b, x)
      PROVE  Links(b, x, j, m)
  <2>. SUFFICES ASSUME j < m, \A i \in Entries(b, x) : i <= j \/ m <= i
                PROVE  b[m].was[x] \in {b[j].to[x], b[j].was[x]}
    BY DEF Links
  <2>1. j \in Entries(acts, x) /\ m \in Entries(acts, x) /\ \A i \in Entries(acts, x) : i <= j \/ m <= i
    BY <1>1
  <2>. QED
    BY <2>1, <1>1 DEF Chained, Links
<1>4. Entries(b, x) = {} => acts[k].was[x] = First(x)
  <2>. SUFFICES ASSUME Entries(b, x) = {}
                PROVE  acts[k].was[x] = First(x)
    OBVIOUS
  <2>1. \A i \in Entries(acts, x) : k <= i
    BY <1>1
  <2>. QED
    BY <2>1, <1>1 DEF Chained, Begins
<1>5. ASSUME NEW j \in Entries(b, x), IsLast(b, x, j)
      PROVE  acts[k].was[x] \in {b[j].to[x], b[j].was[x]}
  <2>1. j \in Entries(acts, x) /\ j < k /\ \A i \in Entries(acts, x) : i <= j \/ k <= i
    BY <1>1, <1>5 DEF IsLast
  <2>. QED
    BY <2>1, <1>1 DEF Chained, Links
<1>. QED
  BY <1>2, <1>3, <1>4, <1>5 DEF Chained, Fits

(* What is recorded is where each of its things was, and where it is now. *)
LEMMA RecordActionKeeps ==
  ASSUME SwitchInv, RecordAction
  PROVE  SwitchInv'
<1>. DEFINE a == [things |-> cli.moved, was |-> cli.was, to |-> cli.to, undone |-> {}]
            b == Append(actions, a)
<1>1. /\ cli.pc = "record" /\ cli.was \in Maps /\ cli.to \in Maps /\ cli.moved \subseteq Things
      /\ actions \in Seq(Action)
  BY InvGives, CliFields DEF RecordAction, CliAt, SwitchInv
<1>2. /\ now' = now /\ previous' = previous /\ latest' = latest /\ report' = report
      /\ astray' = astray /\ trouble' = trouble /\ cli' = NoCli /\ actions' = b
  BY DEF RecordAction
<1>3. a \in Action /\ a.things = cli.moved /\ a.was = cli.was /\ a.to = cli.to /\ a.undone = {}
  BY <1>1 DEF Action
<1>. HIDE DEF a
<1>4. b \in Seq(Action)
  BY <1>1, <1>3
<1>5. ASSUME NEW x \in Things \ astray
      PROVE  Chained(b, x) /\ Fits(b, x, now[x])
  <2>1. Chained(actions, x) /\ Fits(actions, x, Origin(cli, now, x)) /\ KnowsOf(cli, now, x)
    BY InvGives DEF Untouched
  <2>2. CASE x \in cli.moved
    <3>1. Fits(actions, x, a.was[x])
      BY <2>1, <2>2, <1>1, <1>3 DEF Origin, Pending, Promoting
    <3>2. now[x] \in {a.to[x], a.was[x]}
      BY <2>1, <2>2, <1>1, <1>3 DEF KnowsOf, Promoting
    <3>3. x \in a.things \ a.undone
      BY <2>2, <1>3
    <3>. QED
      BY <3>1, <3>2, <3>3, <2>1, <1>1, <1>3, Recorded
  <2>3. CASE x \notin cli.moved
    <3>1. Fits(actions, x, now[x])
      BY <2>1, <2>3, <1>1 DEF Origin, Pending
    <3>2. x \notin a.things
      BY <2>3, <1>3
    <3>. QED
      BY <3>1, <3>2, <2>1, <1>1, <1>3, RecordedElsewhere
  <2>. QED
    BY <2>2, <2>3
<1>. HIDE DEF b
<1>6. \A x \in Things \ astray : Chained(b, x) /\ Fits(b, x, Origin(NoCli, now, x))
  BY <1>5, IdleKnows
<1>7. NoCli \in CliShape /\ NoCli.pc = "idle"
  BY NoCliIs
<1>. QED
  BY <1>2, <1>4, <1>6, <1>7, IdleKnows, InvGives, InvHolds

(* The thing that a rollback undoes next. *)
LEMMA ToUndoIs ==
  ASSUME SwitchInv, cli.pc = "undo", cli.todo # {}
  PROVE  /\ ToUndo = NextUndo(cli.todo) /\ ToUndo \in cli.todo /\ ToUndo \in Things
         /\ cli.index \in DOMAIN actions /\ cli.was = actions[cli.index].was
         /\ cli.was \in Maps /\ cli.to \in Maps /\ cli.was[ToUndo] \in ValuesOf(ToUndo)
         /\ UndoOrder(1) = "move" /\ UndoOrder(2) = "mark"
         /\ \A x \in cli.todo : IsLast(actions, x, cli.index) /\ cli.to[x] \in {actions[cli.index].to[x], cli.was[x]}
         /\ (Untouched(cli, astray, ToUndo) =>
               now[ToUndo] = IF cli.step = 2 THEN cli.was[ToUndo] ELSE cli.to[ToUndo])
<1>1. ToUndo = NextUndo(cli.todo) /\ ToUndo \in cli.todo
  BY DEF ToUndo, NextUndo
<1>2. ToUndo \in Things
  BY <1>1, CliFields DEF SwitchInv
<1>3. Undoes(cli, actions) /\ cli.was \in Maps /\ cli.to \in Maps
  BY InvGives DEF Steers
<1>4. cli.was[ToUndo] \in ValuesOf(ToUndo)
  BY <1>2, <1>3, MapsAre
<1>5. Untouched(cli, astray, ToUndo) => KnowsOf(cli, now, ToUndo)
  BY <1>2, InvGives
<1>6. UndoOrder(1) = "move" /\ UndoOrder(2) = "mark"
  BY DEF UndoOrder
<1>7. Untouched(cli, astray, ToUndo) => now[ToUndo] = IF cli.step = 2 THEN cli.was[ToUndo] ELSE cli.to[ToUndo]
  BY <1>1, <1>5 DEF KnowsOf
<1>. HIDE DEF ToUndo
<1>. QED
  BY <1>1, <1>2, <1>3, <1>4, <1>6, <1>7 DEF Undoes

(* A rollback moves a thing to where its last action found it. *)
LEMMA UndoMoveKeeps ==
  ASSUME SwitchInv, Undo, cli.step = 1
  PROVE  SwitchInv'
<1>. DEFINE c == [cli EXCEPT !.step = 2]
            t == ToUndo
            k == cli.index
<1>1. cli \in CliShape /\ cli.pc = "undo" /\ cli.todo # {} /\ Steers(cli, actions, report)
  BY InvGives DEF Undo, CliAt
<1>2. /\ t = NextUndo(cli.todo) /\ t \in cli.todo /\ t \in Things
      /\ k \in DOMAIN actions /\ cli.was = actions[k].was /\ cli.was \in Maps /\ cli.to \in Maps
      /\ cli.was[t] \in ValuesOf(t) /\ UndoOrder(1) = "move" /\ IsLast(actions, t, k)
      /\ (Untouched(cli, astray, t) => now[t] = cli.to[t])
  BY <1>1, ToUndoIs
<1>3. /\ c \in CliShape /\ c.pc = "undo" /\ c.todo = cli.todo /\ c.was = cli.was /\ c.to = cli.to
      /\ c.moved = cli.moved /\ c.raced = cli.raced /\ c.index = k /\ c.step = 2
  BY <1>1 DEF CliShape
<1>4. /\ previous' = previous /\ report' = report /\ astray' = astray /\ trouble' = trouble /\ cli' = c
      /\ UndoMove
  BY <1>2 DEF Undo
<1>5. actions' = actions
  BY <1>4 DEF UndoMove
<1>. HIDE DEF c
<1>6. /\ now' \in Maps /\ (\A y \in Things : y # t => now'[y] = now[y]) /\ latest' \in [Prompts -> Nat]
      /\ (Untouched(cli, astray, t) => now'[t] = cli.was[t])
  <2>1. CASE cli.to[t] # cli.was[t]
    <3>1. MoveTo(t, cli.was[t])
      BY <1>4, <2>1 DEF UndoMove
    <3>. HIDE DEF t
    <3>. QED
      BY <3>1, <1>2, MoveToIs DEF SwitchInv
  <2>2. CASE cli.to[t] = cli.was[t]
    <3>1. now' = now /\ latest' = latest
      BY <1>4, <2>2 DEF UndoMove
    <3>. QED
      BY <3>1, <2>2, <1>2, InvGives
  <2>. QED
    BY <2>1, <2>2
<1>. HIDE DEF t, k
<1>7. Fits(actions, t, cli.was[t])
  <2>1. \A j \in Entries(actions, t) : j \in Nat
    BY ActionsAre DEF Entries, SwitchInv
  <2>2. \A j \in Entries(actions, t) : IsLast(actions, t, j) => j = k
    BY <2>1, <1>2 DEF IsLast
  <2>. QED
    BY <2>2, <1>2 DEF Fits, IsLast, k
<1>8. \A x \in Things \ astray : Chained(actions, x) /\ Fits(actions, x, Origin(c, now', x))
  <2>. SUFFICES ASSUME NEW x \in Things \ astray
                PROVE  Chained(actions, x) /\ Fits(actions, x, Origin(c, now', x))
    OBVIOUS
  <2>1. Chained(actions, x) /\ Fits(actions, x, now[x]) /\ Origin(c, now', x) = now'[x]
    BY <1>1, <1>3, InvGives DEF Origin, Pending, Promoting
  <2>. QED
    BY <2>1, <1>6, <1>7 DEF Untouched
<1>9. \A x \in Things : Untouched(c, astray, x) => KnowsOf(c, now', x)
  <2>. SUFFICES ASSUME NEW x \in Things, Untouched(c, astray, x)
                PROVE  KnowsOf(c, now', x)
    OBVIOUS
  <2>1. KnowsOf(cli, now, x)
    BY <1>3, InvGives DEF Untouched
  <2>2. x = t => now'[x] = cli.was[x]
    BY <1>3, <1>6 DEF Untouched
  <2>. QED
    BY <2>1, <2>2, <1>1, <1>2, <1>3, <1>6 DEF KnowsOf, Promoting
<1>10. Steers(c, actions, report)
  BY <1>1, <1>3 DEF Steers, Undoes, k
<1>. QED
  BY <1>2, <1>3, <1>4, <1>5, <1>6, <1>8, <1>9, <1>10, InvGives, InvHolds

(* A rollback marks a thing where the action before it left it. *)
LEMMA UndoMarkKeeps ==
  ASSUME SwitchInv, Undo, cli.step = 2
  PROVE  SwitchInv'
<1>. DEFINE c == [cli EXCEPT !.step = 1, !.todo = cli.todo \ {ToUndo}]
            t == ToUndo
            k == cli.index
            a == [actions[k] EXCEPT !.undone = actions[k].undone \cup {t}]
            b == [actions EXCEPT ![k] = a]
<1>1. cli \in CliShape /\ cli.pc = "undo" /\ cli.todo # {} /\ cli.todo \subseteq Things /\ Steers(cli, actions, report)
  BY InvGives, CliFields DEF Undo, CliAt, SwitchInv
<1>2. /\ t \in cli.todo /\ t \in Things
      /\ k \in DOMAIN actions /\ cli.was = actions[k].was /\ cli.was \in Maps /\ cli.to \in Maps
      /\ UndoOrder(2) = "mark"
      /\ \A x \in cli.todo : IsLast(actions, x, k) /\ cli.to[x] \in {actions[k].to[x], cli.was[x]}
      /\ (Untouched(cli, astray, t) => now[t] = cli.was[t])
  BY <1>1, ToUndoIs
<1>3. /\ c \in CliShape /\ c.pc = "undo" /\ c.todo = cli.todo \ {t} /\ c.was = cli.was /\ c.to = cli.to
      /\ c.moved = cli.moved /\ c.raced = cli.raced /\ c.index = k /\ c.step = 1
  BY <1>1 DEF CliShape
<1>4. /\ now' = now /\ latest' = latest /\ previous' = previous /\ report' = report
      /\ astray' = astray /\ trouble' = trouble /\ cli' = c /\ actions' = b
  BY <1>2 DEF Undo, UndoMark
<1>. HIDE DEF c, t, k
<1>5. /\ actions \in Seq(Action) /\ actions[k] \in Action
      /\ \A j \in DOMAIN actions : actions[j] \in Action
  BY <1>2, InvGives
<1>6. /\ a \in Action /\ a.things = actions[k].things /\ a.was = actions[k].was /\ a.to = actions[k].to
      /\ a.undone = actions[k].undone \cup {t}
  BY <1>2, <1>5 DEF Action
<1>. HIDE DEF a
<1>7. /\ b \in Seq(Action) /\ DOMAIN b = DOMAIN actions
      /\ b[k] = a /\ \A j \in DOMAIN actions : j # k => b[j] = actions[j]
  BY <1>2, <1>5, <1>6
<1>. HIDE DEF b
<1>8. \A j \in DOMAIN actions : b[j].was = actions[j].was /\ b[j].to = actions[j].to
  BY <1>2, <1>6, <1>7
<1>9. Entries(b, t) = Entries(actions, t) \ {k}
  BY <1>2, <1>6, <1>7 DEF Entries
<1>10. \A x : x # t => Entries(b, x) = Entries(actions, x)
  BY <1>2, <1>6, <1>7 DEF Entries
<1>11. ASSUME NEW x, x # t
       PROVE  /\ Chained(actions, x) => Chained(b, x)
              /\ \A v : Fits(actions, x, v) => Fits(b, x, v)
              /\ \A j : IsLast(actions, x, j) => IsLast(b, x, j)
  <2>1. Entries(actions, x) = Entries(b, x) /\ \A j \in Entries(actions, x) : j \in DOMAIN actions
    BY <1>10, <1>11 DEF Entries
  <2>. QED
    BY <2>1, <1>8, SameHistory
<1>12. \A x \in Things \ astray : Chained(b, x) /\ Fits(b, x, Origin(c, now, x))
  <2>. SUFFICES ASSUME NEW x \in Things \ astray
                PROVE  Chained(b, x) /\ Fits(b, x, Origin(c, now, x))
    OBVIOUS
  <2>1. Chained(actions, x) /\ Fits(actions, x, now[x]) /\ Origin(c, now, x) = now[x]
    BY <1>1, <1>3, InvGives DEF Origin, Pending, Promoting
  <2>2. CASE x = t
    <3>1. Chained(b, x) /\ Fits(b, x, actions[k].was[x])
      BY <2>1, <2>2, <1>2, <1>5, <1>7, <1>8, <1>9, Marked
    <3>2. now[x] = actions[k].was[x]
      BY <2>2, <1>2 DEF Untouched
    <3>. QED
      BY <3>1, <3>2, <2>1
  <2>3. CASE x # t
    BY <2>1, <2>3, <1>11
  <2>. QED
    BY <2>2, <2>3
<1>13. \A x \in Things : Untouched(c, astray, x) => KnowsOf(c, now, x)
  <2>. SUFFICES ASSUME NEW x \in Things, Untouched(c, astray, x)
                PROVE  KnowsOf(c, now, x)
    OBVIOUS
  <2>1. KnowsOf(cli, now, x)
    BY <1>3, InvGives DEF Untouched
  <2>2. t = NextUndo(cli.todo)
    BY <1>1, ToUndoIs DEF t
  <2>. QED
    BY <2>1, <2>2, <1>1, <1>3 DEF KnowsOf, Promoting
<1>14. Steers(c, b, report)
  <2>1. \A x \in c.todo : IsLast(b, x, k) /\ c.to[x] \in {b[k].to[x], c.was[x]}
    BY <1>2, <1>3, <1>8, <1>11
  <2>. QED
    BY <2>1, <1>2, <1>3, <1>7, <1>8 DEF Steers, Undoes
<1>. QED
  BY <1>2, <1>3, <1>4, <1>7, <1>12, <1>13, <1>14, InvGives, InvHolds

(* A command that is cut short leaves astray what it moved, unless the history has it. *)
LEMMA CutShortKeeps ==
  ASSUME SwitchInv, CutShort
  PROVE  SwitchInv'
<1>1. /\ cli \in CliShape /\ cli.pc # "idle" /\ Steers(cli, actions, report) /\ cli.todo \subseteq Things
      /\ cli.moved \subseteq Things /\ previous' = previous /\ report' = report /\ actions' = actions
      /\ cli' = NoCli /\ trouble' \in Nat
  BY InvGives, CliFields DEF CutShort, Troubled, CliAt, SwitchInv
<1>2. \A x \in Things \ astray : Chained(actions, x) /\ Fits(actions, x, Origin(cli, now, x))
  BY InvGives
<1>3. \A x \in Things : Pending(cli, x) => x \in cli.moved /\ cli.pc # "undo"
  BY <1>1 DEF Pending, Promoting, Steers
<1>4. /\ now' \in Maps /\ latest' \in [Prompts -> Nat] /\ astray' \in SUBSET Things
      /\ \A x \in Things \ astray' : x \notin astray /\ Fits(actions, x, now'[x])
  <2>1. CASE UNCHANGED <<now, latest>> /\ astray' = astray \cup (IF CliAt("undo") THEN {} ELSE cli.moved)
    <3>1. \A x \in Things \ astray' : x \notin astray /\ Origin(cli, now, x) = now'[x]
      BY <2>1, <1>3 DEF Origin, CliAt
    <3>. QED
      BY <3>1, <2>1, <1>1, <1>2, InvGives
  <2>4. CASE (\E x \in cli.todo : Registered(x)) /\ astray' = astray \cup cli.moved
    <3>1. now' = now /\ latest' \in [Prompts -> Nat]
      BY <2>4, InvGives DEF Registered
    <3>2. \A x \in Things \ astray' : x \notin astray /\ Origin(cli, now, x) = now'[x]
      BY <2>4, <3>1, <1>3 DEF Origin
    <3>. QED
      BY <3>1, <3>2, <2>4, <1>1, <1>2, InvGives
  <2>2. CASE \E x \in cli.todo : /\ cli.pc \in {"set", "services", "rewrites"} /\ MoveTo(x, NewValue(x))
                                 /\ astray' = astray \cup cli.moved \cup {x}
    <3>1. PICK t \in cli.todo : MoveTo(t, NewValue(t)) /\ astray' = astray \cup cli.moved \cup {t}
      BY <2>2
    <3>2. NewValue(t) \in ValuesOf(t) /\ t \in Things
      BY <1>1, NewValueIs
    <3>3. now' \in Maps /\ (\A y \in Things : y # t => now'[y] = now[y]) /\ latest' \in [Prompts -> Nat]
      BY <3>1, <3>2, MoveToIs DEF SwitchInv
    <3>4. \A x \in Things \ astray' : x \notin astray /\ Origin(cli, now, x) = now'[x]
      BY <3>1, <3>3, <1>3 DEF Origin
    <3>. QED
      BY <3>1, <3>2, <3>3, <3>4, <1>1, <1>2, InvGives
  <2>3. CASE /\ CliAt("undo") /\ cli.todo # {} /\ UndoOrder(cli.step) = "move" /\ MoveTo(ToUndo, cli.was[ToUndo])
             /\ UNCHANGED astray
    <3>. DEFINE t == ToUndo
                k == cli.index
    <3>1. /\ cli.pc = "undo" /\ t \in cli.todo /\ t \in Things /\ cli.was[t] \in ValuesOf(t)
          /\ k \in DOMAIN actions /\ cli.was = actions[k].was /\ IsLast(actions, t, k)
      BY <2>3, ToUndoIs DEF CliAt
    <3>2. MoveTo(t, cli.was[t])
      BY <2>3
    <3>. HIDE DEF t, k
    <3>3. /\ now' \in Maps /\ now'[t] = cli.was[t] /\ (\A y \in Things : y # t => now'[y] = now[y])
          /\ latest' \in [Prompts -> Nat]
      BY <3>1, <3>2, MoveToIs DEF SwitchInv
    <3>4. \A j \in Entries(actions, t) : j \in Nat
      BY ActionsAre DEF Entries, SwitchInv
    <3>5. \A j \in Entries(actions, t) : IsLast(actions, t, j) => j = k
      BY <3>1, <3>4 DEF IsLast
    <3>6. Fits(actions, t, cli.was[t])
      BY <3>1, <3>5 DEF Fits, IsLast
    <3>7. \A x \in Things \ astray : Fits(actions, x, now[x])
      BY <3>1, <1>2, <1>3 DEF Origin
    <3>. QED
      BY <2>3, <3>3, <3>6, <3>7, InvGives
  <2>. QED
    BY <2>1, <2>2, <2>3, <2>4 DEF CutShort
<1>5. \A x \in Things \ astray' : Chained(actions, x) /\ Fits(actions, x, Origin(NoCli, now', x))
  BY <1>2, <1>4, IdleKnows
<1>6. NoCli \in CliShape /\ NoCli.pc = "idle"
  BY NoCliIs
<1>. QED
  BY <1>1, <1>4, <1>5, <1>6, IdleKnows, InvGives, InvHolds

(* At first nothing is recorded and every thing is where it began. *)
LEMMA SwitchInitHolds ==
  ASSUME SwitchInit
  PROVE  SwitchInv
<1>. DEFINE n == [x \in Things |-> First(x)]
<1>1. n \in Maps
  BY FirstIs DEF Maps, ValuesOf
<1>2. NoCli \in CliShape /\ NoCli.pc = "idle"
  BY NoCliIs
<1>3. SwitchTypeOK
  BY <1>1, <1>2 DEF SwitchInit, SwitchTypeOK, CliAt, Things
<1>4. \A x \in Things : Entries(<<>>, x) = {}
  BY DEF Entries
<1>5. HistoryIsWhole
  BY <1>4, IdleKnows DEF SwitchInit, HistoryIsWhole, Chained, Fits
<1>. QED
  BY <1>3, <1>5, IdleKnows DEF SwitchInit, SwitchInv, CommandKnows, CommandIsSound

(* Every step keeps the invariant. *)
LEMMA SwitchStepHolds ==
  ASSUME SwitchInv, [SwitchNext]_switchVars
  PROVE  SwitchInv'
<1>1. CASE UNCHANGED switchVars
  <2>1. /\ now' = now /\ previous' = previous /\ latest' = latest /\ report' = report /\ actions' = actions
        /\ cli' = cli /\ astray' = astray /\ trouble' = trouble
    BY <1>1 DEF switchVars
  <2>. QED
    BY <2>1, InvGives, InvHolds
<1>2. CASE \E s \in ModelServices : (\E m \in ModelChoices : BeginSet(s, m)) \/ SetService(s) \/ PromoteService(s) \/ RollbackRole(s)
  BY <1>2, BeginSetKeeps, SetServiceKeeps, PromoteKeeps, RollbackRoleKeeps
<1>3. CASE \E best \in [ModelServices -> ModelChoices], rewrites \in SUBSET Prompts : Recommend(best, rewrites)
  BY <1>3, RecommendKeeps
<1>4. CASE BeginApply \/ CheckPrompts \/ ServicesDone \/ PromptsDone \/ RestoreDone \/ RecordAction
  BY <1>4, BeginApplyKeeps, CheckPromptsKeeps, ServicesDoneKeeps, PromptsDoneKeeps, RestoreDoneKeeps, RecordActionKeeps
<1>5. CASE \E x \in Prompts : KeepPrevious(x) \/ PromotePrompt(x)
  BY <1>5, KeepPreviousKeeps, PromoteKeeps
<1>6. CASE \E x \in Things : PromoteFails(x) \/ Restore(x) \/ OthersMove(x)
  BY <1>6, PromoteFailsKeeps, RestoreKeeps, OthersMoveKeeps
<1>7. CASE RollbackAction \/ Undo \/ UndoDone \/ CutShort
  <2>1. cli.step = 1 \/ cli.step = 2
    BY CliFields DEF SwitchInv
  <2>. QED
    BY <2>1, <1>7, RollbackActionKeeps, UndoMoveKeeps, UndoMarkKeeps, UndoDoneKeeps, CutShortKeeps
<1>. QED
  BY <1>1, <1>2, <1>3, <1>4, <1>5, <1>6, <1>7 DEF SwitchNext

(* The invariant of models set, apply and rollback (cli/models.py): what the history says     *)
(* about each thing, with what the running command has moved and not recorded.                *)
THEOREM SwitchInvariant == SwitchSpec => []SwitchInv
  BY SwitchInitHolds, SwitchStepHolds, PTL DEF SwitchSpec

(* An idle command leaves every thing where the last action about it says. *)
LEMMA HistoryTells ==
  ASSUME SwitchInv
  PROVE  HistoryTellsWhatRuns
<1>. SUFFICES ASSUME CliAt("idle"), NEW x \in Things \ astray
              PROVE  IF LastAbout(x) = 0 THEN now[x] = First(x)
                     ELSE now[x] \in {actions[LastAbout(x)].to[x], actions[LastAbout(x)].was[x]}
  BY DEF HistoryTellsWhatRuns
<1>1. Fits(actions, x, now[x])
  BY InvGives DEF Origin, Pending, Promoting, CliAt
<1>. QED
  BY <1>1, LastAboutIs DEF Fits, IsLast

(* A command that nobody fell into moves a thing from where the report or the history has it. *)
LEMMA MovesAreKnown ==
  ASSUME SwitchInv, [SwitchNext]_switchVars, NEW x \in Things, cli.pc \in {"services", "rewrites", "undo"},
         ~cli.raced, ~cli'.raced, now'[x] # now[x]
  PROVE  now[x] = IF CliAt("undo") THEN actions[cli.index].to[x] ELSE report.was[x]
<1>1. /\ cli \in CliShape /\ cli.raced = FALSE /\ Steers(cli, actions, report) /\ now \in Maps
      /\ cli.todo \subseteq Things
  BY InvGives, CliFields DEF CliShape, SwitchInv
<1>2. KnowsOf(cli, now, x)
  BY <1>1, InvGives DEF Untouched
<1>3. ASSUME cli.pc \in {"services", "rewrites"}, x \in cli.todo
      PROVE  now[x] = report.was[x]
  BY <1>1, <1>2, <1>3 DEF Steers, KnowsOf, Promoting
<1>4. ASSUME NEW t \in Things, NEW v \in ValuesOf(t), MoveTo(t, v)
      PROVE  t = x
  BY <1>4, MoveToIs DEF SwitchInv
<1>5. ASSUME cli.pc = "undo", cli.todo # {}, UndoOrder(cli.step) = "move", MoveTo(ToUndo, cli.was[ToUndo])
      PROVE  now[x] = actions[cli.index].to[x]
  <2>1. /\ ToUndo \in Things /\ ToUndo \in cli.todo /\ cli.was[ToUndo] \in ValuesOf(ToUndo)
        /\ UndoOrder(2) = "mark"
        /\ cli.to[ToUndo] \in {actions[cli.index].to[ToUndo], cli.was[ToUndo]}
        /\ now[ToUndo] = IF cli.step = 2 THEN cli.was[ToUndo] ELSE cli.to[ToUndo]
    BY <1>1, <1>5, ToUndoIs DEF Untouched
  <2>2. cli.step # 2
    BY <2>1, <1>5
  <2>3. now'[ToUndo] = cli.was[ToUndo] /\ ToUndo = x
    BY <2>1, <1>4, <1>5, MoveToIs DEF SwitchInv
  <2>. HIDE DEF ToUndo
  <2>. QED
    BY <2>1, <2>2, <2>3
<1>6. CASE \E s \in ModelServices : PromoteService(s)
  <2>1. PICK s \in ModelServices : PromoteService(s)
    BY <1>6
  <2>2. cli.pc = "services" /\ s \in Things /\ s \in cli.todo /\ cli.to \in Maps /\ MoveTo(s, cli.to[s])
    BY <2>1, InvGives DEF PromoteService, Promoted, CliAt, Things
  <2>3. s = x
    BY <2>2, MapsAre, <1>4
  <2>. QED
    BY <2>2, <2>3, <1>3 DEF CliAt
<1>7. CASE \E p \in Prompts : PromotePrompt(p)
  <2>1. PICK p \in Prompts : PromotePrompt(p)
    BY <1>7
  <2>2. cli.pc = "rewrites" /\ p \in Things /\ p \in cli.todo /\ MoveTo(p, latest[p] + 1)
    BY <2>1 DEF PromotePrompt, Promoted, CliAt, Things
  <2>3. latest[p] + 1 \in ValuesOf(p)
    BY InvGives, SwitchAssumption DEF ValuesOf
  <2>4. p = x
    BY <2>2, <2>3, <1>4
  <2>. QED
    BY <2>2, <2>4, <1>3 DEF CliAt
<1>8. CASE \E t \in Things : PromoteFails(t)
  <2>1. PICK t \in Things : PromoteFails(t)
    BY <1>8
  <2>2. cli.pc \in {"services", "rewrites"} /\ t \in cli.todo /\ MoveTo(t, NewValue(t))
    BY <2>1 DEF PromoteFails, Registered
  <2>3. t = x
    BY <2>2, NewValueIs, <1>4
  <2>. QED
    BY <2>2, <2>3, <1>3 DEF CliAt
<1>9. CASE Undo
  <2>1. cli.pc = "undo" /\ cli.todo # {} /\ UndoOrder(cli.step) = "move" /\ UndoMove
    BY <1>9 DEF Undo, UndoMark, CliAt
  <2>2. MoveTo(ToUndo, cli.was[ToUndo])
    BY <2>1 DEF UndoMove
  <2>. QED
    BY <2>1, <2>2, <1>5 DEF CliAt
<1>10. CASE CutShort
  <2>1. CASE \E t \in cli.todo : cli.pc \in {"set", "services", "rewrites"} /\ MoveTo(t, NewValue(t))
    <3>1. PICK t \in cli.todo : cli.pc \in {"services", "rewrites"} /\ MoveTo(t, NewValue(t))
      BY <2>1
    <3>2. t = x
      BY <3>1, <1>1, NewValueIs, <1>4
    <3>. QED
      BY <3>1, <3>2, <1>3 DEF CliAt
  <2>2. CASE CliAt("undo") /\ cli.todo # {} /\ UndoOrder(cli.step) = "move" /\ MoveTo(ToUndo, cli.was[ToUndo])
    BY <2>2, <1>5 DEF CliAt
  <2>. QED
    BY <1>10, <2>1, <2>2 DEF CutShort, Registered
<1>11. CASE \E t \in Things : OthersMove(t)
  <2>1. cli' = [cli EXCEPT !.raced = TRUE]
    BY <1>11 DEF OthersMove, CliAt
  <2>2. cli'.raced = TRUE
    BY <2>1, <1>1 DEF CliShape
  <2>. QED
    BY <2>2
<1>12. CASE \/ UNCHANGED switchVars
            \/ BeginApply \/ CheckPrompts \/ ServicesDone \/ PromptsDone \/ RestoreDone \/ RecordAction
            \/ RollbackAction \/ UndoDone
            \/ \E p \in Prompts : KeepPrevious(p)
            \/ \E s \in ModelServices : RollbackRole(s) \/ \E m \in ModelChoices : BeginSet(s, m)
            \/ \E best \in [ModelServices -> ModelChoices], rewrites \in SUBSET Prompts : Recommend(best, rewrites)
  <2>1. now' = now
    BY <1>12 DEF switchVars, BeginApply, CheckPrompts, ServicesDone, PromptsDone, RestoreDone, RecordAction,
         RollbackAction, RollbackRole, BeginRollback, UndoDone, KeepPrevious, BeginSet, Recommend, CliGoes, CliDone
  <2>. QED
    BY <2>1
<1>13. CASE \E t \in Things : Restore(t)
  BY <1>13 DEF Restore, CliAt
<1>14. CASE \E s \in ModelServices : SetService(s)
  BY <1>14 DEF SetService, CliAt
<1>. QED
  BY <1>6, <1>7, <1>8, <1>9, <1>10, <1>11, <1>12, <1>13, <1>14 DEF SwitchNext

(* SwitchesAreSafe (cli/models.py, promote_to_prod): between commands a service routes to the *)
(* model, and an alias names the version, that the history tells; an apply or a rollback      *)
(* moves a thing only from where the report or the history has it.                            *)
THEOREM SwitchesStaySafe == SwitchSpec => SwitchesAreSafe
<1>1. SwitchInv => HistoryTellsWhatRuns
  BY HistoryTells
<1>2. SwitchInv /\ [SwitchNext]_switchVars =>
        [\A x \in Things :
           cli.pc \in {"services", "rewrites", "undo"} /\ ~cli.raced /\ ~cli'.raced /\ now'[x] # now[x] =>
             now[x] = IF CliAt("undo") THEN actions[cli.index].to[x] ELSE report.was[x]]_switchVars
  BY MovesAreKnown
<1>. QED
  BY <1>1, <1>2, SwitchInvariant, PTL DEF SwitchSpec, SwitchesAreSafe, NothingIsStomped
=============================================================================
