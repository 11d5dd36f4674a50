---------------------------- MODULE OvaMigration ----------------------------
(***************************************************************************)
(* RunOvaMigration (src/cluster/ocpUtils.go): one run of the tool applies  *)
(* six objects to the cluster, one after the other, and polls the last of  *)
(* them until Forklift has migrated the VM or the deadline passes.         *)
(*                                                                         *)
(* The names of the objects are constants of the program, so that a later  *)
(* run meets the objects of an earlier one.  An apply changes an object    *)
(* only when its manifest differs: that of the plan names the VM and an id *)
(* that is a constant too, that of the migration names nothing but the     *)
(* plan.                                                                   *)
(*                                                                         *)
(* Forklift is external: it is modelled from the conditions the tool reads *)
(* and the order in which the tool expects them.                           *)
(***************************************************************************)
EXTENDS Naturals

CONSTANTS
  VMs,      (* the VMs that can be first in the list of a run              *)
  MaxRuns,  (* bound: runs of the tool                                     *)
  Ticks,    (* polls that fit into the deadline: 15 min / 10 s             *)
  VMID,     (* the id of each VM in the inventory of Forklift              *)
  KnownID,  (* knownVMIDs[0], which one of them may have                   *)
  None

PlanVM == [id : {KnownID}, name : VMs]

ASSUME RunAssumption ==
  /\ MaxRuns \in Nat \ {0}
  /\ Ticks \in Nat \ {0}
  /\ DOMAIN VMID = VMs
  /\ None \notin VMs \cup PlanVM

VARIABLES
  run,        (* the number of the current run of the tool                 *)
  step,       (* where it stands                                           *)
  vm,         (* vmName of the run                                         *)
  source,     (* the VM of the first OVF in the output directory           *)
  left,       (* polls before the deadline                                 *)
  fresh,      (* there was no migration object when the run began          *)
  secret,     (* on the cluster: the secret is there                       *)
  map,        (* the VM each map was made for                              *)
  provider,   (* "absent", "applied" or "ready"                            *)
  plan,       (* the id and the name of a VM in the plan                   *)
  migration,  (* "absent", "pending", "running" or a terminal condition    *)
  migrating,  (* the VM Forklift works on, or worked on                    *)
  migrated    (* the VMs Forklift has migrated                             *)

tool     == <<run, step, vm, source, left, fresh>>
objects  == <<secret, map, provider, plan>>
forklift == <<migration, migrating, migrated>>
vars     == <<tool, objects, forklift>>

Terminal == {"Succeeded", "Failed", "Canceled"}

TypeOK ==
  /\ run \in 1 .. MaxRuns
  /\ step \in {"discover", "secret", "storage", "network", "provider", "sleep",
               "plan", "migration", "wait", "done", "error"}
  /\ vm \in VMs
  /\ source \in VMs \cup {None}
  /\ left \in 0 .. Ticks
  /\ fresh \in BOOLEAN
  /\ secret \in BOOLEAN
  /\ map \in [{"storage", "network"} -> VMs \cup {None}]
  /\ provider \in {"absent", "applied", "ready"}
  /\ plan \in PlanVM \cup {None}
  /\ migration \in {"absent", "pending", "running"} \cup Terminal
  /\ migrating \in VMs \cup {None}
  /\ migrated \subseteq VMs

Init ==
  /\ run = 1
  /\ step = "discover"
  /\ vm \in VMs
  /\ source = None
  /\ left = Ticks
  /\ fresh = TRUE
  /\ secret = FALSE
  /\ map = [kind \in {"storage", "network"} |-> None]
  /\ provider = "absent"
  /\ plan = None
  /\ migration = "absent"
  /\ migrating = None
  /\ migrated = {}

-----------------------------------------------------------------------------
(* One run of the tool *)

Goto(from, to) ==
  /\ step = from
  /\ step' = to
  /\ UNCHANGED <<run, vm, source, left, fresh>>

\* Both maps are made from the first OVF by name, whichever VM has it.
Discover ==
  /\ step = "discover"
  /\ step' = "secret"
  /\ \E first \in VMs : source' = first
  /\ UNCHANGED <<run, vm, left, fresh, objects, forklift>>

\* No OVF, no disk, or a variable of the environment is missing.
DiscoverFails == Goto("discover", "error") /\ UNCHANGED <<objects, forklift>>

(***************************************************************************)
(* An apply that fails, or whose manifest cannot be written, ends the run; *)
(* the cluster may have taken it all the same.                             *)
(***************************************************************************)
ApplySecret ==
  /\ Goto("secret", "storage")
  /\ secret' = TRUE
  /\ UNCHANGED <<map, provider, plan, forklift>>

ApplySecretFails ==
  /\ Goto("secret", "error")
  /\ secret' \in {secret, TRUE}
  /\ UNCHANGED <<map, provider, plan, forklift>>

ApplyMap(kind, next) ==
  /\ Goto(kind, next)
  /\ map' = [map EXCEPT ![kind] = source]
  /\ UNCHANGED <<secret, provider, plan, forklift>>

\* Mutant: the error of the apply is logged only.
ApplyMapErrorIgnored(kind) ==
  /\ Goto(kind, IF kind = "storage" THEN "network" ELSE "provider")
  /\ \E m \in {map[kind], source} : map' = [map EXCEPT ![kind] = m]
  /\ UNCHANGED <<secret, provider, plan, forklift>>

ApplyMapFails(kind) ==
  /\ Goto(kind, "error")
  /\ \E m \in {map[kind], source} : map' = [map EXCEPT ![kind] = m]
  /\ UNCHANGED <<secret, provider, plan, forklift>>

Applied(object) == IF object = "absent" THEN "applied" ELSE object

ApplyProvider ==
  /\ Goto("provider", "sleep")
  /\ provider' = Applied(provider)
  /\ UNCHANGED <<secret, map, plan, forklift>>

ApplyProviderFails ==
  /\ Goto("provider", "error")
  /\ provider' \in {provider, Applied(provider)}
  /\ UNCHANGED <<secret, map, plan, forklift>>

\* 15 seconds, whether the provider is ready by then or not.
Sleep == Goto("sleep", "plan") /\ UNCHANGED <<objects, forklift>>

\* "For now, always use the first known VM ID", whichever VM it is asked for.
discoverVMID(vmName) == KnownID

PlanOf(vmName) == [id |-> discoverVMID(vmName), name |-> vmName]

\* Mutant: an existing plan is left as it is.
CreatePlan ==
  /\ Goto("plan", "migration")
  /\ plan' = IF plan = None THEN PlanOf(vm) ELSE plan
  /\ UNCHANGED <<secret, map, provider, forklift>>

ApplyPlan ==
  /\ Goto("plan", "migration")
  /\ plan' = PlanOf(vm)
  /\ UNCHANGED <<secret, map, provider, forklift>>

ApplyPlanFails ==
  /\ Goto("plan", "error")
  /\ plan' \in {plan, PlanOf(vm)}
  /\ UNCHANGED <<secret, map, provider, forklift>>

\* Mutant: a migration that has ended is replaced by a new one.
PendingAgain ==
  IF migration \in {"absent"} \cup Terminal THEN "pending" ELSE migration

\* The manifest is the same in every run: an existing object is unchanged.
Pending == IF migration = "absent" THEN "pending" ELSE migration

ApplyMigration ==
  /\ Goto("migration", "wait")
  /\ migration' = Pending
  /\ UNCHANGED <<objects, migrating, migrated>>

ApplyMigrationFails ==
  /\ Goto("migration", "error")
  /\ migration' \in {migration, Pending}
  /\ UNCHANGED <<objects, migrating, migrated>>

-----------------------------------------------------------------------------
(* waitForMigrationComplete *)

\* Mutant: no failure, no progress to wait for.
PollNotRunning ==
  /\ left > 0
  /\ migration \notin {"pending", "running", "Failed"}
  /\ Goto("wait", "done")
  /\ UNCHANGED <<objects, forklift>>

PollSucceeded ==
  /\ left > 0
  /\ migration = "Succeeded"
  /\ Goto("wait", "done")
  /\ UNCHANGED <<objects, forklift>>

\* The condition Failed, or a Get that fails once.
PollFails ==
  /\ left > 0
  /\ Goto("wait", "error")
  /\ UNCHANGED <<objects, forklift>>

Pollable == migration \notin {"Succeeded", "Failed"}

\* Mutant: polls without counting them against the deadline.
PollUncounted ==
  /\ step = "wait"
  /\ Pollable
  /\ left' = left - 1
  /\ UNCHANGED <<run, step, vm, source, fresh, objects, forklift>>

\* Neither condition is true; Canceled is not looked for.
PollAgain ==
  /\ step = "wait"
  /\ left > 0
  /\ Pollable
  /\ left' = left - 1
  /\ UNCHANGED <<run, step, vm, source, fresh, objects, forklift>>

\* Mutant: every poll of a running migration renews the deadline.
DeadlineRenewed ==
  /\ step = "wait"
  /\ left <= 1
  /\ left' = Ticks
  /\ UNCHANGED <<run, step, vm, source, fresh, objects, forklift>>

\* The last tick and the deadline fall together: select takes either.
Timeout ==
  /\ left <= 1
  /\ Goto("wait", "error")
  /\ UNCHANGED <<objects, forklift>>

\* The tool is run again, for the VM that is first in the list by then.
Rerun ==
  /\ step \in {"done", "error"}
  /\ run < MaxRuns
  /\ run' = run + 1
  /\ step' = "discover"
  /\ vm' \in VMs
  /\ source' = None
  /\ left' = Ticks
  /\ fresh' = (migration = "absent")
  /\ UNCHANGED <<objects, forklift>>

-----------------------------------------------------------------------------
(* Forklift *)

ProviderReady ==
  /\ provider = "applied"
  /\ secret
  /\ provider' = "ready"
  /\ UNCHANGED <<tool, secret, map, plan, forklift>>

(***************************************************************************)
(* A migration runs once, for a VM of the plan it starts with: for one the *)
(* id stands for or for the one that is named, where they differ, for the  *)
(* code does not say which of the two Forklift goes by.                    *)
(***************************************************************************)
StartMigration ==
  /\ migration = "pending"
  /\ provider = "ready"
  /\ plan # None
  /\ migration' = "running"
  /\ \E v \in VMs :
       /\ v = plan.name \/ VMID[v] = plan.id
       /\ migrating' = v
  /\ UNCHANGED <<tool, objects, migrated>>

MigrationSucceeds ==
  /\ migration = "running"
  /\ migration' = "Succeeded"
  /\ migrated' = migrated \cup {migrating}
  /\ UNCHANGED <<tool, objects, migrating>>

MigrationEnds ==
  /\ migration \in {"pending", "running"}
  /\ migration' \in {"Failed", "Canceled"}
  /\ UNCHANGED <<tool, objects, migrating, migrated>>

-----------------------------------------------------------------------------

Apply ==
  \/ Discover \/ DiscoverFails
  \/ ApplySecret \/ ApplySecretFails
  \/ ApplyMap("storage", "network") \/ ApplyMapFails("storage")
  \/ ApplyMap("network", "provider") \/ ApplyMapFails("network")
  \/ ApplyProvider \/ ApplyProviderFails
  \/ Sleep
  \/ ApplyPlan \/ ApplyPlanFails
  \/ ApplyMigration \/ ApplyMigrationFails

Wait == PollSucceeded \/ PollFails \/ PollAgain \/ Timeout

Forklift == ProviderReady \/ StartMigration \/ MigrationSucceeds \/ MigrationEnds

\* The bound on the runs is reached, and Forklift is at rest.
Over == step \in {"done", "error"} /\ run = MaxRuns /\ UNCHANGED vars

Next == Apply \/ Wait \/ Rerun \/ Forklift \/ Over

Spec == Init /\ [][Next]_vars

\* The tool goes on as long as its commands return; Forklift may never act.
FairSpec == Spec /\ WF_vars(Apply) /\ WF_vars(Wait)

-----------------------------------------------------------------------------
(* Properties *)

(***************************************************************************)
(* Behind a plan of this run both maps are of this run too, although an    *)
(* earlier run may have failed between the two, for another VM and another *)
(* first OVF (ocpUtils.go:855-883).                                        *)
(***************************************************************************)
MapsOfOneRun ==
  step \in {"plan", "migration", "wait", "done"} =>
    /\ map["storage"] = source /\ map["network"] = source
    /\ secret /\ provider # "absent"

\* What the manifest of each object names (migrationTemplates.go): "host" is
\* the destination provider of the maps and of the plan.
Refers == [
  secret    |-> {},
  provider  |-> {"secret"},
  storage   |-> {"provider", "host"},
  network   |-> {"provider", "host"},
  plan      |-> {"provider", "host", "storage", "network"},
  migration |-> {"plan"}]

OnCluster ==
  {kind \in {"storage", "network"} : map[kind] # None}
    \cup {o \in {"secret"} : secret}
    \cup {o \in {"provider"} : provider # "absent"}
    \cup {o \in {"plan"} : plan # None}
    \cup {o \in {"migration"} : migration # "absent"}

\* No run applies it: the cluster must have it already.
NeverApplied == {"host"}

(***************************************************************************)
(* Wherever runs end and whatever they leave, what an object on the        *)
(* cluster names is there too, but for two things: the maps are applied    *)
(* before the source provider they name, and the destination provider is   *)
(* never applied at all (ocpUtils.go:848-890).                             *)
(***************************************************************************)
ReferencesResolve ==
  \A o \in OnCluster :
    Refers[o] \ OnCluster \subseteq
      NeverApplied \cup (IF o \in {"storage", "network"} THEN {"provider"} ELSE {})

\* The VMs that the constant id stands for.
Known == {v \in VMs : VMID[v] = KnownID}

(***************************************************************************)
(* When a run that found no migration object says that the migration       *)
(* completed, a VM of its own plan has been migrated, whatever an earlier  *)
(* run has left of the other objects for another VM: the VM of this run,   *)
(* or the one that has the constant id.  Where no other VM has that id, it *)
(* is the VM of this run (ocpUtils.go:774-786, 876-899).                   *)
(***************************************************************************)
FreshRunHonest == step = "done" /\ fresh => migrated \cap ({vm} \cup Known) # {}

(***************************************************************************)
(* However many runs there are, and for however many VMs, no more than one *)
(* VM is ever migrated: the migration object of the first run that creates *)
(* it serves them all, and no apply of a later run starts it again         *)
(* (ocpUtils.go:28-36, 885-890).                                           *)
(***************************************************************************)
MigratesOnce ==
  migrated # {} => migration = "Succeeded" /\ migrated = {migrating}

(***************************************************************************)
(* Every run ends, whatever Forklift does: by its deadline at the latest   *)
(* (ocpUtils.go:256-267, 893-896).                                         *)
(***************************************************************************)
RunEnds == \A r \in 1 .. MaxRuns : run = r ~> step \in {"done", "error"}

-----------------------------------------------------------------------------
(* What the migration promises *)

Stage ==
  CASE step = "discover"              -> "discover"
    [] step \in {"wait", "done", "error"} -> step
    [] OTHER                          -> "apply"

Promise == INSTANCE MigrationPromise WITH stage <- Stage

(***************************************************************************)
(* The six applies, the sleep, the polls and the objects of earlier runs   *)
(* implement MigrationPromise: no failure between two of them makes a      *)
(* migration that this run created work by the plan of another run.        *)
(***************************************************************************)
KeepsPromise == Promise!Spec

-----------------------------------------------------------------------------
(* The inductive invariant behind the safety properties *)

Planned == step \in {"migration", "wait", "done"} => plan = PlanOf(vm)

\* Success is said of a finished migration only.
DoneIsOver == step = "done" => migration = "Succeeded"

\* How far the one migration of a fresh run can be.
Honest ==
  fresh =>
    /\ step \in {"discover", "secret", "storage", "network", "provider", "sleep",
                 "plan", "migration"} => migration = "absent"
    /\ migration = "pending" => plan = PlanOf(vm)
    /\ migration = "running" => migrating \in {vm} \cup Known
    /\ step \in {"wait", "done"} /\ migration = "Succeeded" =>
         migrated \cap ({vm} \cup Known) # {}

Progress ==
  /\ step \in {"storage", "network", "provider", "sleep", "plan", "migration",
              "wait", "done"} => secret
  /\ step \in {"network", "provider", "sleep", "plan", "migration", "wait",
              "done"} => map["storage"] = source
  /\ step \in {"provider", "sleep", "plan", "migration", "wait", "done"} =>
       map["network"] = source
  /\ step \in {"sleep", "plan", "migration", "wait", "done"} => provider # "absent"
  /\ step \notin {"discover", "error"} => source \in VMs
  /\ migration = "running" => migrating \in VMs

Resolved ==
  /\ provider # "absent" => secret
  /\ plan # None => /\ provider # "absent"
                    /\ map["storage"] # None /\ map["network"] # None
  /\ migration # "absent" => plan # None

IInv ==
  TypeOK /\ Planned /\ Honest /\ Progress /\ DoneIsOver /\ Resolved /\ MigratesOnce

-----------------------------------------------------------------------------
(* The measure behind RunEnds *)

\* How far a run is.
Place ==
  CASE step = "discover"  -> 1
    [] step = "secret"    -> 2
    [] step = "storage"   -> 3
    [] step = "network"   -> 4
    [] step = "provider"  -> 5
    [] step = "sleep"     -> 6
    [] step = "plan"      -> 7
    [] step = "migration" -> 8
    [] step = "wait"      -> 9
    [] OTHER              -> 10

\* How far the objects are that Forklift works on.
ProviderAge ==
  CASE provider = "absent" -> 0 [] provider = "applied" -> 1 [] OTHER -> 2

MigrationAge ==
  CASE migration = "absent"  -> 0
    [] migration = "pending" -> 1
    [] migration = "running" -> 2
    [] OTHER                 -> 3

ToolFurther ==
  \/ run < run'
  \/ run' = run /\ Place < Place'
  \/ run' = run /\ Place' = Place /\ left' < left

ForkliftFurther ==
  /\ UNCHANGED tool
  /\ ProviderAge < ProviderAge' \/ MigrationAge < MigrationAge'

\* No object ever goes back, whoever acts.
Older == ProviderAge <= ProviderAge' /\ MigrationAge <= MigrationAge'

-----------------------------------------------------------------------------
(* What the tool says *)

\* What the tool says at its end (ocpUtils.go:898): "Migration completed
\* successfully!"
DoneMeansMigrated == step = "done" => vm \in migrated
=============================================================================
