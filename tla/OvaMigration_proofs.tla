------------------------ MODULE OvaMigration_proofs ------------------------
(***************************************************************************)
(* For any VMs, any ids and any number of runs: what a run says about the  *)
(* migration is true of its plan if it found no migration object, the maps *)
(* behind its plan are its own, and no more than one VM is ever migrated.  *)
(***************************************************************************)
EXTENDS OvaMigration, TLAPS

LEMMA ApplyStep == IInv /\ Apply => IInv'
<1> SUFFICES ASSUME IInv, Apply PROVE IInv'
  OBVIOUS
<1> USE RunAssumption DEF IInv, TypeOK, Planned, Honest, Progress, DoneIsOver,
      Resolved, MigratesOnce, PlanOf, discoverVMID, PlanVM, Goto, objects,
      forklift, Terminal
<1>1. CASE Discover \/ DiscoverFails
  BY <1>1 DEF Discover, DiscoverFails
<1>2. CASE ApplySecret \/ ApplySecretFails
  <2>1. CASE ApplySecret
    BY <2>1 DEF ApplySecret
  <2>2. CASE ApplySecretFails
    <3>1. secret' \in BOOLEAN
      BY <2>2 DEF ApplySecretFails
    <3> QED  BY <2>2, <3>1 DEF ApplySecretFails
  <2> QED  BY <1>2, <2>1, <2>2
<1>3. CASE ApplyMap("storage", "network") \/ ApplyMap("network", "provider")
  BY <1>3 DEF ApplyMap
<1>4. CASE ApplyMapFails("storage") \/ ApplyMapFails("network")
  BY <1>4 DEF ApplyMapFails
<1>5. CASE ApplyProvider \/ ApplyProviderFails
  BY <1>5 DEF ApplyProvider, ApplyProviderFails, Applied
<1>6. CASE Sleep
  BY <1>6 DEF Sleep
<1>7. CASE ApplyPlan \/ ApplyPlanFails
  BY <1>7 DEF ApplyPlan, ApplyPlanFails
<1>8. CASE ApplyMigration \/ ApplyMigrationFails
  BY <1>8 DEF ApplyMigration, ApplyMigrationFails, Pending
<1> QED  BY <1>1, <1>2, <1>3, <1>4, <1>5, <1>6, <1>7, <1>8 DEF Apply

LEMMA WaitStep == IInv /\ Wait => IInv'
<1> SUFFICES ASSUME IInv, Wait PROVE IInv'
  OBVIOUS
<1> USE RunAssumption DEF IInv, TypeOK, Planned, Honest, Progress, DoneIsOver,
      Resolved, MigratesOnce, PlanOf, discoverVMID, PlanVM, Goto, objects,
      forklift, Terminal
<1>1. CASE PollSucceeded \/ PollFails \/ Timeout
  BY <1>1 DEF PollSucceeded, PollFails, Timeout
<1>2. CASE PollAgain
  BY <1>2 DEF PollAgain
<1> QED  BY <1>1, <1>2 DEF Wait

LEMMA RerunStep == IInv /\ Rerun => IInv'
<1> SUFFICES ASSUME IInv, Rerun PROVE IInv'
  OBVIOUS
<1>1. run' \in 1 .. MaxRuns /\ left' \in 0 .. Ticks
  BY RunAssumption DEF Rerun, IInv, TypeOK
<1> QED  BY <1>1 DEF Rerun, IInv, TypeOK, Planned, Honest, Progress, DoneIsOver, Resolved,
           MigratesOnce, objects, forklift

\* Forklift finishes a migration for the VM it was started for.
LEMMA ForkliftStep == IInv /\ Forklift => IInv'
<1> SUFFICES ASSUME IInv, Forklift PROVE IInv'
  OBVIOUS
<1> USE DEF IInv, TypeOK, Planned, Honest, Progress, DoneIsOver, Resolved,
      MigratesOnce, tool, objects, forklift, Terminal
<1>1. CASE ProviderReady
  BY <1>1 DEF ProviderReady
<1>2. CASE StartMigration
  <2>1. fresh => migrating' \in {vm} \cup Known
    BY <1>2 DEF StartMigration, Known, PlanOf, discoverVMID
  <2>2. migrating' \in VMs
    BY <1>2 DEF StartMigration
  <2> QED  BY <1>2, <2>1, <2>2 DEF StartMigration, Known
<1>3. CASE MigrationSucceeds
  <2>1. TypeOK'
    BY <1>3 DEF MigrationSucceeds
  <2>2. Honest'
    BY <1>3 DEF MigrationSucceeds
  <2> QED  BY <1>3, <2>1, <2>2 DEF MigrationSucceeds
<1>4. CASE MigrationEnds
  BY <1>4 DEF MigrationEnds
<1> QED  BY <1>1, <1>2, <1>3, <1>4 DEF Forklift

LEMMA Invariance == Spec => []IInv
<1>1. Init => IInv
  <2> SUFFICES ASSUME Init PROVE IInv
    OBVIOUS
  <2>1. run \in 1 .. MaxRuns /\ left \in 0 .. Ticks
    BY RunAssumption DEF Init
  <2>2. map \in [{"storage", "network"} -> VMs \cup {None}]
    BY DEF Init
  <2>3. TypeOK
    BY <2>1, <2>2 DEF Init, TypeOK
  <2> QED  BY <2>3 DEF Init, IInv, Planned, Honest, Progress, DoneIsOver, Resolved,
           MigratesOnce
<1>2. IInv /\ [Next]_vars => IInv'
  <2> SUFFICES ASSUME IInv, [Next]_vars PROVE IInv'
    OBVIOUS
  <2>1. CASE Over \/ UNCHANGED vars
    BY <2>1 DEF Over, vars, tool, objects, forklift, IInv, TypeOK, Planned, Honest,
      Progress, DoneIsOver, Resolved, MigratesOnce
  <2> QED  BY <2>1, ApplyStep, WaitStep, RerunStep, ForkliftStep DEF Next
<1> QED  BY <1>1, <1>2, PTL DEF Spec

\* Every variable keeps its type: the deadline is never overrun.
THEOREM TypeCorrect == Spec => []TypeOK
<1>1. IInv => TypeOK
  BY DEF IInv
<1> QED  BY Invariance, <1>1, PTL

\* A run that found no migration object says success when a VM of its own
\* plan has been migrated (ocpUtils.go:774-786, 876-899).
THEOREM FreshRunsAreHonest == Spec => []FreshRunHonest
<1>1. IInv => FreshRunHonest
  BY DEF IInv, FreshRunHonest, Honest, DoneIsOver
<1> QED  BY Invariance, <1>1, PTL

\* A plan is applied behind the maps of its own run (ocpUtils.go:855-883).
THEOREM MapsAreOwn == Spec => []MapsOfOneRun
<1>1. IInv => MapsOfOneRun
  BY DEF IInv, MapsOfOneRun, Progress
<1> QED  BY Invariance, <1>1, PTL

\* Every name on the cluster resolves but that of the destination provider
\* and, in a map, that of the source provider (ocpUtils.go:848-890).
THEOREM NamesResolve == Spec => []ReferencesResolve
<1>1. IInv => ReferencesResolve
  <2> SUFFICES ASSUME IInv, NEW o \in OnCluster
               PROVE  Refers[o] \ OnCluster \subseteq
                        NeverApplied \cup
                          (IF o \in {"storage", "network"} THEN {"provider"} ELSE {})
    BY DEF ReferencesResolve
  <2> USE DEF NeverApplied
  <2>1. CASE o = "secret"
    BY <2>1 DEF Refers
  <2>2. CASE o = "provider"
    BY <2>2 DEF Refers, OnCluster, IInv, Resolved
  <2>3. CASE o = "plan"
    BY <2>3 DEF Refers, OnCluster, IInv, Resolved
  <2>4. CASE o = "migration"
    BY <2>4 DEF Refers, OnCluster, IInv, Resolved
  <2>5. CASE o \in {"storage", "network"}
    BY <2>5 DEF Refers
  <2> QED  BY <2>1, <2>2, <2>3, <2>4, <2>5 DEF OnCluster
<1> QED  BY Invariance, <1>1, PTL

\* One migration serves every run: a second VM is never migrated
\* (ocpUtils.go:885-890).
THEOREM OneMigration == Spec => []MigratesOnce
<1>1. IInv => MigratesOnce
  BY DEF IInv
<1> QED  BY Invariance, <1>1, PTL

-----------------------------------------------------------------------------
(* What it promises *)

\* Whatever the tool does up to its last apply is a stutter, its first step
\* and its errors excepted.
LEMMA ApplyPromised == IInv /\ Apply => [Promise!Next]_(Promise!vars)
<1> SUFFICES ASSUME IInv, Apply PROVE [Promise!Next]_(Promise!vars)
  OBVIOUS
<1> USE DEF Goto, objects, forklift, Stage, Promise!vars, Promise!run
<1>1. CASE Discover
  BY <1>1 DEF Discover, Promise!Next, Promise!Discover
<1>2. CASE DiscoverFails \/ ApplySecretFails \/ ApplyMapFails("storage")
             \/ ApplyMapFails("network") \/ ApplyProviderFails \/ ApplyPlanFails
             \/ ApplyMigrationFails
  <2>1. Promise!GiveUp
    <3>1. Promise!Created = Pending
      BY DEF Promise!Created, Pending
    <3> QED  BY <1>2, <3>1 DEF DiscoverFails, ApplySecretFails, ApplyMapFails,
               ApplyProviderFails, ApplyPlanFails, ApplyMigrationFails, Promise!GiveUp
  <2> QED  BY <2>1 DEF Promise!Next
<1>3. CASE ApplySecret \/ ApplyMap("storage", "network")
             \/ ApplyMap("network", "provider") \/ ApplyProvider \/ Sleep \/ ApplyPlan
  BY <1>3 DEF ApplySecret, ApplyMap, ApplyProvider, Sleep, ApplyPlan
<1>4. CASE ApplyMigration
  BY <1>4 DEF ApplyMigration, Pending, Promise!Next, Promise!Create, Promise!Created
<1> QED  BY <1>1, <1>2, <1>3, <1>4 DEF Apply

LEMMA WaitPromised == IInv /\ Wait => [Promise!Next]_(Promise!vars)
<1> SUFFICES ASSUME IInv, Wait PROVE [Promise!Next]_(Promise!vars)
  OBVIOUS
<1> USE DEF Goto, objects, forklift, Stage, Promise!vars, Promise!run, Promise!Next
<1>1. CASE PollSucceeded
  BY <1>1 DEF PollSucceeded, Promise!Succeed
<1>2. CASE PollFails \/ Timeout
  BY <1>2 DEF PollFails, Timeout, Promise!GiveUp
<1>3. CASE PollAgain
  BY <1>3 DEF PollAgain
<1> QED  BY <1>1, <1>2, <1>3 DEF Wait

\* A plan is there when a migration starts; in a fresh run it is the plan of
\* the run.
LEMMA ForkliftPromised == IInv /\ Forklift => [Promise!Next]_(Promise!vars)
<1> SUFFICES ASSUME IInv, Forklift PROVE [Promise!Next]_(Promise!vars)
  OBVIOUS
<1> USE DEF tool, objects, forklift, Stage, Promise!vars, Promise!run, Promise!Next,
      Promise!Forklift
<1>1. CASE ProviderReady
  BY <1>1 DEF ProviderReady
<1>2. CASE StartMigration
  BY <1>2 DEF StartMigration, IInv, TypeOK, Honest, Promise!Start, Known, PlanOf,
       discoverVMID
<1>3. CASE MigrationSucceeds
  BY <1>3 DEF MigrationSucceeds, Promise!Finish
<1>4. CASE MigrationEnds
  BY <1>4 DEF MigrationEnds, Promise!Stop
<1> QED  BY <1>1, <1>2, <1>3, <1>4 DEF Forklift

\* The tool and Forklift implement MigrationPromise (ocpUtils.go:811-900).
THEOREM Refinement == Spec => KeepsPromise
<1>1. Init => Promise!Init
  BY DEF Init, Promise!Init, Stage
<1>2. IInv /\ [Next]_vars => [Promise!Next]_(Promise!vars)
  <2> SUFFICES ASSUME IInv, [Next]_vars PROVE [Promise!Next]_(Promise!vars)
    OBVIOUS
  <2>1. CASE Rerun
    BY <2>1 DEF Rerun, objects, forklift, Stage, Promise!Next, Promise!NextRun
  <2>2. CASE Over \/ UNCHANGED vars
    BY <2>2 DEF Over, vars, tool, objects, forklift, Stage, Promise!vars, Promise!run
  <2> QED  BY <2>1, <2>2, ApplyPromised, WaitPromised, ForkliftPromised DEF Next
<1> QED  BY Invariance, <1>1, <1>2, PTL DEF Spec, KeepsPromise, Promise!Spec

-----------------------------------------------------------------------------
(* The measure *)

LEMMA SameAge ==
  /\ UNCHANGED objects => ProviderAge' = ProviderAge
  /\ UNCHANGED provider => ProviderAge' = ProviderAge
  /\ UNCHANGED forklift => MigrationAge' = MigrationAge
  /\ UNCHANGED migration => MigrationAge' = MigrationAge
  /\ ProviderAge \in Nat /\ MigrationAge \in Nat
BY DEF objects, forklift, ProviderAge, MigrationAge

LEMMA RunFurther ==
  ASSUME TypeOK, Apply \/ Wait \/ Rerun
  PROVE  ToolFurther /\ Older
<1> USE DEF ToolFurther, Older, Goto
<1>1. run \in Nat /\ left \in Nat
  BY RunAssumption DEF TypeOK
<1>2. CASE Apply
  <2>1. run' = run /\ Place < Place'
    <3>1. CASE Discover \/ DiscoverFails
      <4>1. run' = run /\ step = "discover" /\ step' \in {"secret", "error"}
        BY <3>1 DEF Discover, DiscoverFails
      <4> QED  BY <4>1 DEF Place
    <3>2. CASE ApplySecret \/ ApplySecretFails
      <4>1. run' = run /\ step = "secret" /\ step' \in {"storage", "error"}
        BY <3>2 DEF ApplySecret, ApplySecretFails
      <4> QED  BY <4>1 DEF Place
    <3>3. CASE ApplyMap("storage", "network") \/ ApplyMapFails("storage")
      <4>1. run' = run /\ step = "storage" /\ step' \in {"network", "error"}
        BY <3>3 DEF ApplyMap, ApplyMapFails
      <4> QED  BY <4>1 DEF Place
    <3>4. CASE ApplyMap("network", "provider") \/ ApplyMapFails("network")
      <4>1. run' = run /\ step = "network" /\ step' \in {"provider", "error"}
        BY <3>4 DEF ApplyMap, ApplyMapFails
      <4> QED  BY <4>1 DEF Place
    <3>5. CASE ApplyProvider \/ ApplyProviderFails
      <4>1. run' = run /\ step = "provider" /\ step' \in {"sleep", "error"}
        BY <3>5 DEF ApplyProvider, ApplyProviderFails
      <4> QED  BY <4>1 DEF Place
    <3>6. CASE Sleep
      <4>1. run' = run /\ step = "sleep" /\ step' = "plan"
        BY <3>6 DEF Sleep
      <4> QED  BY <4>1 DEF Place
    <3>7. CASE ApplyPlan \/ ApplyPlanFails
      <4>1. run' = run /\ step = "plan" /\ step' \in {"migration", "error"}
        BY <3>7 DEF ApplyPlan, ApplyPlanFails
      <4> QED  BY <4>1 DEF Place
    <3>8. CASE ApplyMigration \/ ApplyMigrationFails
      <4>1. run' = run /\ step = "migration" /\ step' \in {"wait", "error"}
        BY <3>8 DEF ApplyMigration, ApplyMigrationFails
      <4> QED  BY <4>1 DEF Place
    <3> QED  BY <1>2, <3>1, <3>2, <3>3, <3>4, <3>5, <3>6, <3>7, <3>8 DEF Apply
  <2>2. UNCHANGED provider \/ provider' \in {provider, Applied(provider)}
    BY <1>2 DEF Apply, Discover, DiscoverFails, ApplySecret, ApplySecretFails,
      ApplyMap, ApplyMapFails, ApplyProvider, ApplyProviderFails, Sleep, ApplyPlan,
      ApplyPlanFails, ApplyMigration, ApplyMigrationFails, objects
  <2>3. UNCHANGED migration \/ migration' \in {migration, Pending}
    BY <1>2 DEF Apply, Discover, DiscoverFails, ApplySecret, ApplySecretFails,
      ApplyMap, ApplyMapFails, ApplyProvider, ApplyProviderFails, Sleep, ApplyPlan,
      ApplyPlanFails, ApplyMigration, ApplyMigrationFails, forklift
  <2>4. Older
    BY <2>2, <2>3 DEF Applied, Pending, ProviderAge, MigrationAge
  <2> QED  BY <2>1, <2>4
<1>3. CASE Wait
  <2>1. UNCHANGED <<objects, forklift, run>>
    BY <1>3 DEF Wait, PollSucceeded, PollFails, PollAgain, Timeout
  <2>2. CASE PollAgain
    <3>1. run' = run /\ step' = step /\ left' = left - 1
      BY <2>2 DEF PollAgain
    <3> QED  BY <1>1, <2>1, <3>1, SameAge DEF Place
  <2>3. CASE PollSucceeded \/ PollFails \/ Timeout
    <3>1. run' = run /\ step = "wait" /\ step' \in {"done", "error"}
      BY <2>3 DEF PollSucceeded, PollFails, Timeout
    <3> QED  BY <2>1, <3>1, SameAge DEF Place
  <2> QED  BY <1>3, <2>2, <2>3 DEF Wait
<1>4. CASE Rerun
  BY <1>1, <1>4, SameAge DEF Rerun
<1> QED  BY <1>2, <1>3, <1>4

LEMMA ObjectsFurther ==
  ASSUME Forklift
  PROVE  ForkliftFurther /\ Older
<1> USE DEF ForkliftFurther, Older
<1>1. CASE ProviderReady
  <2>1. /\ UNCHANGED <<tool, forklift>>
        /\ provider = "applied" /\ provider' = "ready"
    BY <1>1 DEF ProviderReady
  <2>2. ProviderAge < ProviderAge' /\ ProviderAge <= ProviderAge'
    BY <2>1 DEF ProviderAge
  <2>3. MigrationAge' = MigrationAge /\ MigrationAge \in Nat
    BY <2>1, SameAge
  <2> QED  BY <2>1, <2>2, <2>3
<1>2. CASE StartMigration \/ MigrationSucceeds \/ MigrationEnds
  <2>1. UNCHANGED <<tool, objects>>
    BY <1>2 DEF StartMigration, MigrationSucceeds, MigrationEnds
  <2>2. MigrationAge < MigrationAge' /\ MigrationAge <= MigrationAge'
    BY <1>2 DEF StartMigration, MigrationSucceeds, MigrationEnds, MigrationAge
  <2>3. ProviderAge' = ProviderAge /\ ProviderAge \in Nat
    BY <2>1, SameAge
  <2> QED  BY <2>1, <2>2, <2>3
<1> QED  BY <1>1, <1>2 DEF Forklift

\* A run goes through its applies once and its polls count down to the
\* deadline; every step of Forklift makes an object older, and no apply makes
\* one younger: a run cannot go on for ever (ocpUtils.go:256-285, 811-900).
THEOREM RunsGetOn ==
  Spec => /\ [](Place <= 10 /\ left \in 0 .. Ticks /\ ProviderAge <= 2 /\ MigrationAge <= 3)
          /\ [][(ToolFurther \/ ForkliftFurther) /\ Older]_vars
<1>1. TypeOK => Place <= 10 /\ left \in 0 .. Ticks /\ ProviderAge <= 2 /\ MigrationAge <= 3
  BY DEF TypeOK, Place, ProviderAge, MigrationAge
<1>2. TypeOK /\ [Next]_vars => [(ToolFurther \/ ForkliftFurther) /\ Older]_vars
  BY RunFurther, ObjectsFurther DEF Next, Over
<1> QED  BY <1>1, <1>2, TypeCorrect, PTL DEF Spec
=============================================================================
