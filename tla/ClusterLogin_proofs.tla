------------------------- MODULE ClusterLogin_proofs -------------------------
(***************************************************************************)
(* For any clusters, names and kubeconfig files and any number of runs:    *)
(* the share is mounted once and once more per run that mounted in vain,   *)
(* and a login is replaced only by the one a run wants.                    *)
(***************************************************************************)
EXTENDS ClusterLogin, TLAPS

-----------------------------------------------------------------------------
(* The invariant *)

LEMMA StartStep ==
  ASSUME IInv, EnvironmentFails \/ MakeBase \/ MakeBaseFails PROVE IInv'
<1>1. /\ login = "start" /\ login' \in {"mount", "out"}
      /\ UNCHANGED <<wanted, kubeconfig, mounts, missed, session>>
      /\ base' \in BOOLEAN /\ (base => base')
      /\ login' = "mount" => base'
  BY DEF EnvironmentFails, MakeBase, MakeBaseFails, Goto, IInv, TypeOK
<1>2. TypeOK'
  BY <1>1 DEF IInv, TypeOK
<1>3. MountsCounted'
  BY <1>1 DEF IInv, MountsCounted, Unaccounted
<1>4. Seen'
  BY <1>1 DEF Seen
<1> QED  BY <1>2, <1>3, <1>4 DEF IInv

\* Only a run whose cluster is not on the share mounts above another mount.
LEMMA MountStep ==
  ASSUME IInv, Mount \/ MountFails \/ MountNotNeeded PROVE IInv'
<1>1. /\ login = "mount" /\ login' \in {"find", "out"}
      /\ UNCHANGED <<wanted, kubeconfig, base, missed, session>>
      /\ \/ ~ Visible /\ login' = "find" /\ mounts < MaxMounts /\ mounts' = mounts + 1
         \/ login' = "out" /\ mounts' = mounts
         \/ Visible /\ login' = "find" /\ mounts' = mounts
  BY DEF Mount, MountFails, MountNotNeeded, Goto
<1>2. base /\ MaxMounts \in Nat /\ mounts \in 0 .. MaxMounts /\ missed \in Nat
  BY <1>1, LoginAssumption DEF IInv, Seen, TypeOK
<1>3. TypeOK'
  <2>1. mounts' \in 0 .. MaxMounts
    BY <1>1, <1>2
  <2> QED  BY <1>1, <1>2, <2>1 DEF IInv, TypeOK
<1>4. MountsCounted'
  <2>1. mounts <= missed + 1
    BY <1>1 DEF IInv, MountsCounted, Unaccounted
  <2> QED  BY <1>1, <1>2, <2>1 DEF MountsCounted, Unaccounted, Visible
<1>5. Seen'
  BY <1>1, <1>2 DEF Seen
<1> QED  BY <1>3, <1>4, <1>5 DEF IInv

\* A run that does not find its cluster accounts for its mount.
LEMMA FindStep ==
  ASSUME IInv, FindCluster \/ FindClusterFails PROVE IInv'
<1>1. /\ login = "find" /\ login' \in {"password", "out"}
      /\ UNCHANGED <<wanted, kubeconfig, base, mounts, session>>
      /\ \/ Visible /\ login' = "password" /\ missed' = missed
         \/ ~ Visible /\ login' = "out" /\ missed' = missed + 1
  BY DEF FindCluster, FindClusterFails, Goto
<1>2. MaxMounts \in Nat /\ mounts \in 0 .. MaxMounts /\ missed \in Nat
  BY LoginAssumption DEF IInv, TypeOK
<1>3. TypeOK'
  BY <1>1, <1>2 DEF IInv, TypeOK
<1>4. MountsCounted'
  BY <1>1, <1>2 DEF IInv, MountsCounted, Unaccounted, Visible
<1>5. Seen'
  BY <1>1 DEF Seen, Visible
<1> QED  BY <1>3, <1>4, <1>5 DEF IInv

\* Behind the share, no run mounts.
LEMMA SessionStep ==
  ASSUME IInv, ReadPassword \/ ReadPasswordFails \/ Login PROVE IInv'
<1> USE DEF ReadPassword, ReadPasswordFails, Login, AlreadyLoggedIn, NotLoggedIn,
            Logout, OcLogin, OcLoginFails, Goto
<1>1. /\ login \in {"password", "whoami", "logout", "login"}
      /\ login' \in {"whoami", "logout", "login", "in", "out"}
      /\ UNCHANGED <<wanted, kubeconfig, base, mounts, missed>>
  OBVIOUS
<1>2. session' \in [Config -> Clusters \cup {None}]
  BY DEF IInv, TypeOK
<1>3. TypeOK'
  BY <1>1, <1>2 DEF IInv, TypeOK
<1>4. MountsCounted'
  BY <1>1 DEF IInv, MountsCounted, Unaccounted
<1>5. Seen'
  BY <1>1 DEF IInv, Seen, Visible
<1> QED  BY <1>3, <1>4, <1>5 DEF IInv

LEMMA NextRunStep == ASSUME IInv, NextRun PROVE IInv'
<1>1. /\ login \in {"in", "out"} /\ login' = "start"
      /\ wanted' \in Clusters /\ kubeconfig' \in Config
      /\ UNCHANGED <<base, mounts, missed, session>>
  BY DEF NextRun
<1>2. TypeOK'
  BY <1>1 DEF IInv, TypeOK
<1>3. MountsCounted'
  BY <1>1 DEF IInv, MountsCounted, Unaccounted
<1>4. Seen'
  BY <1>1 DEF Seen
<1> QED  BY <1>2, <1>3, <1>4 DEF IInv

LEMMA Initially == Init => IInv
<1> SUFFICES ASSUME Init PROVE IInv
  OBVIOUS
<1>1. TypeOK
  BY LoginAssumption DEF Init, TypeOK
<1>2. MountsCounted /\ Seen
  BY DEF Init, MountsCounted, Unaccounted, Seen
<1> QED  BY <1>1, <1>2 DEF IInv

LEMMA Inductive == IInv /\ [Next]_vars => IInv'
<1> SUFFICES ASSUME IInv, [Next]_vars PROVE IInv'
  OBVIOUS
<1>1. CASE EnvironmentFails \/ MakeBase \/ MakeBaseFails
  BY <1>1, StartStep
<1>2. CASE Mount \/ MountFails \/ MountNotNeeded
  BY <1>2, MountStep
<1>3. CASE FindCluster \/ FindClusterFails
  BY <1>3, FindStep
<1>4. CASE ReadPassword \/ ReadPasswordFails \/ Login
  BY <1>4, SessionStep
<1>5. CASE NextRun
  BY <1>5, NextRunStep
<1>6. CASE UNCHANGED vars
  BY <1>6 DEF vars, IInv, TypeOK, MountsCounted, Unaccounted, Seen, Visible
<1> QED  BY <1>1, <1>2, <1>3, <1>4, <1>5, <1>6 DEF Next, FetchClusterPassword

-----------------------------------------------------------------------------
(* The theorems *)

THEOREM Invariance == Spec => []IInv
  BY Initially, Inductive, PTL DEF Spec

(***************************************************************************)
(* Every variable keeps to its type, and the share is only ever mounted on *)
(* a mount point that exists (clusterLogin.go:41-58).                      *)
(***************************************************************************)
THEOREM TypeCorrect == Spec => []TypeOK
<1>1. IInv => TypeOK
  BY DEF IInv
<1> QED  BY <1>1, Invariance, PTL

(***************************************************************************)
(* The runs share one mount, but for those that mounted in vain            *)
(* (clusterLogin.go:51-60).                                                *)
(***************************************************************************)
THEOREM MountsDoNotPileUp == Spec => []MountedOnce
<1>1. IInv => MountedOnce
  BY DEF IInv, MountsCounted, Unaccounted, MountedOnce
<1> QED  BY <1>1, Invariance, PTL

(***************************************************************************)
(* A login is replaced only by the one its run wants, in that run's file,  *)
(* behind the sight of its cluster on the share (clusterLogin.go:76-96).   *)
(***************************************************************************)
THEOREM NoStrayLogin == Spec => LoginReplaced
<1>1. IInv /\ [Next]_vars =>
        [\A f \in Config :
           session'[f] \notin {session[f], None} =>
             f = kubeconfig /\ session'[f] = wanted /\ Visible]_vars
  <2> SUFFICES ASSUME IInv, Next, NEW f \in Config, session'[f] \notin {session[f], None}
               PROVE  f = kubeconfig /\ session'[f] = wanted /\ Visible
    BY DEF vars
  <2>1. session' # session
    OBVIOUS
  <2>2. CASE Logout
    BY <2>2 DEF Logout, IInv, TypeOK
  <2>3. CASE OcLogin
    BY <2>3 DEF OcLogin, Goto, IInv, TypeOK, Seen
  <2> QED
    BY <2>1, <2>2, <2>3
       DEF Next, FetchClusterPassword, Login, EnvironmentFails, MakeBase, MakeBaseFails,
           Mount, MountFails, MountNotNeeded, FindCluster, FindClusterFails,
           ReadPassword, ReadPasswordFails, AlreadyLoggedIn, NotLoggedIn, OcLoginFails,
           NextRun
<1> QED  BY <1>1, Invariance, PTL DEF Spec, LoginReplaced
=============================================================================
