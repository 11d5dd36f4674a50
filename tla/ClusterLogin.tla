---------------------------- MODULE ClusterLogin ----------------------------
(***************************************************************************)
(* LoginToCluster (src/cluster/clusterLogin.go), over several runs of the  *)
(* tool on one machine: mount the share with the credentials of the        *)
(* clusters unless the wanted cluster's directory is already visible, read *)
(* the password there, and log in with oc unless the present login already *)
(* serves.  Nothing is ever unmounted, and a login outlives its run.       *)
(*                                                                         *)
(* oc and kubectl keep their login in the file KUBECONFIG names; the       *)
(* client that polls the migration reads that of the home directory.       *)
(*                                                                         *)
(* oc, sudo and mount are external: they succeed or fail.                  *)
(***************************************************************************)
EXTENDS Naturals

CONSTANTS
  Clusters,  (* clusters that CLUSTER_NAME may name                        *)
  Named,     (* <<c, w>>: the server address of c contains the name w      *)
  OnShare,   (* the clusters with a directory on the share                 *)
  Config,    (* kubeconfig files                                           *)
  Home,      (* the one in the home directory                              *)
  MaxMounts, (* bound: mounts over all runs                                *)
  None

ASSUME LoginAssumption ==
  /\ None \notin Clusters
  /\ Named \subseteq Clusters \X Clusters
  /\ \A c \in Clusters : <<c, c>> \in Named
  /\ OnShare \subseteq Clusters
  /\ Home \in Config
  /\ MaxMounts \in Nat

VARIABLES
  wanted,      (* CLUSTER_NAME of the run                                  *)
  kubeconfig,  (* the file oc and kubectl use in the run                   *)
  login,       (* where LoginToCluster stands                              *)
  base,        (* the mount point exists                                   *)
  mounts,      (* mounts of the share on it, one above the other           *)
  missed,      (* history: runs that mounted in vain, their cluster not there *)
  session      (* the cluster each kubeconfig file is logged in to         *)

vars == <<wanted, kubeconfig, login, base, mounts, missed, session>>

TypeOK ==
  /\ wanted \in Clusters
  /\ kubeconfig \in Config
  /\ login \in {"start", "mount", "find", "password", "whoami", "logout",
                "login", "in", "out"}
  /\ base \in BOOLEAN
  /\ mounts \in 0 .. MaxMounts
  /\ missed \in Nat
  /\ session \in [Config -> Clusters \cup {None}]
  /\ mounts > 0 => base

\* The machine may have any logins; the share is not mounted.
Init ==
  /\ wanted \in Clusters
  /\ kubeconfig \in Config
  /\ login = "start"
  /\ base \in BOOLEAN
  /\ mounts = 0
  /\ missed = 0
  /\ session \in [Config -> Clusters \cup {None}]

-----------------------------------------------------------------------------

Goto(from, to) ==
  /\ login = from
  /\ login' = to
  /\ UNCHANGED <<wanted, kubeconfig>>

\* A variable of the environment is missing.
EnvironmentFails == Goto("start", "out") /\ UNCHANGED <<base, mounts, missed, session>>

\* Mutant: the mount point is never made.
BaseTakenForGranted ==
  /\ Goto("start", "mount")
  /\ UNCHANGED <<base, mounts, missed, session>>

\* fetchClusterPassword: the mount point is made if it is not there.
MakeBase ==
  /\ Goto("start", "mount")
  /\ base' = TRUE
  /\ UNCHANGED <<mounts, missed, session>>

MakeBaseFails ==
  /\ ~ base
  /\ Goto("start", "out")
  /\ UNCHANGED <<base, mounts, missed, session>>

\* os.Stat of the wanted cluster's directory below the mount point.
Visible == mounts > 0 /\ wanted \in OnShare

\* Mutant: the share is mounted whether or not the directory is visible.
MountAlways ==
  /\ mounts < MaxMounts
  /\ Goto("mount", "find")
  /\ mounts' = mounts + 1
  /\ UNCHANGED <<base, missed, session>>

Mount ==
  /\ ~ Visible
  /\ mounts < MaxMounts
  /\ Goto("mount", "find")
  /\ mounts' = mounts + 1
  /\ UNCHANGED <<base, missed, session>>

MountFails ==
  /\ ~ Visible
  /\ Goto("mount", "out")
  /\ UNCHANGED <<base, mounts, missed, session>>

MountNotNeeded ==
  /\ Visible
  /\ Goto("mount", "find")
  /\ UNCHANGED <<base, mounts, missed, session>>

FindCluster ==
  /\ Visible
  /\ Goto("find", "password")
  /\ UNCHANGED <<base, mounts, missed, session>>

\* The mount stays behind the error.
FindClusterFails ==
  /\ ~ Visible
  /\ Goto("find", "out")
  /\ missed' = missed + 1
  /\ UNCHANGED <<base, mounts, session>>

ReadPassword == Goto("password", "whoami") /\ UNCHANGED <<base, mounts, missed, session>>

ReadPasswordFails == Goto("password", "out") /\ UNCHANGED <<base, mounts, missed, session>>

\* oc whoami --show-server prints an address that contains the wanted name:
\* for the code, the login is then one to the same cluster.
AlreadyLoggedIn ==
  /\ session[kubeconfig] # None
  /\ <<session[kubeconfig], wanted>> \in Named
  /\ Goto("whoami", "in")
  /\ UNCHANGED <<base, mounts, missed, session>>

\* No login, one for another cluster, or an expired one: oc whoami fails.
NotLoggedIn == Goto("whoami", "logout") /\ UNCHANGED <<base, mounts, missed, session>>

\* The error of oc logout is ignored.
Logout ==
  /\ Goto("logout", "login")
  /\ \E s \in {session[kubeconfig], None} :
       session' = [session EXCEPT ![kubeconfig] = s]
  /\ UNCHANGED <<base, mounts, missed>>

\* Mutant: the login is written to the home directory's file.
OcLoginAtHome ==
  /\ Goto("login", "in")
  /\ session' = [session EXCEPT ![Home] = wanted]
  /\ UNCHANGED <<base, mounts, missed>>

OcLogin ==
  /\ Goto("login", "in")
  /\ session' = [session EXCEPT ![kubeconfig] = wanted]
  /\ UNCHANGED <<base, mounts, missed>>

OcLoginFails == Goto("login", "out") /\ UNCHANGED <<base, mounts, missed, session>>

\* The tool is run again, in an environment of its own.
NextRun ==
  /\ login \in {"in", "out"}
  /\ login' = "start"
  /\ wanted' \in Clusters
  /\ kubeconfig' \in Config
  /\ UNCHANGED <<base, mounts, missed, session>>

-----------------------------------------------------------------------------

FetchClusterPassword ==
  \/ MakeBase \/ MakeBaseFails
  \/ Mount \/ MountFails \/ MountNotNeeded
  \/ FindCluster \/ FindClusterFails
  \/ ReadPassword \/ ReadPasswordFails

Login ==
  \/ AlreadyLoggedIn \/ NotLoggedIn
  \/ Logout
  \/ OcLogin \/ OcLoginFails

Next == EnvironmentFails \/ FetchClusterPassword \/ Login \/ NextRun

Spec == Init /\ [][Next]_vars

-----------------------------------------------------------------------------
(* Properties *)

(***************************************************************************)
(* Mounts pile up only by the runs that did not find their cluster on the  *)
(* share: all others, whatever they want and wherever they end, share one  *)
(* mount (clusterLogin.go:51-60).                                          *)
(***************************************************************************)
MountedOnce == login # "find" => mounts <= missed + 1

(***************************************************************************)
(* A login is only ever replaced by one to the cluster its run wants, in   *)
(* the kubeconfig file of that run, and only once the run has seen the     *)
(* cluster's directory on the share: no failed run leaves a login to a     *)
(* third cluster behind (clusterLogin.go:51-66, 76-96).  It says nothing   *)
(* of the login that a run keeps.                                          *)
(***************************************************************************)
LoginReplaced ==
  [][\A f \in Config :
       session'[f] \notin {session[f], None} =>
         f = kubeconfig /\ session'[f] = wanted /\ Visible]_vars

-----------------------------------------------------------------------------
(* The inductive invariant behind the safety properties *)

\* A mount that nothing has accounted for yet.
Unaccounted == login = "find" /\ wanted \notin OnShare

MountsCounted ==
  /\ Unaccounted => mounts <= missed + 2
  /\ ~ Unaccounted => mounts <= missed + 1

\* What a run has behind it in each of its stages.
Seen ==
  /\ login \in {"mount", "find"} => base
  /\ login \in {"password", "whoami", "logout", "login"} => Visible

IInv == TypeOK /\ MountsCounted /\ Seen

-----------------------------------------------------------------------------
(* What the tool says *)

\* The cluster that getMigration asks (ocpUtils.go:365-368).
Polled == session[Home]

\* What a comment says of getMigration (ocpUtils.go:364): "Try loading from
\* KUBECONFIG or default kubeconfig path".
PollsKubeconfig == login = "in" => Polled = session[kubeconfig]
=============================================================================
