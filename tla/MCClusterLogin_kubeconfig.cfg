SPECIFICATION Spec
CONSTANTS
  demo = demo
  demo2 = demo2
  other = other
  home = home
  env = env
  None = None
  Clusters = {demo, demo2, other}
  Named <- MCNamed
  OnShare = {demo, demo2}
  Config = {home, env}
  Home = home
  MaxMounts = 3
INVARIANTS
  PollsKubeconfig
