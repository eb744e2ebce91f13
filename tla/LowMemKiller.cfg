SPECIFICATION FairSpec
CONSTANTS
  k1 = k1
  k2 = k2
  init = init
  app1 = app1
  app2 = app2
  Shrinkers = {k1, k2}
  Tasks = {init, app1, app2}
  tasklist <- MCTasklist
  oom_adj <- MCOomAdj
  rss <- MCRss
  lowmem_adj <- MCAdj
  lowmem_minfree <- MCMinfree
  Pages = 5
  FilePages = {0}
  HZ = 1
  None = None
INVARIANTS
  VictimIsWorst
  NoStaleDeath
PROPERTIES
  RescueComes
