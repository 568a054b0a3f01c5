SPECIFICATION FairSpec
CONSTANTS
  Endpoints = {root, config, redis, e1}
  Root = root
INVARIANTS CountsPending ReadyMeansAll
PROPERTY NeverStuck
CHECK_DEADLOCK FALSE
