SPECIFICATION StartupSpec
CONSTANTS
  Endpoints = {root, config, redis}
  Root = root
  Config = config
  Redis = redis
PROPERTY StartsUp
CHECK_DEADLOCK FALSE
