SPECIFICATION Spec
CONSTANTS
  run = run
  spawn = spawn
  docker = docker
  os = os
  Run = {run}
  Spawn = {spawn}
  Object = {docker, os}
  kindOf <- MCkindOf
  NoSession = NoSession
  NoObject = NoObject
INVARIANT NoSilentSurvivor
CHECK_DEADLOCK FALSE
