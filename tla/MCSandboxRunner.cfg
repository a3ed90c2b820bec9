SPECIFICATION Spec
CONSTANTS
  run = run
  spawn = spawn
  docker = docker
  os = os
  Run = {run}
  Spawn = {spawn}
  Object = {docker, os}
  kindOf <- MCkindOf
  NoSession = NoSession
  NoObject = NoObject
INVARIANTS TypeOK ContainmentHonest GuestConfined TeardownBeforeProxy CleanReport SuccessEarned EndsInOrder
PROPERTY IsolationPromised RunSettles
CHECK_DEADLOCK FALSE
