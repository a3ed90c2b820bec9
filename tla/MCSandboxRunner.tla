-------------------------- MODULE MCSandboxRunner --------------------------
EXTENDS SandboxRunner, TLC
CONSTANTS run, spawn, docker, os
MCkindOf == docker :> "docker" @@ os :> "os"
=============================================================================
