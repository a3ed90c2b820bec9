------------------------- MODULE MCBackendSelection -------------------------
EXTENDS BackendSelection, TLC
CONSTANTS s1, s2, s3

MCAvailable == <<"docker", "os", "vm">>

\* One profile for Linux and docker, one for macOS only, one for docker and macOS.
MCProfiles == {{"dockerImage", "osRuntime", "vmRuntime"}, {"darwinRuntime"},
               {"dockerImage", "darwinRuntime"}}

Symmetric == Permutations({s1, s2, s3})
=============================================================================
