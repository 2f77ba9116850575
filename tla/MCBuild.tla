------------------------------ MODULE MCBuild ------------------------------
(* Instances of Build for TLC: the option values each run lets a caller   *)
(* give.                                                                   *)
EXTENDS Build

MCPlatformsNative == {None, "linux"}
MCPlatformsMac    == {None, "mac"}
MCPlatformsWindows == {"windows"}
MCPlatformsNone   == {None}
\* No toolchain named, or gcc: both configure with gcc on a Linux host.
MCToolchainsGcc   == {None, "gcc"}
MCToolchainsNone  == {None}
MCToolchainsMinGW == {"mingw"}
MCJobs            == {None, 0, 2}
MCJobsNone        == {None}
MCFlagsNative     == {"release", "clean", "tests", "openssl", "configureOnly"}
MCFlagsNone       == {}
MCFilesPresent    == {TRUE}
MCFilesAbsent     == {FALSE}
=============================================================================
