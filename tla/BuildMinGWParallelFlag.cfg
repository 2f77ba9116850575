\* A native build on Windows with --toolchain mingw.
CONSTANTS
    System = "windows"
    Platforms <- MCPlatformsNone
    Toolchains <- MCToolchainsMinGW
    Jobs <- MCJobsNone
    Flags <- MCFlagsNone
    CpuCount = 4
    ToolchainFiles <- MCFilesPresent
    MaxRuns = 1
    None = None
    Raised = Raised
SPECIFICATION Spec
INVARIANT NativeFlagUnderstood
