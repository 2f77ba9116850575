\* A native build (gcc), then --platform mac (clang) on the same build directory.
CONSTANTS
    System = "linux"
    Platforms <- MCPlatformsMac
    Toolchains <- MCToolchainsNone
    Jobs <- MCJobsNone
    Flags <- MCFlagsNone
    CpuCount = 4
    ToolchainFiles <- MCFilesPresent
    MaxRuns = 2
    None = None
    Raised = Raised
SPECIFICATION Spec
INVARIANT ExitZeroAsRequested
