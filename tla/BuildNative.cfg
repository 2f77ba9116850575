\* Three invocations on a Linux host building natively with gcc, every option but --build-only.
CONSTANTS
    System = "linux"
    Platforms <- MCPlatformsNative
    Toolchains <- MCToolchainsGcc
    Jobs <- MCJobs
    Flags <- MCFlagsNative
    CpuCount = 4
    ToolchainFiles <- MCFilesPresent
    MaxRuns = 3
    None = None
    Raised = Raised
SPECIFICATION Spec
INVARIANT TypeOK
INVARIANT ExitZeroAsRequested
INVARIANT NativeFlagUnderstood
