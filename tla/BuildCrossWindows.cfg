\* The documented cross build: --platform windows on a Linux host.
CONSTANTS
    System = "linux"
    Platforms <- MCPlatformsWindows
    Toolchains <- MCToolchainsNone
    Jobs <- MCJobsNone
    Flags <- MCFlagsNone
    CpuCount = 4
    ToolchainFiles <- MCFilesPresent
    MaxRuns = 1
    None = None
    Raised = Raised
SPECIFICATION Spec
INVARIANT GeneratorExistsOnHost
