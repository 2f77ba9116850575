------------------------------- MODULE Build -------------------------------
(***************************************************************************)
(* scripts/build.py: each invocation of main() parses its options, may     *)
(* clean the build directory, runs `cmake` to configure it, `cmake --build` *)
(* and `ctest`, and returns an exit code.  The build directory outlives    *)
(* the invocation: CMake keeps the generator, the target (fixed by the     *)
(* toolchain file of the first configure) and the cache variables there,   *)
(* so a behaviour is a sequence of invocations on one directory.           *)
(*                                                                         *)
(* The external tools are modelled by what they do with the arguments     *)
(* build.py gives them: CMake refuses a generator the host does not have   *)
(* or one other than the directory's cached one; a toolchain file counts   *)
(* only at the first configure; a -DCMAKE_C_COMPILER naming another        *)
(* compiler than the cached one makes CMake delete its cache and configure *)
(* again with the compiler alone, so the toolchain file and every other -D *)
(* of that command line are lost; a single-configuration generator builds  *)
(* the cached CMAKE_BUILD_TYPE and a multi-configuration one the --config; *)
(* make takes -jN, MSBuild takes /m:N.  Any command may also fail for      *)
(* reasons of its own (a compile error), which is a free choice.           *)
(***************************************************************************)
EXTENDS Integers

CONSTANTS
    System,          \* platform.system().lower() where build.py runs
    Platforms,       \* values of --platform given, None for absent
    Toolchains,      \* values of --toolchain given, None for absent
    Jobs,            \* values of -j given, None for absent
    Flags,           \* store_true options that may be given
    CpuCount,        \* multiprocessing.cpu_count()
    ToolchainFiles,  \* whether codes/scripts/toolchains/*.cmake exist
    MaxRuns,         \* invocations of build.py in one behaviour
    None,            \* model value: Python None
    Raised           \* model value: main() ended by an uncaught exception

ASSUME /\ Flags \subseteq {"release", "clean", "tests", "openssl",
                           "configureOnly", "buildOnly"}
       /\ ToolchainFiles \subseteq BOOLEAN
       /\ MaxRuns \in Nat /\ CpuCount \in Nat \ {0}

VARIABLES
    phase,       \* the step of main() being run, "idle" between invocations
    args,        \* parser.parse_args() of the current invocation
    filesExist,  \* the toolchain files are on disk
    buildDir,    \* build_dir.exists()
    cache,       \* the CMake cache in the build directory, or None
    artifacts,   \* what the last successful `cmake --build` produced, or None
    ret,         \* main()'s return value, Raised, or None while it runs
    runs         \* invocations started

vars == <<phase, args, filesExist, buildDir, cache, artifacts, ret, runs>>

-----------------------------------------------------------------------------
(* The helpers of build.py.                                                *)

\* The argparse options: --platform and --toolchain choices, -j, and the
\* store_true options (--debug is accepted and has no effect).
Args == [platform : Platforms, toolchain : Toolchains, jobs : Jobs,
         flags : SUBSET Flags]

DetectHostPlatform(system) ==
    CASE system = "linux"   -> "linux"
      [] system = "darwin"  -> "mac"
      [] system = "windows" -> "windows"
      [] OTHER              -> system

HostPlatform == DetectHostPlatform(System)

\* Variant for mutation: the toolchain tested before the platform.
GetCMakeGeneratorToolchainFirst(platformName, toolchain) ==
    CASE toolchain = "mingw"       -> "MinGW Makefiles"
      [] platformName = "windows"  -> "Visual Studio 17 2022"
      [] OTHER                     -> "Unix Makefiles"

GetCMakeGenerator(platformName, toolchain) ==
    IF platformName = "windows"
    THEN IF toolchain = "mingw" THEN "MinGW Makefiles"
                                ELSE "Visual Studio 17 2022"
    ELSE "Unix Makefiles"

\* The toolchain file for a cross build, named by the platform it targets.
GetToolchainFile(platformName, hostPlatform) ==
    CASE platformName = hostPlatform -> None
      [] platformName = "windows" /\ hostPlatform \in {"linux", "mac"}
            -> "windows"
      [] platformName = "linux" /\ hostPlatform \in {"windows", "mac"}
            -> "linux"
      [] platformName = "mac" /\ hostPlatform \in {"linux", "windows"}
            -> "mac"
      [] OTHER -> None

\* run_command: the return code of the process, 0 or 1 here; a
\* CalledProcessError is caught, but subprocess.run raises
\* FileNotFoundError, which nothing catches, when cwd does not exist.
RunCommand(cwdExists, succeeded) ==
    IF ~cwdExists THEN Raised ELSE IF succeeded THEN 0 ELSE 1

\* target_platform, build_type and toolchain of main().
TargetPlatform(a) == IF a.platform = None THEN HostPlatform ELSE a.platform

\* Variant for mutation: a misspelt build type.
BuildTypeLowercase(a) == IF "release" \in a.flags THEN "release" ELSE "Debug"

BuildType(a) == IF "release" \in a.flags THEN "Release" ELSE "Debug"

Toolchain(a) ==
    IF a.toolchain # None THEN a.toolchain
    ELSE CASE TargetPlatform(a) = "windows" -> "msvc"
           [] TargetPlatform(a) = "mac"     -> "clang"
           [] OTHER                         -> "gcc"

\* -DCMAKE_C_COMPILER (and its C++ partner) for gcc and clang; msvc and
\* mingw name none and leave CMake to find one.
CompilerArg(toolchain) ==
    IF toolchain \in {"gcc", "clang"} THEN toolchain ELSE None

\* Variant for mutation: use_tongsuo=args.use_openssl, negation dropped.
CMakeArgsTongsuoInverted(a) ==
    LET p == TargetPlatform(a) IN
    [generator     |-> GetCMakeGenerator(p, Toolchain(a)),
     toolchainFile |-> IF p # HostPlatform /\ filesExist
                       THEN GetToolchainFile(p, HostPlatform) ELSE None,
     buildType     |-> BuildType(a),
     compiler      |-> CompilerArg(Toolchain(a)),
     tests         |-> "tests" \in a.flags,
     tongsuo       |-> "openssl" \in a.flags]

\* configure_cmake: the arguments CMake reads.  -A x64 selects the
\* Visual Studio platform and is not kept.
CMakeArgs(a) ==
    LET p == TargetPlatform(a) IN
    [generator     |-> GetCMakeGenerator(p, Toolchain(a)),
     toolchainFile |-> IF p # HostPlatform /\ filesExist
                       THEN GetToolchainFile(p, HostPlatform) ELSE None,
     buildType     |-> BuildType(a),
     compiler      |-> CompilerArg(Toolchain(a)),
     tests         |-> "tests" \in a.flags,
     tongsuo       |-> "openssl" \notin a.flags]

\* Variant for mutation: only a missing -j means "all CPUs".
BuildArgsNoneOnly(a) ==
    [config |-> BuildType(a),
     kind   |-> IF TargetPlatform(a) \in {"linux", "mac"} THEN "-j" ELSE "/m",
     n      |-> IF a.jobs = None THEN CpuCount ELSE a.jobs]

\* build_project: --config, and the native tool's parallel flag, chosen by
\* the target platform's name.
BuildArgs(a) ==
    [config |-> BuildType(a),
     kind   |-> IF TargetPlatform(a) \in {"linux", "mac"} THEN "-j" ELSE "/m",
     n      |-> IF a.jobs \in {None, 0} THEN CpuCount ELSE a.jobs]

-----------------------------------------------------------------------------
(* What CMake and the native build tools do with those arguments.         *)

MultiConfig(generator) == generator = "Visual Studio 17 2022"

\* The generators CMake offers on the host: the Visual Studio and MinGW
\* generators exist only in CMake for Windows.
GeneratorAvailable(generator) ==
    generator \in IF HostPlatform = "windows"
                  THEN {"Unix Makefiles", "MinGW Makefiles",
                        "Visual Studio 17 2022"}
                  ELSE {"Unix Makefiles"}

\* make and mingw32-make take -jN, MSBuild takes /m:N; N must be positive.
NativeToolAccepts(generator, b) ==
    /\ b.n >= 1
    /\ b.kind = IF MultiConfig(generator) THEN "/m" ELSE "-j"

\* CMake configures when the generator exists and matches a cached one.
ConfigureAccepted(c) ==
    /\ GeneratorAvailable(c.generator)
    /\ cache = None \/ cache.generator = c.generator

\* A compiler named on the command line that is not the cached one.  A
\* compiler CMake found itself ("default", /usr/bin/cc) differs from any
\* compiler named later; no -DCMAKE_C_COMPILER keeps the cached one.
CompilerChanged(c) ==
    cache # None /\ c.compiler # None /\ c.compiler # cache.compiler

\* The caches a configure may leave.  Normally the target is fixed at the
\* first configure and the -D values overwrite their entries.  After a
\* compiler change CMake starts from an empty cache holding the compiler
\* alone: no toolchain file, CMAKE_BUILD_TYPE empty, BUILD_TESTS and
\* USE_TONGSUO at the option() defaults of CMakeLists.txt, which the
\* repository does not contain (any value).
Configured(c) ==
    IF CompilerChanged(c)
    THEN [generator : {c.generator}, compiler : {c.compiler},
          type : {"unset"}, target : {HostPlatform},
          tests : BOOLEAN, tongsuo : BOOLEAN]
    ELSE {[generator |-> c.generator,
           compiler  |-> IF c.compiler # None THEN c.compiler
                         ELSE IF cache # None THEN cache.compiler
                         ELSE "default",
           type      |-> c.buildType,
           target    |-> IF cache # None THEN cache.target
                         ELSE IF c.toolchainFile # None THEN c.toolchainFile
                         ELSE HostPlatform,
           tests     |-> c.tests, tongsuo |-> c.tongsuo]}

\* What `cmake --build` produces from the cache.
Built(b) ==
    [type    |-> IF MultiConfig(cache.generator) THEN b.config ELSE cache.type,
     target  |-> cache.target, tests |-> cache.tests,
     tongsuo |-> cache.tongsuo]

-----------------------------------------------------------------------------
(* main(), one action per step.                                            *)

Init ==
    /\ phase = "idle"
    /\ args = None
    /\ filesExist \in ToolchainFiles
    /\ buildDir = FALSE
    /\ cache = None
    /\ artifacts = None
    /\ ret = None
    /\ runs = 0

\* python build.py [options]: parse_args and the derived settings; the
\* platform/toolchain warnings and the banner only print.
Start ==
    /\ phase = "idle"
    /\ runs < MaxRuns
    /\ \E a \in Args : args' = a
    /\ phase' = "clean"
    /\ ret' = None
    /\ runs' = runs + 1
    /\ UNCHANGED <<filesExist, buildDir, cache, artifacts>>

\* if args.clean: clean_build(build_dir), shutil.rmtree when it exists.
Clean ==
    /\ phase = "clean"
    /\ IF "clean" \in args.flags
         THEN /\ buildDir' = FALSE
              /\ cache' = None
              /\ artifacts' = None
         ELSE UNCHANGED <<buildDir, cache, artifacts>>
    /\ phase' = "configure"
    /\ UNCHANGED <<args, filesExist, ret, runs>>

\* if not args.build_only: configure_cmake (mkdir, then cmake); a non-zero
\* return code ends main() with it.
Configure ==
    /\ phase = "configure"
    /\ IF "buildOnly" \in args.flags
         THEN /\ phase' = "mode"
              /\ UNCHANGED <<buildDir, cache, ret>>
         ELSE LET c == CMakeArgs(args) IN
              \E ok \in BOOLEAN :
                 LET rc == RunCommand(TRUE, ok /\ ConfigureAccepted(c)) IN
                 /\ buildDir' = TRUE
                 /\ cache' \in IF rc = 0 THEN Configured(c) ELSE {cache}
                 /\ phase' = IF rc = 0 THEN "mode" ELSE "done"
                 /\ ret' = IF rc = 0 THEN None ELSE rc
    /\ UNCHANGED <<args, filesExist, artifacts, runs>>

\* if args.configure_only: print("CMake配置完成"); return 0
ConfigureOnly ==
    /\ phase = "mode"
    /\ phase' = IF "configureOnly" \in args.flags THEN "done" ELSE "build"
    /\ ret' = IF "configureOnly" \in args.flags THEN 0 ELSE None
    /\ UNCHANGED <<args, filesExist, buildDir, cache, artifacts, runs>>

\* build_project in the build directory; a non-zero return code ends
\* main() with it, an exception escapes main().
Build ==
    /\ phase = "build"
    /\ \E ok \in BOOLEAN :
          LET b  == BuildArgs(args)
              rc == RunCommand(buildDir, /\ ok /\ cache # None
                                         /\ NativeToolAccepts(cache.generator, b))
          IN  /\ artifacts' = IF rc = 0 THEN Built(b) ELSE artifacts
              /\ phase' = IF rc = 0 THEN "tests" ELSE "done"
              /\ ret' = IF rc = 0 THEN None ELSE rc
    /\ UNCHANGED <<args, filesExist, buildDir, cache, runs>>

\* if args.tests: run_tests, whose failure only prints a warning; return 0.
RunTests ==
    /\ phase = "tests"
    /\ phase' = "done"
    /\ ret' = 0
    /\ UNCHANGED <<args, filesExist, buildDir, cache, artifacts, runs>>

\* The process exits; the next invocation may follow.
Finish ==
    /\ phase = "done"
    /\ phase' = "idle"
    /\ UNCHANGED <<args, filesExist, buildDir, cache, artifacts, ret, runs>>

\* No further invocation.
Stopped ==
    /\ phase = "idle"
    /\ runs = MaxRuns
    /\ UNCHANGED vars

Next ==
    \/ Start \/ Clean \/ Configure \/ ConfigureOnly \/ Build \/ RunTests
    \/ Finish \/ Stopped

Spec == Init /\ [][Next]_vars

-----------------------------------------------------------------------------
(* Properties.                                                             *)

Platform == {"linux", "mac", "windows"}

TypeOK ==
    /\ phase \in {"idle", "clean", "configure", "mode", "build", "tests",
                  "done"}
    /\ args \in Args \cup {None}
    /\ filesExist \in BOOLEAN /\ buildDir \in BOOLEAN
    /\ cache \in {None} \cup
         [generator : {"Unix Makefiles", "MinGW Makefiles",
                       "Visual Studio 17 2022"},
          compiler : {"gcc", "clang", "default"},
          type : {"Debug", "Release", "unset"},
          target : Platform \cup {HostPlatform},
          tests : BOOLEAN, tongsuo : BOOLEAN]
    /\ artifacts \in {None} \cup
         [type : {"Debug", "Release", "unset"},
          target : Platform \cup {HostPlatform},
          tests : BOOLEAN, tongsuo : BOOLEAN]
    /\ ret \in {None, 0, 1, Raised}
    /\ runs \in 0..MaxRuns

\* What the command line asked for, compared with what is on disk.
AsRequested(x, a) ==
    /\ x.target = TargetPlatform(a)
    /\ x.tongsuo = ("openssl" \notin a.flags)
    /\ ("tests" \in a.flags) => x.tests

\* An invocation that returns 0 left behind what its options asked for:
\* with --configure-only a build directory configured for the requested
\* target, TLS library and tests; otherwise binaries of the requested build
\* type, target, TLS library and tests.  Earlier invocations on the same
\* build directory are where it goes wrong: a toolchain file that comes too
\* late, or a compiler change that makes CMake drop the -D values.
ExitZeroAsRequested ==
    phase = "done" /\ ret = 0 =>
        IF "configureOnly" \in args.flags
        THEN cache # None /\ AsRequested(cache, args)
        ELSE /\ artifacts # None /\ AsRequested(artifacts, args)
             /\ artifacts.type = BuildType(args)

\* `cmake --build` is handed a parallel flag the directory's build tool
\* understands: -jN for make, /m:N for MSBuild, with N >= 1.
NativeFlagUnderstood ==
    phase = "build" /\ buildDir /\ cache # None =>
        NativeToolAccepts(cache.generator, BuildArgs(args))

\* configure_cmake asks for a generator the host's CMake has, for every
\* target and toolchain the options allow (the docstring's example
\* `--platform windows` cross-compiles).
GeneratorExistsOnHost ==
    phase = "configure" /\ "buildOnly" \notin args.flags =>
        GeneratorAvailable(CMakeArgs(args).generator)

=============================================================================
