# TLA+ models of the HTTPS server simulator's test client and build script

These modules model two parts of the repository.

The **Python test client** under `src/codes/core/test/`:

- `sim_client/client.py`
- `sim_client/scenario.py`
- `sim_client/config.py`
- `start_test_client.py`

The client connects to the server under test, optionally over TLS. It sends a configured list of HTTP requests in order, reads each response and reports whether every exchange succeeded. An optional auto-offline timer disconnects the client on its own thread.

The **build script** `src/codes/scripts/build.py`. It wraps CMake: it cleans, configures and builds a build directory, then runs the tests.

## 1. Inventory

### Components

| Component | Source | State | Operations |
|---|---|---|---|
| Session transport | `client.py` `connect`, `_wrap_tls`, `disconnect`, `_cleanup` | `_socket`, `_ssl_socket`, `_connected` | connect: bind, connect, TLS handshake. `_cleanup` closes the TLS socket, then the raw socket, then clears `_connected`. |
| Lifecycle timer | `client.py` `_start_auto_offline_timer`, `_auto_offline` | `_auto_offline_timer`, the Timer's `finished` event | The timer is started by connect and cancelled by `_cleanup`. On expiry it calls `disconnect()` on the Timer thread. |
| Request builder | `client.py` `_build_request`, plus the `encode('utf-8')` in `send_message` | none (a pure function) | It copies the supplied headers and adds the debug headers, `Content-Length` and `Host`. |
| Response reader | `client.py` `_receive_response` | `response_parts`, the socket buffer, the socket timeout | One action per recv outcome: bytes, EOF, error or timeout. It tests completeness after each chunk. |
| Scenario sequencer | `scenario.py` `ScenarioExecutor.run` | `results`, `all_success` | Connect, then a send/record loop over the messages, then disconnect and return `all_success`. |
| Configuration | `config.py` | dataclass defaults | `load_config` parses JSON into the configuration, or raises. |
| CLI entry | `start_test_client.py` `main` | none | Calls `run_scenario`, catches its exceptions and sets the exit code. |
| Build script | `scripts/build.py` | the build directory and its CMake cache, which outlive each invocation | `main`: parse the options, then `clean_build`, `configure_cmake`, `build_project` and the ctest step, each through `run_command`. |

### Interactions

The main thread and the daemon `threading.Timer` thread share the `SimClient` attributes without a lock. Both can run `_cleanup`. The main thread can be inside `send_message` or `_receive_response` when the timer closes the socket under it.

The reader interacts with the server through the TCP byte stream:

- The server may segment its response arbitrarily.
- It may stall.
- It may close (FIN) or reset (RST) before the response is complete.
- Over one connection it answers requests in order, possibly after the client has stopped waiting.

Successive invocations of `build.py` interact through the build directory. CMake fixes the generator and the toolchain file at the first configure. A later configure overwrites the cache entries it names with `-D`, such as `CMAKE_BUILD_TYPE`. If it names a different compiler from the cached one, CMake deletes the cache and configures again with the compiler alone.

### Hard behaviours

**Thread interleaving.** Every attribute read in `_cleanup` and `send_message` is a point where CPython can switch threads. The code checks and then uses `_auto_offline_timer` and `_ssl_socket`.

**Response framing over a byte stream:**

- arbitrary chunk boundaries;
- per-chunk UTF-8 decoding;
- a character count compared with a byte count;
- a case-sensitive header test.

**Timeouts.** The socket timeout applies to each `recv`, not to the whole read. After a timeout, the late answer stays on the connection.

**Early close or reset** by the server.

**Releasing the descriptor** on every exit path, including a failed connect.

**State that outlives a build run.** The CMake cache makes the outcome of one invocation depend on the invocations before it.

## 2. Modules

| Module | Models |
|---|---|
| `ResponseReader` | one call of `_receive_response` against an adversarial server |
| `ReadContract` | the abstract promise of a read: it returns `None` or a prefix of what the server sent. `ResponseReader` refines it. |
| `SimClient` | the client object: connect, the `send_message` steps, `_cleanup` line by line, the Timer thread, and the server answering requests in order |
| `Scenario` | the test-client process: `start_test_client.main`, `load_config`, and `ScenarioExecutor.run` composed with `SimClient`, the Timer thread and the server |
| `RequestBuilder` | `_build_request` and the body encoding |
| `Build` | a sequence of `build.py` invocations on one persistent build directory |

Each `MC*` module extends its specification and defines the constants a cfg substitutes.

### Correspondence

**ResponseReader.**

- `parts` is `response_parts`.
- `rcvd` and `sent` are byte counts on the stream.
- `result` is the returned value. `Pending` means the call is still running and `NoResponse` is Python `None`.
- `Recv` is one loop iteration that reads bytes: recv, decode, append, join and the completeness test (`IsComplete`).
- `PeerEOF` is the `b''` break.
- `RecvError` is the `except Exception` on a reset.
- `Tick` and `RecvTimeout` model the socket timeout of one blocked `recv`.
- Text is a sequence of character positions of the response, so a lost or repeated character is visible.
- A body character has a UTF-8 width of 1 or 2.

**ReadContract and the refinement.**

- The abstract state is `avail`, the number of characters the server has sent, and `result`.
- `Send` makes more characters available.
- `Return` ends the read with `None` or with the first k sent characters, for some k ≤ `avail`.
- The abstract spec is weakly fair on `Return`, so every read returns.
- `ResponseReader` maps `avail` to `Len(Decode(1, sent))`, the characters in the bytes sent so far, and `result` to itself.
- `ImplementsReadContract` checks `Contract!Spec`. It subsumes "the result is an exact prefix of what was sent" and "every call returns".

**SimClient.**

- `pc` holds each thread's position.
- `timerRef`, `sslRef`, `sockRef` and `connected` are the four attributes.
- `closed` is the set of socket objects whose `close()` has run.
- `cancelled` is the Timer's `finished` event.
- Each `Clean*` action is one line of `_cleanup`.
- `SendCheck`, `SendAll`, `RecvCheck`, `RecvSetTimeout`, `RecvLoopClosed` and `RecvLoop` are the points of `send_message` and `_receive_response` that re-read `_ssl_socket`.
- `requested`, `answered` and `consumed` count requests sent, responses the server has written, and responses the client has read.
- A response is abstracted to the index of the request it answers. `ResponseReader` covers the bytes.
- `ServerAnswer` is the server writing its next answer. `RecvLoop` returns the oldest unread answer or, on timeout, `None`.

**Scenario.** `idx`, `results`, `allSuccess` and `outcome` are the loop variable, `self.results`, `all_success` and the return value of `run`.

- `cli` is the stage of `start_test_client.main`, and `exitCode` is the status handed to `sys.exit`.
- `CliChecks` is the argument-count and file-exists checks.
- `LoadConfig` is `load_config`, which yields the configuration chosen in `Init` or raises.
- `CliExit` is `return 0 if success else 1` together with the `except Exception` that turns an exception out of `run()` into 1.
- `Exited` is the end of the process.
- `TimeoutSigns` lets any message carry a negative `response_timeout_ms`. `settimeout` then raises `ValueError` after the request was sent. A zero timeout behaves like one that has already expired.

**RequestBuilder.**

- `wire.lines` holds the header lines in order. Each line carries its name and value, plus a flag saying whether the code injected it.
- `wire.bodyBytes` is the encoded body length.

**Build.**

- `args` is the parsed command line. The platform and toolchain options, `--jobs`, and the flags `release`, `clean`, `tests`, `openssl`, `configure-only` and `build-only` are modelled.
- `phase` is the step of `main` the invocation is at: `Clean`, `Configure`, `ConfigureOnly`, `Build`, `RunTests`, `Finish`.
- `ret` is the exit code or `Raised`. `Raised` stands for an exception that `run_command` does not catch, because it catches only `CalledProcessError`.
- `buildDir` says whether the build directory exists.
- `cache` is the CMake cache of the build directory: generator, compiler (`default` when CMake found it itself), build type, target, and the tests and TLS options.
- `artifacts` is the target and build type of the last successful build.
- `CMakeArgs` and `BuildArgs` are the argument lists that `configure_cmake` and `build_project` pass, reduced to the fields that change CMake's behaviour.

The Build model also encodes what CMake and the native tools do:

- Visual Studio and MinGW generators exist only on a Windows host.
- A cached generator must match the requested one.
- The toolchain file counts only at the first configure.
- `CompilerChanged`: a `-DCMAKE_C_COMPILER` naming another compiler than the cached one makes CMake start from an empty cache that holds the compiler alone. The toolchain file and the other `-D` values of that command line are lost. The build type becomes unset. The tests and TLS options take the `option()` defaults of a CMakeLists.txt the repository does not contain, so the model lets them take either value.
- A single-config generator builds the cached `CMAKE_BUILD_TYPE`. Visual Studio builds `--config`.
- make takes `-jN`, MSBuild takes `/m:N`, and N must be at least 1.

## 3. Runs

| Run | Expect | Shows |
|---|---|---|
| ReaderFraming | pass | See below. |
| ReaderUtf8Count | violation | `NoTimeoutOnceArrived`: with a non-ASCII body, the test compares characters with bytes and never succeeds, so the read times out (client.py:220). |
| ScenarioLifecycle | pass | See below. |
| ScenarioTimeoutSuccess | violation | `NoResponseNeverSuccess`: `send_message` returns `(True, None)` after a timeout or a close-broken read (client.py:138). |
| ScenarioDisconnectRace | violation | `DisconnectNeverRaises`: the timer's `_cleanup` clears `_auto_offline_timer` between the main thread's test and its `.cancel()`, which raises `AttributeError` (client.py:258). |
| ReaderWholeRead | violation | `WholeReadBounded`: a server that sends a byte before each timeout keeps one read going past the message's timeout, which spec 4.3 step 5 says bounds the whole read (client.py:200). |
| ScenarioLateResponse | violation | `ResponsesMatchRequests`: a message whose read did not finish leaves the server's answer on the socket, and the next message records it as its own response. The read can end early on a timeout (client.py:227), or on a negative `response_timeout_ms` that makes `settimeout` raise after the request was sent (client.py:200). TLC's shortest trace takes the negative-timeout path. |
| RequestUtf8Length | violation | `LengthHeaderIsByteLength`: `len(body)` counts characters (client.py:166). |
| BuildNative | pass | See below. |
| BuildStaleCache | violation | `ExitZeroAsRequested`: a native build (gcc), then `--platform mac` (clang by default) on the same directory. The compiler change makes CMake drop its cache and configure with the compiler alone. build.py exits 0 with Linux binaries and no build type (build.py:150). |
| BuildMinGWParallelFlag | violation | `NativeFlagUnderstood`: `--toolchain mingw` on Windows passes MSBuild's `/m:N` to mingw32-make (build.py:184). |
| BuildCrossWindows | violation | `GeneratorExistsOnHost`: `--platform windows` on Linux, which the docstring documents, asks for a Visual Studio generator that does not exist there (build.py:290). |

**ReaderFraming** covers ASCII responses framed by an exact-case `Content-Length` or by the blank line alone. Under every segmentation, stall, close and reset:

- the reader implements `ReadContract`: every call returns, with `None` or an exact prefix of what was sent;
- a length-framed response on an open connection is returned whole;
- no read times out after the whole response arrived.

**ScenarioLifecycle** covers the whole process: both TLS settings, both auto-offline settings, positive and negative message timeouts, a failed argument check or `load_config`, and the Timer thread and the server interleaved at every step:

- the process always exits with a status (`ProcessExits`);
- it exits 0 only when every message succeeded and the descriptor was released (`ExitZeroOnlyIfAllSucceeded`, spec 6). The converse fails only through the disconnect race that ScenarioDisconnectRace shows: a run whose every message succeeded then exits 1;
- the descriptor is closed whenever `run` returns;
- `run` returns True exactly when every message was recorded as a success.

**BuildNative** covers three successive native invocations on Linux with gcc: no toolchain named, or `--toolchain gcc`, which name the same compiler. It includes `--platform linux`, `--jobs` of none, 0 and 2, and every flag except `build-only`. It checks two things:

- as long as the compiler stays the same, an exit code of 0 means the requested build type, TLS library and tests were built, whatever earlier invocations left in the cache;
- the parallel flag suits the native tool and is at least 1.

A change of compiler between invocations breaks the first property, which is what BuildStaleCache shows.

The findings in `PROJECT.json` record each violation run's disagreement with spec.md, the docstring or the code's intent.

### Disagreements no run checks

- A peer that closes before the blank line gets the joined parts back, not "no response" as spec 4.3 step 4 asks (client.py:226). `FramedExactly` is stated only for a peer that keeps the connection open.
- With `LengthHeaders <- MCHeadersAll`, a lowercase `content-length` violates `FramedExactly` (client.py:214).
- A configuration that supplies `host` or `content-length` in another case gets a second `Host` or `Content-Length` line (client.py:165, 177).
- `--build-only` on a directory that does not exist, for example after `--clean`, makes `subprocess.run` raise `FileNotFoundError` for the missing `cwd`, and `run_command` does not catch it (build.py:97, 186). The Build runs leave `--build-only` out.
- `codes/scripts/toolchains/` is not in the repository, so `configure_cmake` skips the toolchain file and every cross build is silently native (build.py:140). With `ToolchainFiles <- MCFilesAbsent`, `ExitZeroAsRequested` fails on the first `--platform mac`. The runs keep the files present.

## 4. Bounds

| Model | Bounds | Why they are enough |
|---|---|---|
| Reader | `MaxBody = 2` characters; widths {1} or {1,2}; `Timeout = 2` ticks; `ChunkSize = 4096` | All splits of a response of at most 6 bytes are enumerated. Two body characters allow one to be split across a chunk boundary while one is complete. Two ticks let a stall be followed by more data. With chunk size 4096, every chunk boundary the server's segmentation produces is possible. |
| Scenario | `NumMessages = 3` | A timer firing before, between and after messages, and during `disconnect`, is covered. Two messages are the fewest for which a late answer can be taken for the next message's; the third lets one late answer shift two results. |
| RequestBuilder | bodies of at most 2 characters of width 1 or 2; three header names; debug values at and away from their defaults (0 and 5000) | Every branch of `_build_request` is taken, and a two-byte character in the body shows the character count. |
| Build | `MaxRuns = 3` in BuildNative (2 or 1 in the violation runs); `CpuCount = 4`; jobs in {none, 0, 2} | Two invocations are the fewest for which the cache left by one affects the next; the third lets a cache outlive an intermediate invocation. Jobs 0 and none take the `cpu_count` default, and 2 takes the explicit branch. |

## 5. Fairness

**ResponseReader.** The reader's steps are weakly fair: the client thread runs and the clock advances. The server gets no fairness, so it may stall forever. Termination, inside `ImplementsReadContract`, then rests on the socket timeout, which is what the code relies on.

**Scenario.** The main thread is weakly fair. The Timer thread is weakly fair only once it has woken up, so it runs its callback to the end. Whether the timer expires before the run ends is left open, because `auto_offline_seconds` may be longer than the run. The server's answers get no fairness: it may answer late or never. The CLI steps are weakly fair, because the process runs them on its only thread before and after `run()`. `ProcessExits` therefore rests on the main thread alone: each read ends by the socket timeout, and the loop ends after the last message.

**Build.** No fairness, and no liveness property. Each invocation is a straight-line program, and the runs check only safety.

## 6. Not modelled

- The JSON text `load_config` parses, and all printing: pure I/O. `load_config` itself is one step that yields a configuration or raises.
- `build.py`'s argparse validation and help text.
- TLS handshake details: certificate loading and cipher selection collapse to "handshake succeeds or raises".
- The request line and header text formatting: no property depends on them.
- The ctest exit code. `run_tests` runs ctest through `run_command` with `check=True`, and `main` only prints a warning when it fails (build.py:364). The model's `RunTests` returns 0 directly, which has the same effect.
- A missing `cmake` or `ctest` executable, which also raises `FileNotFoundError` out of `run_command`.
- The remaining body of a response without a length header, read as the next message's response: a documented limitation (spec 4.3, step 3).
