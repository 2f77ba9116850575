------------------------------ MODULE Scenario ------------------------------
(***************************************************************************)
(* ScenarioExecutor.run (scenario.py) driving a SimClient: connect, then   *)
(* send_message for each configured message in order, recording           *)
(* (message, success, response or "") and folding success into            *)
(* all_success, then disconnect and return all_success.  The Timer thread *)
(* of SimClient runs concurrently and may disconnect at any point.        *)
(***************************************************************************)
EXTENDS SimClient

CONSTANT NumMessages   \* len(self.config.messages)

\* At least one message, so that an empty result list tells a failed
\* connect from a completed run.
ASSUME NumMessages \in Nat \ {0}

VARIABLES
    idx,         \* the index of the message being sent (1-based)
    results,     \* self.results: one [ok, resp] per message, in order
    allSuccess,  \* all_success
    outcome,     \* the value run() returned, None while it runs
    cli,         \* start_test_client.main: "checks", "load", "run", "exited"
    exitCode     \* the status main() hands to sys.exit, None while it runs

cliVars == <<cli, exitCode>>
vars == <<clientVars, idx, results, allSuccess, outcome, cliVars>>
scenarioVars == <<idx, results, allSuccess, outcome, cliVars>>

Init ==
    /\ ClientInit
    /\ idx = 1
    /\ results = <<>>
    /\ allSuccess = TRUE
    /\ outcome = None
    /\ cli = "checks"
    /\ exitCode = None

\* Variant for mutation: the loop runs one index past the last message.
NextMessagePastEnd(i) ==
    pc' = [pc EXCEPT !["main"] = IF i <= NumMessages + 1 THEN "sm_check"
                                                         ELSE "t_check"]

\* The head of the for loop: the next message, or disconnect() after it.
NextMessage(i) ==
    pc' = [pc EXCEPT !["main"] = IF i <= NumMessages THEN "sm_check"
                                                     ELSE "t_check"]

\* if not self.client.connect(): return False
ConnectFailed ==
    /\ pc["main"] = "connect_failed"
    /\ outcome' = FALSE
    /\ pc' = [pc EXCEPT !["main"] = "returned"]
    /\ UNCHANGED <<cliVars, wireVars, cfg, timerRef, cancelled, sslRef, sockRef, connected,
                   closed, ret, idx, results, allSuccess>>

\* all_success = True; enter the loop.
Connected ==
    /\ pc["main"] = "connected"
    /\ NextMessage(idx)
    /\ UNCHANGED <<cliVars, wireVars, cfg, timerRef, cancelled, sslRef, sockRef, connected,
                   closed, ret, idx, results, allSuccess, outcome>>

\* Variant for mutation: a failed message does not clear all_success.
RecordKeepsAllSuccess ==
    /\ pc["main"] = "sm_done"
    /\ results' = Append(results, ret)
    /\ allSuccess' = allSuccess
    /\ idx' = idx + 1
    /\ NextMessage(idx + 1)
    /\ UNCHANGED <<cliVars, wireVars, cfg, timerRef, cancelled, sslRef, sockRef, connected,
                   closed, ret, outcome>>

\* self.results.append((message, success, response or "")); a failure
\* clears all_success; on to the next message.
Record ==
    /\ pc["main"] = "sm_done"
    /\ results' = Append(results, ret)
    /\ allSuccess' = (allSuccess /\ ret.ok)
    /\ idx' = idx + 1
    /\ NextMessage(idx + 1)
    /\ UNCHANGED <<cliVars, wireVars, cfg, timerRef, cancelled, sslRef, sockRef, connected,
                   closed, ret, outcome>>

\* disconnect() returned; _print_summary(); return all_success.
Finish ==
    /\ pc["main"] = "disc_done"
    /\ outcome' = allSuccess
    /\ pc' = [pc EXCEPT !["main"] = "returned"]
    /\ UNCHANGED <<cliVars, wireVars, cfg, timerRef, cancelled, sslRef, sockRef, connected,
                   closed, ret, idx, results, allSuccess>>

-----------------------------------------------------------------------------
(* start_test_client.main around run_scenario: the process.                *)

\* if len(sys.argv) != 2 ... return 1; if not os.path.exists(config_path):
\* ... return 1.
CliChecks ==
    /\ cli = "checks"
    /\ \E ok \in BOOLEAN :
          /\ cli' = IF ok THEN "load" ELSE "exited"
          /\ exitCode' = IF ok THEN None ELSE 1
    /\ UNCHANGED <<clientVars, idx, results, allSuccess, outcome>>

\* run_scenario: load_config opens and parses the file, filling absent
\* fields with the dataclass defaults (the configuration chosen in Init);
\* an unreadable file, malformed JSON or a non-object where an object is
\* expected raises into main's `except Exception`: return 1.
LoadConfig ==
    /\ cli = "load"
    /\ \/ cli' = "run" /\ UNCHANGED exitCode
       \/ cli' = "exited" /\ exitCode' = 1
    /\ UNCHANGED <<clientVars, idx, results, allSuccess, outcome>>

\* Variant for mutation: an exception out of run_scenario is reported as
\* success.
CliExitRaisedZero ==
    /\ cli = "run"
    /\ pc["main"] \in {"returned", "crashed"}
    /\ exitCode' = IF pc["main"] = "crashed" \/ outcome = TRUE THEN 0 ELSE 1
    /\ cli' = "exited"
    /\ UNCHANGED <<clientVars, idx, results, allSuccess, outcome>>

\* return 0 if success else 1; an exception raised out of run() (the
\* AttributeError of disconnect) is caught: return 1; sys.exit(main()).
CliExit ==
    /\ cli = "run"
    /\ pc["main"] \in {"returned", "crashed"}
    /\ exitCode' = IF pc["main"] = "returned" /\ outcome = TRUE THEN 0 ELSE 1
    /\ cli' = "exited"
    /\ UNCHANGED <<clientVars, idx, results, allSuccess, outcome>>

\* The process has exited; the daemon Timer thread dies with it.
Exited ==
    /\ cli = "exited"
    /\ UNCHANGED vars

MainStep ==
    \/ /\ \/ ConnectOk \/ ConnectFail \/ SendMessage \/ Cleanup("main")
          /\ UNCHANGED scenarioVars
    \/ ConnectFailed \/ Connected \/ Record \/ Finish

\* The server under test answers at its own pace.
ServerStep ==
    /\ ServerAnswer
    /\ UNCHANGED scenarioVars

TimerStep ==
    /\ TimerFire \/ TimerCancelled \/ Cleanup("timer")
    /\ UNCHANGED scenarioVars

\* run() is executing: both client threads and the server may step.
Running == cli = "run" /\ pc["main"] \notin {"returned", "crashed"}

CliStep == CliChecks \/ LoadConfig \/ CliExit

Next ==
    \/ Running /\ (MainStep \/ TimerStep \/ ServerStep)
    \/ CliStep
    \/ Exited

\* The main thread is scheduled; a Timer thread that has woken up runs its
\* callback to the end.  Whether the timer expires is left open.
Fairness ==
    /\ WF_vars(CliStep)
    /\ WF_vars(Running /\ MainStep)
    /\ WF_vars(Running /\ (TimerCancelled \/ Cleanup("timer"))
                       /\ UNCHANGED scenarioVars)

Spec == Init /\ [][Next]_vars /\ Fairness

-----------------------------------------------------------------------------
(* Properties.                                                             *)

TypeOK ==
    /\ cfg \in Configs
    /\ pc \in [Threads -> {"start", "connected", "connect_failed", "sm_check",
                "sm_send", "rr_check", "rr_settimeout", "rr_recv", "sm_done",
                "t_check", "t_cancel", "t_clear", "s_check", "s_clear",
                "k_check", "k_clear", "c_clear", "disc_done", "returned",
                "crashed", "off", "armed", "done"}]
    /\ timerRef \in {None, "T"} /\ cancelled \in BOOLEAN
    /\ sslRef \in {None, "raw", "tls"} /\ sockRef \in {None, "raw"}
    /\ connected \in BOOLEAN /\ closed \subseteq {"raw", "tls"}
    /\ ret \in [ok : BOOLEAN, resp : {None} \cup 1..NumMessages]
    /\ consumed <= answered /\ answered <= requested
    /\ requested \in 0..NumMessages
    /\ idx \in 1..NumMessages + 1
    /\ results \in Seq([ok : BOOLEAN, resp : {None} \cup 1..NumMessages])
    /\ allSuccess \in BOOLEAN /\ outcome \in {None, TRUE, FALSE}
    /\ cli \in {"checks", "load", "run", "exited"}
    /\ exitCode \in {None, 0, 1}

\* When run() returns, the connection's descriptor has been closed, on every
\* path: connect failure, normal disconnect, or an auto-offline disconnect
\* by the Timer thread racing the main thread's own _cleanup.
ReleasedOnReturn ==
    pc["main"] = "returned" => ~FdOpen

\* run() returns True exactly when connect succeeded and every configured
\* message was recorded as a success; it records one result per message,
\* in order, or none when connect failed (spec 8, ordering).
RunOutcome ==
    pc["main"] = "returned" =>
        /\ Len(results) \in {0, NumMessages}
        /\ outcome = (/\ Len(results) = NumMessages
                      /\ \A i \in 1..Len(results) : results[i].ok)

\* The process exits 0 only when every configured message was sent and
\* recorded as a success and the connection was released (spec 6: 0 = all
\* messages succeeded); a run that raised, or a session the Timer thread
\* was still tearing down, never reports 0.
ExitZeroOnlyIfAllSucceeded ==
    exitCode = 0 =>
        /\ Len(results) = NumMessages
        /\ \A i \in 1..NumMessages : results[i].ok
        /\ ~FdOpen

\* An exchange that produced no response is never recorded as a success
\* (spec 5 and 8: a timeout, or a read broken by the auto-offline close, is
\* a failed exchange).
NoResponseNeverSuccess ==
    \A i \in 1..Len(results) : results[i].ok => results[i].resp # None

\* Each recorded response is the answer to that message's own request, or
\* none: a response that arrives after its message timed out is not taken
\* as the next message's response (spec 4.2: the server may exceed the
\* timeout on purpose; spec 5: a timed-out attempt is not mixed into a
\* later one).
ResponsesMatchRequests ==
    \A i \in 1..Len(results) : results[i].resp \in {None, i}

\* The test client process exits with a status: every read is bounded by
\* the socket timeout and the loop by the number of messages, so run()
\* returns, or raises out of disconnect(), whatever the server and the
\* Timer do, and main() turns either into sys.exit.
ProcessExits == <>(exitCode # None)

\* disconnect() never raises, even when the auto-offline timer fires while
\* the main thread is disconnecting (spec 4.1: close is safe to call from a
\* concurrent timer callback).
DisconnectNeverRaises == pc["main"] # "crashed"

=============================================================================
