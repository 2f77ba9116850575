------------------------------ MODULE SimClient ------------------------------
(***************************************************************************)
(* The SimClient object (client.py) shared by two threads: the main thread *)
(* that calls connect, send_message and disconnect, and the daemon         *)
(* threading.Timer thread whose callback _auto_offline calls disconnect.   *)
(* Both run _cleanup on the same attributes without a lock; each line of   *)
(* _cleanup that reads or writes an attribute is a step, because CPython   *)
(* may switch threads between any two of them.                             *)
(*                                                                         *)
(* Objects: "raw" is the TCP socket, "tls" the SSLSocket that wraps it.    *)
(* wrap_socket detaches the raw socket, so the descriptor belongs to the   *)
(* SSLSocket when TLS is on and to the raw socket otherwise; closing a     *)
(* Python socket twice is harmless, so a close is "add to closed".         *)
(*                                                                         *)
(* The server answers the requests of the connection in order, each one    *)
(* whenever it likes (the X-Debug-Response-Timeout-Ms directive asks it to *)
(* be late on purpose).  A response is named by the number of the request  *)
(* it answers; _receive_response returns the next whole response waiting   *)
(* on the socket, or None on a timeout.  Module ResponseReader models how  *)
(* that loop frames one response.                                          *)
(***************************************************************************)
EXTENDS Naturals, Sequences

CONSTANTS
    None,          \* model value: Python None
    TimeoutSigns   \* signs message.debug.response_timeout_ms may have in the
                   \* configuration: "positive" (0 behaves like a timeout
                   \* that has already expired) or "negative"

ASSUME TimeoutSigns \subseteq {"positive", "negative"}

Threads == {"main", "timer"}

VARIABLES
    cfg,        \* self.config.self: [tls |-> enabled, autoOffline |-> seconds > 0]
    pc,         \* the line each thread is at
    timerRef,   \* self._auto_offline_timer
    cancelled,  \* the Timer's `finished` event has been set by cancel()
    sslRef,     \* self._ssl_socket
    sockRef,    \* self._socket
    connected,  \* self._connected
    closed,     \* socket objects whose close() has run
    ret,        \* the value send_message returns: [ok, resp]
    requested,  \* requests sendall has written on the connection
    answered,   \* responses the server has written back
    consumed    \* responses _receive_response has read

wireVars == <<requested, answered, consumed>>

clientVars == <<cfg, pc, timerRef, cancelled, sslRef, sockRef, connected,
                closed, ret, wireVars>>

Configs == [tls : BOOLEAN, autoOffline : BOOLEAN]

\* The object that owns the file descriptor after connect.
FdOwner == IF cfg.tls THEN "tls" ELSE "raw"
\* The descriptor exists once connect() has run and until its owner closes.
FdOpen == pc["main"] # "start" /\ FdOwner \notin closed

ClientInit ==
    /\ cfg \in Configs
    /\ pc = [t \in Threads |-> IF t = "main" THEN "start" ELSE "off"]
    /\ timerRef = None
    /\ cancelled = FALSE
    /\ sslRef = None
    /\ sockRef = None
    /\ connected = FALSE
    /\ closed = {}
    /\ ret = [ok |-> FALSE, resp |-> None]
    /\ requested = 0 /\ answered = 0 /\ consumed = 0

-----------------------------------------------------------------------------
(* connect(): bind, connect, optional TLS handshake, then _connected and   *)
(* the auto-offline timer.  No other thread exists yet, so it is one step. *)

ConnectOk ==
    /\ pc["main"] = "start"
    /\ sockRef' = "raw"
    /\ sslRef' = IF cfg.tls THEN "tls" ELSE "raw"
    /\ connected' = TRUE
    /\ timerRef' = IF cfg.autoOffline THEN "T" ELSE None
    /\ pc' = [pc EXCEPT !["main"] = "connected",
                        !["timer"] = IF cfg.autoOffline THEN "armed" ELSE "off"]
    /\ UNCHANGED <<wireVars, cfg, cancelled, closed, ret>>

\* bind, connect or the handshake raises: except -> _cleanup(), return False.
\* A failed wrap_socket closes the SSLSocket itself; _cleanup closes the
\* raw socket and leaves every attribute None.
ConnectFail ==
    /\ pc["main"] = "start"
    /\ closed' = IF cfg.tls THEN {"raw", "tls"} ELSE {"raw"}
    /\ pc' = [pc EXCEPT !["main"] = "connect_failed"]
    /\ UNCHANGED <<wireVars, cfg, timerRef, cancelled, sslRef, sockRef, connected, ret>>

-----------------------------------------------------------------------------
(* The Timer thread: threading.Timer.run waits, then calls the function   *)
(* unless `finished` was set by cancel() before the wait ended.            *)

TimerFire ==
    /\ pc["timer"] = "armed"
    /\ ~cancelled
    /\ pc' = [pc EXCEPT !["timer"] = "t_check"]
    /\ UNCHANGED <<wireVars, cfg, timerRef, cancelled, sslRef, sockRef, connected,
                   closed, ret>>

TimerCancelled ==
    /\ pc["timer"] = "armed"
    /\ cancelled
    /\ pc' = [pc EXCEPT !["timer"] = "done"]
    /\ UNCHANGED <<wireVars, cfg, timerRef, cancelled, sslRef, sockRef, connected,
                   closed, ret>>

-----------------------------------------------------------------------------
(* _cleanup(), run by thread t.  Where it returns to: disconnect()'s       *)
(* caller for the main thread, the end of the Timer thread otherwise.      *)

CleanupReturn(t) == IF t = "main" THEN "disc_done" ELSE "done"

\* if self._auto_offline_timer:
CleanTimerCheck(t) ==
    /\ pc[t] = "t_check"
    /\ pc' = [pc EXCEPT ![t] = IF timerRef # None THEN "t_cancel" ELSE "s_check"]
    /\ UNCHANGED <<wireVars, cfg, timerRef, cancelled, sslRef, sockRef, connected,
                   closed, ret>>

\* self._auto_offline_timer.cancel(): the attribute is read again; None
\* raises AttributeError, which nothing in _cleanup or disconnect catches.
CleanTimerCancel(t) ==
    /\ pc[t] = "t_cancel"
    /\ IF timerRef = None
         THEN /\ pc' = [pc EXCEPT ![t] = "crashed"]
              /\ UNCHANGED cancelled
         ELSE /\ cancelled' = TRUE
              /\ pc' = [pc EXCEPT ![t] = "t_clear"]
    /\ UNCHANGED <<wireVars, cfg, timerRef, sslRef, sockRef, connected, closed, ret>>

\* self._auto_offline_timer = None
CleanTimerClear(t) ==
    /\ pc[t] = "t_clear"
    /\ timerRef' = None
    /\ pc' = [pc EXCEPT ![t] = "s_check"]
    /\ UNCHANGED <<wireVars, cfg, cancelled, sslRef, sockRef, connected, closed, ret>>

\* Variant for mutation: the TLS layer is dropped without being closed.
CleanSslCloseNoClose(t) ==
    /\ pc[t] = "s_check"
    /\ pc' = [pc EXCEPT ![t] = IF sslRef # None THEN "s_clear" ELSE "k_check"]
    /\ UNCHANGED <<wireVars, cfg, timerRef, cancelled, sslRef, sockRef, connected,
                   closed, ret>>

\* if self._ssl_socket: try: self._ssl_socket.close() except: pass
\* (a None read between the test and the call is swallowed by the except).
CleanSslClose(t) ==
    /\ pc[t] = "s_check"
    /\ IF sslRef # None
         THEN /\ closed' = closed \cup {sslRef}
              /\ pc' = [pc EXCEPT ![t] = "s_clear"]
         ELSE /\ pc' = [pc EXCEPT ![t] = "k_check"]
              /\ UNCHANGED closed
    /\ UNCHANGED <<wireVars, cfg, timerRef, cancelled, sslRef, sockRef, connected, ret>>

\* self._ssl_socket = None
CleanSslClear(t) ==
    /\ pc[t] = "s_clear"
    /\ sslRef' = None
    /\ pc' = [pc EXCEPT ![t] = "k_check"]
    /\ UNCHANGED <<wireVars, cfg, timerRef, cancelled, sockRef, connected, closed, ret>>

\* if self._socket: try: self._socket.close() except: pass
CleanSockClose(t) ==
    /\ pc[t] = "k_check"
    /\ IF sockRef # None
         THEN /\ closed' = closed \cup {sockRef}
              /\ pc' = [pc EXCEPT ![t] = "k_clear"]
         ELSE /\ pc' = [pc EXCEPT ![t] = "c_clear"]
              /\ UNCHANGED closed
    /\ UNCHANGED <<wireVars, cfg, timerRef, cancelled, sslRef, sockRef, connected, ret>>

\* self._socket = None
CleanSockClear(t) ==
    /\ pc[t] = "k_clear"
    /\ sockRef' = None
    /\ pc' = [pc EXCEPT ![t] = "c_clear"]
    /\ UNCHANGED <<wireVars, cfg, timerRef, cancelled, sslRef, connected, closed, ret>>

\* self._connected = False
CleanConnected(t) ==
    /\ pc[t] = "c_clear"
    /\ connected' = FALSE
    /\ pc' = [pc EXCEPT ![t] = CleanupReturn(t)]
    /\ UNCHANGED <<wireVars, cfg, timerRef, cancelled, sslRef, sockRef, closed, ret>>

Cleanup(t) ==
    \/ CleanTimerCheck(t) \/ CleanTimerCancel(t) \/ CleanTimerClear(t)
    \/ CleanSslClose(t) \/ CleanSslClear(t)
    \/ CleanSockClose(t) \/ CleanSockClear(t)
    \/ CleanConnected(t)

-----------------------------------------------------------------------------
(* send_message(message) and _receive_response, on the main thread.  Each *)
(* step re-reads self._ssl_socket, which the Timer thread may have closed *)
(* or set to None in between.                                              *)

Return(ok, resp) ==
    /\ ret' = [ok |-> ok, resp |-> resp]
    /\ pc' = [pc EXCEPT !["main"] = "sm_done"]

Unusable(s) == s = None \/ s \in closed

\* if not self._connected or not self._ssl_socket: return False, None
SendCheck ==
    /\ pc["main"] = "sm_check"
    /\ IF ~connected \/ sslRef = None
         THEN Return(FALSE, None)
         ELSE /\ pc' = [pc EXCEPT !["main"] = "sm_send"]
              /\ UNCHANGED ret
    /\ UNCHANGED <<wireVars, cfg, timerRef, cancelled, sslRef, sockRef, connected, closed>>

\* self._ssl_socket.sendall(request): AttributeError or OSError go to the
\* except of send_message: return False, None.
SendAll ==
    /\ pc["main"] = "sm_send"
    /\ IF Unusable(sslRef)
         THEN /\ Return(FALSE, None)
              /\ UNCHANGED requested
         ELSE /\ pc' = [pc EXCEPT !["main"] = "rr_check"]
              /\ requested' = requested + 1
              /\ UNCHANGED ret
    /\ UNCHANGED <<answered, consumed, cfg, timerRef, cancelled, sslRef,
                   sockRef, connected, closed>>

\* _receive_response: if not self._ssl_socket: return None, and
\* send_message returns True, None.
RecvCheck ==
    /\ pc["main"] = "rr_check"
    /\ IF sslRef = None
         THEN Return(TRUE, None)
         ELSE /\ pc' = [pc EXCEPT !["main"] = "rr_settimeout"]
              /\ UNCHANGED ret
    /\ UNCHANGED <<wireVars, cfg, timerRef, cancelled, sslRef, sockRef, connected, closed>>

\* self._ssl_socket.settimeout(timeout_seconds) is outside the try of
\* _receive_response: its AttributeError or OSError, and the ValueError a
\* negative timeout raises, reach send_message: False, None -- after the
\* request was sent.
RecvSetTimeout ==
    /\ pc["main"] = "rr_settimeout"
    /\ \E sign \in TimeoutSigns :
       IF Unusable(sslRef) \/ sign = "negative"
         THEN Return(FALSE, None)
         ELSE /\ pc' = [pc EXCEPT !["main"] = "rr_recv"]
              /\ UNCHANGED ret
    /\ UNCHANGED <<wireVars, cfg, timerRef, cancelled, sslRef, sockRef, connected, closed>>

\* The recv loop on a closed or None socket: every exception is caught and
\* None returned; send_message returns True, None.
RecvLoopClosed ==
    /\ pc["main"] = "rr_recv"
    /\ Unusable(sslRef)
    /\ Return(TRUE, None)
    /\ UNCHANGED <<wireVars, cfg, timerRef, cancelled, sslRef, sockRef,
                   connected, closed>>

\* Variant for mutation: recv without settimeout blocks until the server
\* answers.
RecvLoopBlocking ==
    /\ pc["main"] = "rr_recv"
    /\ ~Unusable(sslRef)
    /\ answered > consumed
    /\ consumed' = consumed + 1
    /\ Return(TRUE, consumed + 1)
    /\ UNCHANGED <<requested, answered, cfg, timerRef, cancelled, sslRef,
                   sockRef, connected, closed>>

\* The recv loop on a usable socket: the next response waiting on it, the
\* oldest unread one, or, when none arrives within the timeout, None.
\* send_message returns True either way.
RecvLoop ==
    /\ pc["main"] = "rr_recv"
    /\ ~Unusable(sslRef)
    /\ IF answered > consumed
         THEN /\ consumed' = consumed + 1
              /\ Return(TRUE, consumed + 1)
         ELSE /\ Return(TRUE, None)
              /\ UNCHANGED consumed
    /\ UNCHANGED <<requested, answered, cfg, timerRef, cancelled, sslRef,
                   sockRef, connected, closed>>

SendMessage ==
    \/ SendCheck \/ SendAll \/ RecvCheck \/ RecvSetTimeout
    \/ RecvLoopClosed \/ RecvLoop

-----------------------------------------------------------------------------
(* The server under test: it answers the next request of the connection, *)
(* at any time after the request arrived, in the order of the requests.   *)

ServerAnswer ==
    /\ answered < requested
    /\ answered' = answered + 1
    /\ UNCHANGED <<requested, consumed, cfg, pc, timerRef, cancelled, sslRef,
                   sockRef, connected, closed, ret>>

=============================================================================
