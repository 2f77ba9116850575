--------------------------- MODULE RequestBuilder ---------------------------
(***************************************************************************)
(* SimClient._build_request (client.py) and the encode('utf-8') that      *)
(* send_message applies to its result.  A message is its set of header    *)
(* names supplied by the configuration, its body as the UTF-8 widths of   *)
(* its characters, and its two debug directives.  Header values are kept *)
(* only where a property reads them: the injected Content-Length and the  *)
(* two debug values; a supplied value and the Host value are model values.*)
(***************************************************************************)
EXTENDS Integers, Sequences, SequencesExt

CONSTANTS
    HeaderNames,   \* header names a configuration may supply
    Widths,        \* UTF-8 byte widths of the body characters
    MaxBody,       \* longest body, in characters
    ErrorCodes,    \* values of debug.force_error_code
    TimeoutsMs,    \* values of debug.response_timeout_ms
    Supplied,      \* model value: the value of a supplied header
    Target,        \* model value: "<target ip>:<target port>"
    None           \* model value: no request built yet

DebugErrorCode == "X-Debug-Force-Error-Code"
DebugTimeout   == "X-Debug-Response-Timeout-Ms"

Messages ==
    [headers : SUBSET HeaderNames, body : SeqOf(Widths, MaxBody),
     code : ErrorCodes, timeoutMs : TimeoutsMs]

VARIABLES
    msg,    \* the MessageConfig passed to send_message
    wire    \* the request handed to sendall: header lines and body bytes

vars == <<msg, wire>>

\* A header line; `injected` tells the ones _build_request adds.
Line(name, value, injected) ==
    [name |-> name, value |-> value, injected |-> injected]

\* request.encode('utf-8'): the body costs the sum of its widths in bytes.
EncodedLength(body) == FoldSeq(LAMBDA w, acc : w + acc, 0, body)

\* headers = dict(req.headers): the supplied headers, in dict order.
UserLines(m) ==
    LET supplied == SetToSeq(m.headers)
    IN  [i \in 1..Len(supplied) |-> Line(supplied[i], Supplied, FALSE)]

\* The debug headers, each only when its directive is not the default.
DebugLines(m) ==
    (IF m.code # 0 THEN <<Line(DebugErrorCode, m.code, TRUE)>> ELSE <<>>)
    \o (IF m.timeoutMs # 5000 THEN <<Line(DebugTimeout, m.timeoutMs, TRUE)>>
                              ELSE <<>>)

\* Content-Length when there is a body and the exact key 'Content-Length'
\* is absent; its value is str(len(req.body)): characters, not bytes.
LengthLine(m) ==
    IF m.body # <<>> /\ "Content-Length" \notin m.headers
    THEN <<Line("Content-Length", Len(m.body), TRUE)>> ELSE <<>>

\* Host, appended after the loop when the exact key 'Host' is absent.
HostLine(m) ==
    IF "Host" \notin m.headers THEN <<Line("Host", Target, TRUE)>> ELSE <<>>

\* request_line + headers_str + "\r\n" + body, then encode('utf-8').
BuildRequest(m) ==
    [lines |-> UserLines(m) \o DebugLines(m) \o LengthLine(m) \o HostLine(m),
     bodyBytes |-> EncodedLength(m.body)]

Init ==
    /\ msg \in Messages
    /\ wire = None

\* send_message builds the request and encodes it.
Build ==
    /\ wire = None
    /\ wire' = BuildRequest(msg)
    /\ UNCHANGED msg

Built ==
    /\ wire # None
    /\ UNCHANGED vars

Next == Build \/ Built

Spec == Init /\ [][Next]_vars

-----------------------------------------------------------------------------
(* Properties.                                                             *)

TypeOK ==
    /\ msg \in Messages
    /\ \/ wire = None
       \/ wire \in [lines : Seq([name : STRING, injected : BOOLEAN,
                                 value : {Supplied, Target} \cup ErrorCodes
                                         \cup TimeoutsMs \cup 0..MaxBody]),
                    bodyBytes : Nat]

\* An injected Content-Length equals the byte length of the encoded body
\* (spec 8: "equals the exact byte length of the body").
LengthHeaderIsByteLength ==
    wire # None =>
        \A i \in 1..Len(wire.lines) :
            /\ wire.lines[i].name = "Content-Length"
            /\ wire.lines[i].injected
            => wire.lines[i].value = wire.bodyBytes

=============================================================================
