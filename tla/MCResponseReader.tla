-------------------------- MODULE MCResponseReader --------------------------
(* Model-checking instances of ResponseReader.                             *)
EXTENDS ResponseReader

\* Framings the client is meant to handle: exact-case Content-Length, or no
\* length header (the documented delimiter-only heuristic).
MCHeadersHandled == {"CL", "none"}
\* Every framing a server may use, including a lower-case length header.
MCHeadersAll == {"CL", "cl", "none"}
\* ASCII bodies only; ASCII and two-byte characters.
MCWidthsAscii == {1}
MCWidthsUtf8 == {1, 2}
=============================================================================
