-------------------------- MODULE MCRequestBuilder --------------------------
(* Model-checking instances of RequestBuilder.                             *)
EXTENDS RequestBuilder

\* Supplied header names, in the exact case the code tests.
MCNamesExactCase == {"Content-Length", "Host", "Accept"}
MCWidthsUtf8 == {1, 2}
MCErrorCodes == {0, 500}
MCTimeoutsMs == {100, 5000}
=============================================================================
