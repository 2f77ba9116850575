---------------------------- MODULE ReadContract ----------------------------
(***************************************************************************)
(* What one call of SimClient._receive_response promises its caller,       *)
(* send_message, whatever the server does: the call returns, and returns   *)
(* either None or the text the server sent, from its first character to    *)
(* some character the server had already sent in whole.  Characters are    *)
(* numbered from 1 in the order the server sends them.                     *)
(***************************************************************************)
EXTENDS Naturals

CONSTANTS
    Pending,     \* the call has not returned yet
    NoResponse   \* the call returned None

VARIABLES
    avail,    \* characters the server has sent in whole
    result    \* Pending, NoResponse, or the returned text

vars == <<avail, result>>

Init ==
    /\ avail = 0
    /\ result = Pending

\* The server sends more of its response while the call waits.
Send ==
    /\ result = Pending
    /\ avail' > avail
    /\ UNCHANGED result

\* The call returns None or a prefix of what has been sent.
Return ==
    /\ result = Pending
    /\ \/ result' = NoResponse
       \/ \E k \in 1..avail : result' = [i \in 1..k |-> i]
    /\ UNCHANGED avail

Next == Send \/ Return

Spec == Init /\ [][Next]_vars /\ WF_vars(Return)

=============================================================================
