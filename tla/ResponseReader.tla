--------------------------- MODULE ResponseReader ---------------------------
(***************************************************************************)
(* One call of SimClient._receive_response (client.py): the loop that      *)
(* reads 4 KiB chunks from the socket, decodes each chunk on its own as    *)
(* UTF-8 with errors='ignore', and decides from the joined text when the   *)
(* response is complete, against a server that sends the response in       *)
(* arbitrary segments, may stall, may close (FIN) or reset (RST) early.    *)
(*                                                                         *)
(* Data abstraction.  A response is the status line "S", at most one       *)
(* length header ("CL" = "Content-Length:" in the exact case the code's    *)
(* `in` test looks for, "cl" = any other case, e.g. "content-length:"),    *)
(* the blank-line delimiter "D", and body characters of UTF-8 width 1..3.  *)
(* The ASCII tokens are one byte each: a chunk boundary inside them is     *)
(* harmless because the code tests the joined text.  Decoded text is kept  *)
(* as the sequence of the positions of the characters it contains, so      *)
(* loss, duplication and reordering are all visible.                       *)
(***************************************************************************)
EXTENDS Integers, Sequences, SequencesExt

CONSTANTS
    LengthHeaders,   \* subset of {"CL", "cl", "none"}: how the server frames
    Widths,          \* UTF-8 byte widths of the body characters, in 1..3
    MaxBody,         \* longest body, in characters
    Timeout,         \* the socket timeout of one recv, in clock ticks
    ChunkSize,       \* the argument of recv (4096)
    ServerMayAbort,  \* the server may close or reset mid-response
    Pending,         \* model value: the read has not returned yet
    NoResponse       \* model value: the read returned None

ASSUME /\ LengthHeaders \subseteq {"CL", "cl", "none"}
       /\ Widths \subseteq 1..3
       /\ Timeout \in Nat /\ ChunkSize \in Nat \ {0}

VARIABLES
    resp,     \* the response the server sends
    sent,     \* bytes of it the server has written to the connection
    peer,     \* "open", "fin" (closed) or "rst" (reset) by the server
    rcvd,     \* bytes consumed by recv
    parts,    \* response_parts: one decoded string per chunk
    waited,   \* ticks the current recv has been blocked
    total,    \* ticks since the read started
    result    \* Pending, NoResponse, or the returned text

vars == <<resp, sent, peer, rcvd, parts, waited, total, result>>

-----------------------------------------------------------------------------
(* The wire format of a response.                                          *)

Responses == [hdr : LengthHeaders, body : SeqOf(Widths, MaxBody)]

Chars(r) ==
    <<[t |-> "S", w |-> 1]>>
    \o (IF r.hdr = "none" THEN <<>> ELSE <<[t |-> r.hdr, w |-> 1]>>)
    \o <<[t |-> "D", w |-> 1]>>
    \o [i \in 1..Len(r.body) |-> [t |-> "B", w |-> r.body[i]]]

\* The bytes on the wire: each byte names the character it belongs to.
Bytes(r) ==
    LET ch == Chars(r)
    IN  FlattenSeq([c \in 1..Len(ch) |-> [j \in 1..ch[c].w |-> c]])

\* The Content-Length value a well-formed server declares: body bytes.
BodyBytes(r) == FoldSeq(LAMBDA w, acc : w + acc, 0, r.body)

CH == Chars(resp)
B  == Bytes(resp)

\* chunk.decode('utf-8', errors='ignore') of bytes lo..hi: the characters
\* whose every byte lies in the chunk; a character cut by either end of the
\* chunk is an invalid sequence and is dropped.
Decode(lo, hi) ==
    LET first(c) == SelectInSeq(B, LAMBDA x : x = c)
    IN  SelectSeq([c \in 1..Len(CH) |-> c],
                  LAMBDA c : first(c) >= lo /\ first(c) + CH[c].w - 1 <= hi)

-----------------------------------------------------------------------------
(* The completeness test of the loop, on full_response = ''.join(parts).   *)

HasToken(full, t) == \E i \in 1..Len(full) : CH[full[i]].t = t

\* len(full_response) - headers_end: characters, not bytes, after "\r\n\r\n".
BodyReceived(full) == Len(SelectSeq(full, LAMBDA c : CH[c].t = "B"))

\* Variants of the completeness test, for mutation: an off-by-one in the
\* body comparison; the `else: break` for a response without a length
\* header left out.
IsCompleteOffByOne(full) ==
    /\ HasToken(full, "D")
    /\ HasToken(full, "CL") => BodyReceived(full) >= BodyBytes(resp) - 1

IsCompleteNeedsLength(full) ==
    /\ HasToken(full, "D")
    /\ HasToken(full, "CL")
    /\ BodyReceived(full) >= BodyBytes(resp)

\* '\r\n\r\n' in full_response, then 'Content-Length:' in full_response
\* (case-sensitive), then re.search(..., re.IGNORECASE) and the comparison.
IsComplete(full) ==
    /\ HasToken(full, "D")
    /\ HasToken(full, "CL") => BodyReceived(full) >= BodyBytes(resp)

-----------------------------------------------------------------------------
(* The server side of the connection.                                      *)

Init ==
    /\ resp \in Responses
    /\ sent = 0
    /\ peer = "open"
    /\ rcvd = 0
    /\ parts = <<>>
    /\ waited = 0
    /\ total = 0
    /\ result = Pending

\* The server writes the next segment, of any length.
ServerSend ==
    /\ result = Pending
    /\ peer = "open"
    /\ \E k \in 1..(Len(B) - sent) : sent' = sent + k
    /\ UNCHANGED <<resp, peer, rcvd, parts, waited, total, result>>

\* The server closes its end: after the whole response, or early if it may.
ServerClose ==
    /\ result = Pending
    /\ peer = "open"
    /\ ServerMayAbort \/ sent = Len(B)
    /\ peer' = "fin"
    /\ UNCHANGED <<resp, sent, rcvd, parts, waited, total, result>>

\* The server aborts the connection with a reset.
ServerReset ==
    /\ result = Pending
    /\ ServerMayAbort
    /\ peer = "open"
    /\ peer' = "rst"
    /\ UNCHANGED <<resp, sent, rcvd, parts, waited, total, result>>

-----------------------------------------------------------------------------
(* The reader: one action per outcome of self._ssl_socket.recv(4096).      *)

\* Variant for mutation: response_parts re-created on every iteration.
RecvNoAccumulate ==
    /\ result = Pending
    /\ peer # "rst"
    /\ rcvd < sent
    /\ \E k \in 1..Min({ChunkSize, sent - rcvd}) :
          LET newParts == <<Decode(rcvd + 1, rcvd + k)>>
              full     == FlattenSeq(newParts)
          IN  /\ rcvd' = rcvd + k
              /\ parts' = newParts
              /\ result' = IF IsComplete(full) THEN full ELSE Pending
    /\ waited' = 0
    /\ UNCHANGED <<resp, sent, peer, total>>

\* recv returns k bytes; the chunk is decoded, appended, and the joined
\* text tested; a complete response breaks out of the loop.
Recv ==
    /\ result = Pending
    /\ peer # "rst"
    /\ rcvd < sent
    /\ \E k \in 1..Min({ChunkSize, sent - rcvd}) :
          LET newParts == Append(parts, Decode(rcvd + 1, rcvd + k))
              full     == FlattenSeq(newParts)
          IN  /\ rcvd' = rcvd + k
              /\ parts' = newParts
              /\ result' = IF IsComplete(full) THEN full ELSE Pending
    /\ waited' = 0
    /\ UNCHANGED <<resp, sent, peer, total>>

\* Variant for mutation: an empty chunk does not break the loop.
PeerEOFIgnored ==
    /\ result = Pending
    /\ peer = "fin"
    /\ rcvd = sent
    /\ UNCHANGED vars

\* recv returns b'' after a FIN: break, and return the joined parts, or
\* None when no chunk was ever appended.
PeerEOF ==
    /\ result = Pending
    /\ peer = "fin"
    /\ rcvd = sent
    /\ result' = IF parts = <<>> THEN NoResponse ELSE FlattenSeq(parts)
    /\ UNCHANGED <<resp, sent, peer, rcvd, parts, waited, total>>

\* recv raises ConnectionResetError: `except Exception`, return None.
RecvError ==
    /\ result = Pending
    /\ peer = "rst"
    /\ result' = NoResponse
    /\ UNCHANGED <<resp, sent, peer, rcvd, parts, waited, total>>

\* Variant for mutation: the wait is not bounded by the socket timeout.
TickUnbounded ==
    /\ result = Pending
    /\ peer = "open"
    /\ rcvd = sent
    /\ waited' = waited + 1
    /\ total' = total + 1
    /\ UNCHANGED <<resp, sent, peer, rcvd, parts, result>>

\* recv is blocked on an empty, open connection and a clock tick passes.
Tick ==
    /\ result = Pending
    /\ peer = "open"
    /\ rcvd = sent
    /\ waited < Timeout
    /\ waited' = waited + 1
    /\ total' = total + 1
    /\ UNCHANGED <<resp, sent, peer, rcvd, parts, result>>

\* settimeout(timeout_seconds) expires inside one recv: socket.timeout is
\* caught and None returned; the parts read so far are dropped.
RecvTimeout ==
    /\ result = Pending
    /\ peer = "open"
    /\ rcvd = sent
    /\ waited = Timeout
    /\ result' = NoResponse
    /\ UNCHANGED <<resp, sent, peer, rcvd, parts, waited, total>>

\* The read has returned; nothing more happens in this call.
Returned ==
    /\ result # Pending
    /\ UNCHANGED vars

ReaderStep == Recv \/ PeerEOF \/ RecvError \/ Tick \/ RecvTimeout

Next ==
    \/ ServerSend \/ ServerClose \/ ServerReset
    \/ ReaderStep
    \/ Returned

\* The client thread runs and the clock advances; the server need not act.
Fairness == WF_vars(ReaderStep)

Spec == Init /\ [][Next]_vars /\ Fairness

-----------------------------------------------------------------------------
(* Properties.                                                             *)

TypeOK ==
    /\ resp \in Responses
    /\ sent \in 0..Len(B) /\ rcvd \in 0..sent
    /\ peer \in {"open", "fin", "rst"}
    /\ parts \in Seq(Seq(1..Len(CH)))
    /\ waited \in 0..Timeout /\ total \in Nat
    /\ result \in {Pending, NoResponse} \cup Seq(1..Len(CH))

\* A response carrying a length header, on a connection the server keeps
\* open, is returned whole: the loop does not break before the declared
\* body has been read (spec 8, response framing).
FramedExactly ==
    /\ result \in Seq(1..Len(CH))
    /\ resp.hdr # "none"
    /\ peer = "open"
    => Len(result) = Len(CH)

\* A read that has consumed the whole response never ends in a timeout:
\* the completeness test recognises every whole response.
NoTimeoutOnceArrived ==
    result = NoResponse /\ peer = "open" => rcvd < Len(B)

\* The whole read is bounded by the message's response timeout (spec 4.3
\* step 5): the clock never runs past one timeout while a read is going
\* on.  settimeout before the loop bounds each recv instead, so a server
\* that sends a little before every timeout keeps the read alive.
WholeReadBounded == total <= Timeout

\* The refinement mapping: the characters the server has sent in whole are
\* those the decoder would keep from the bytes written so far.
Contract == INSTANCE ReadContract WITH avail <- Len(Decode(1, sent))

\* _receive_response implements its contract: it returns, and what it
\* returns is None or a prefix of the characters the server had sent when
\* it returned; chunking, decoding and the completeness test never make up,
\* drop or reorder text.
ImplementsReadContract == Contract!Spec

=============================================================================
