------------------------------ MODULE StreamClient ------------------------------
(***************************************************************************)
(* One call of synthesizeStream, tts/streamClient.ts: the response of the  *)
(* sidecar is a stream of frames that the network cuts anywhere, an idle   *)
(* timer and a hard deadline may abort it, and so may the caller.          *)
(*                                                                         *)
(* Bytes are digits to the base Base.  A length prefix has LengthBytes of  *)
(* them, where the code reads four bytes.                                  *)
(***************************************************************************)
EXTENDS Integers, Sequences, SequencesExt

CONSTANTS
  Base, LengthBytes,
  MaxFrameBytes,  \* MAX_FRAME_BYTES
  Payloads        \* the audio frames the sidecar may send

ASSUME StreamAssumption ==
  /\ Base \in Nat /\ Base > 4 /\ LengthBytes \in Nat \ {0}
  /\ MaxFrameBytes \in Nat
  /\ Payloads \subseteq Seq(0 .. Base - 1)

Byte == 0 .. Base - 1

\* i -> what is left of n without its i low digits.
Shifted(n) ==
  LET left[i \in 0 .. LengthBytes] == IF i = 0 THEN n ELSE left[i - 1] \div Base IN left

\* The length of a frame fits its prefix.
ASSUME PayloadsFit == \A p \in Payloads : Shifted(Len(p))[LengthBytes] = 0

\* The tags of the frames, and one the client does not know.
TagAudio == 0
Tags == [ok |-> 1, error |-> 2, busy |-> 3, unknown |-> 4]

VARIABLES
  call,     \* "none", "connecting", "streaming", "closing" (in the finally), "returned"
  verdict,  \* what it returns or throws: "ok" or the name of the error
  aborted,  \* controller.signal.aborted
  signal,   \* externalSignal.aborted
  frames,   \* the audio frames the sidecar has sent in this response
  ending,   \* the name of the last frame it sent; "none" before
  closed,   \* it has closed the connection
  wire,     \* bytes that are on their way
  buffer,   \* bytes read and not consumed: `pending` and the list `chunks`
  chunks    \* what onChunk was given: the chunks of the job

streamVars == <<frames, ending, closed, wire, buffer>>
callVars == <<call, verdict, aborted>>

Errors == {"unavailable", "busy", "booting", "bad_request"}

StreamTypeOK ==
  /\ call \in {"none", "connecting", "streaming", "closing", "returned"}
  /\ verdict \in {"none", "ok"} \cup Errors
  /\ aborted \in BOOLEAN /\ signal \in BOOLEAN
  /\ frames \in Seq(Payloads)
  /\ ending \in {"none"} \cup DOMAIN Tags /\ closed \in BOOLEAN
  /\ wire \in Seq(Byte) /\ buffer \in Seq(Byte)
  /\ chunks \in Seq(Seq(Byte))

StreamInit ==
  /\ call = "none" /\ verdict = "none" /\ aborted = FALSE /\ signal = FALSE
  /\ frames = <<>> /\ ending = "none" /\ closed = FALSE /\ wire = <<>> /\ buffer = <<>>
  /\ chunks = <<>>

-------------------------------------------------------------------------------
(* The parser. *)

HeaderBytes == 1 + LengthBytes

\* The sidecar's struct.pack(">I", n), and the client's readUInt32BE.
LengthPrefix(n) == [i \in 1 .. LengthBytes |-> Shifted(n)[LengthBytes - i] % Base]
FrameLength(b) ==
  LET value[i \in 0 .. LengthBytes] == IF i = 0 THEN 0 ELSE value[i - 1] * Base + b[i + 1]
  IN  value[LengthBytes]

TagVerdict(tag) ==
  CASE tag = Tags.ok -> "ok" [] tag = Tags.busy -> "busy" [] OTHER -> "unavailable"

\* coalesce: have so many bytes arrived?
Coalesce(b, needed) == Len(b) >= needed

\* The loop over the complete frames at the head of the buffer: the chunks it
\* hands out, the bytes it leaves, and the verdict if it met a last frame.
Parse[b \in Seq(Byte)] ==
  LET more    == [chunks |-> <<>>, rest |-> b, verdict |-> "none"]
      stop(v) == [chunks |-> <<>>, rest |-> Tail(b), verdict |-> v]
      end     == HeaderBytes + FrameLength(b)
      rest    == Parse[SubSeq(b, end + 1, Len(b))]
  IN  IF ~Coalesce(b, 1) THEN more
      ELSE IF Head(b) # TagAudio THEN stop(TagVerdict(Head(b)))
      ELSE IF ~Coalesce(b, HeaderBytes) THEN more
      ELSE IF FrameLength(b) > MaxFrameBytes THEN stop("unavailable")
      ELSE IF ~Coalesce(b, end) THEN more
      ELSE [rest EXCEPT !.chunks = <<SubSeq(b, HeaderBytes + 1, end)>> \o @]

-------------------------------------------------------------------------------
(* The other end: frames, then at most one last frame (TtsSidecar), and the    *)
(* end of the connection, which may come early and lose what was not sent.     *)

Responding == call = "streaming" /\ ~aborted /\ ~closed

SendFrame(p) ==
  /\ Responding /\ ending = "none"
  /\ frames' = Append(frames, p)
  /\ wire' = wire \o <<TagAudio>> \o LengthPrefix(Len(p)) \o p
  /\ UNCHANGED <<ending, closed, buffer, callVars, signal, chunks>>

SendLast(name) ==
  /\ Responding /\ ending = "none"
  /\ ending' = name
  /\ wire' = Append(wire, Tags[name])
  /\ UNCHANGED <<frames, closed, buffer, callVars, signal, chunks>>

CloseConnection(n) ==
  /\ Responding
  /\ closed' = TRUE
  /\ wire' = SubSeq(wire, 1, n)
  /\ UNCHANGED <<frames, ending, buffer, callVars, signal, chunks>>

-------------------------------------------------------------------------------
(* The call. *)

\* The beginning: a signal that is aborted already is not waited for, and no
\* request is made.
StartCall ==
  /\ call' = IF signal THEN "returned" ELSE "connecting"
  /\ verdict' = IF signal THEN "unavailable" ELSE "none"
  /\ aborted' = FALSE
  /\ frames' = <<>> /\ ending' = "none" /\ closed' = FALSE /\ wire' = <<>> /\ buffer' = <<>>

\* fetch resolves: a body to read, or a status that becomes an error.
Response(status) ==
  /\ call = "connecting" /\ ~aborted
  /\ call' = IF status = "ok" THEN "streaming" ELSE "returned"
  /\ verdict' = IF status = "ok" THEN "none" ELSE status
  /\ UNCHANGED <<aborted, signal, streamVars, chunks>>

\* fetch rejects: the sidecar cannot be reached, or the controller was aborted.
Unreachable ==
  /\ call = "connecting"
  /\ call' = "returned" /\ verdict' = "unavailable"
  /\ UNCHANGED <<aborted, signal, streamVars, chunks>>

\* reader.read() gives the next n bytes, which may end anywhere in a frame.
Read(n) ==
  /\ call = "streaming" /\ ~aborted
  /\ n \in 1 .. Len(wire)
  /\ LET parsed == Parse[buffer \o SubSeq(wire, 1, n)]
     IN  /\ chunks' = chunks \o parsed.chunks
         /\ buffer' = parsed.rest
         /\ verdict' = parsed.verdict
         /\ call' = IF parsed.verdict = "none" THEN "streaming" ELSE "closing"
  /\ wire' = SubSeq(wire, n + 1, Len(wire))
  /\ UNCHANGED <<frames, ending, closed, aborted, signal>>

\* Mutant: the end of the stream counts as the end of the audio.
ReadDoneMutant ==
  /\ call = "streaming" /\ ~aborted /\ closed /\ wire = <<>>
  /\ call' = "closing" /\ verdict' = "ok"
  /\ UNCHANGED <<aborted, signal, streamVars, chunks>>

\* The stream ends without a last frame.
ReadDone ==
  /\ call = "streaming" /\ ~aborted /\ closed /\ wire = <<>>
  /\ call' = "closing" /\ verdict' = "unavailable"
  /\ UNCHANGED <<aborted, signal, streamVars, chunks>>

\* reader.read() rejects since the controller was aborted.
ReadAborted ==
  /\ call = "streaming" /\ aborted
  /\ call' = "closing" /\ verdict' = "unavailable"
  /\ UNCHANGED <<aborted, signal, streamVars, chunks>>

\* The finally blocks: the body is cancelled, whatever of it is still to come, and
\* the timers are cleared.
ReaderCancelled ==
  /\ call = "closing"
  /\ call' = "returned"
  /\ closed' = TRUE /\ wire' = <<>> /\ buffer' = <<>>
  /\ UNCHANGED <<verdict, aborted, signal, frames, ending, chunks>>

\* A timer fires: nothing has come for TTS_IDLE_TIMEOUT_MS, or the call has
\* lasted TTS_HARD_TIMEOUT_MS.
Timeout ==
  /\ call \in {"connecting", "streaming", "closing"} /\ ~aborted
  /\ aborted' = TRUE
  /\ UNCHANGED <<call, verdict, signal, streamVars, chunks>>

\* The caller aborts; a call that is running listens.
SetSignal ==
  /\ signal' = TRUE
  /\ aborted' = (aborted \/ call \in {"connecting", "streaming", "closing"})

CallStep ==
  \/ \E status \in {"ok", "busy", "booting", "bad_request"} : Response(status)
  \/ Unreachable \/ ReadDone \/ ReadAborted \/ ReaderCancelled \/ Timeout
  \/ \E p \in Payloads : SendFrame(p)
  \/ \E name \in DOMAIN Tags : SendLast(name)
  \/ \E n \in 0 .. Len(wire) : CloseConnection(n)
=============================================================================
