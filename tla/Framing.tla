------------------------------- MODULE Framing -------------------------------
(***************************************************************************)
(* sam-transport/frame.rs over one direction of a connection: send_frame   *)
(* writes a length and a payload into a byte stream, receive_frame reads   *)
(* them back with two read_exact calls, each of which may take its bytes   *)
(* in any number of pieces.                                                *)
(*                                                                         *)
(* A byte is known by the frame and the position it was written at, which  *)
(* is all its reader's success depends on: bytes that are the whole header *)
(* of one frame give its length, any others give some length or other.     *)
(*                                                                         *)
(* The reader is one of two.  The client has a task that does nothing but  *)
(* read (runtime.rs:214-222).  The server's session reads in one branch of *)
(* a select! (server.rs:168-187): when the other branch, an outgoing       *)
(* message, is taken first, the future of receive() is dropped, and with   *)
(* it the bytes it has already taken off the stream.  The client is the    *)
(* case in which that never happens: `cut' stays FALSE.                    *)
(***************************************************************************)
EXTENDS Naturals, Sequences

CONSTANTS
  HeaderSize,       \* Bytes of a length: 4 in the code.
  PayloadSize,      \* Sequence: the payload bytes of each message, in order.
  MaxFrameSize,     \* max_frame_size
  PipeCapacity      \* Bytes the operating system holds between the two ends.

\* Every message of the system is an enum and has at least the byte of its
\* variant.  One empty message is allowed, to have that length too; of two,
\* nobody could tell which was received.
ASSUME FramingAssumption ==
  /\ HeaderSize \in Nat \ {0}
  /\ PayloadSize \in Seq(Nat)
  /\ \A j, k \in DOMAIN PayloadSize : PayloadSize[j] = 0 /\ PayloadSize[k] = 0 => j = k
  /\ MaxFrameSize \in Nat
  /\ PipeCapacity \in Nat \ {0}

VARIABLES
  next,        \* The message that is sent next.
  unwritten,   \* Bytes of the current send that are not written yet.
  open,        \* The writing end is open.
  pipe,        \* Bytes written and not read.
  stage,       \* "header", "payload", "disconnected" or "failed"
  taken,       \* Bytes the current read_exact has taken off the pipe.
  length,      \* Bytes the current read_exact wants.
  delivered,   \* Results of the receive() calls that returned Ok.
  cut          \* History: some receive() was dropped in the middle of a frame.

vars == <<next, unwritten, open, pipe, stage, taken, length, delivered, cut>>

Message == 1 .. Len(PayloadSize)

\* What decoding bytes that are nobody's payload may produce.
Garbage == 0

Byte == [frame : Message, pos : Nat]

Header(k) == [i \in 1 .. HeaderSize |-> [frame |-> k, pos |-> i]]
Payload(k) == [i \in 1 .. PayloadSize[k] |-> [frame |-> k, pos |-> HeaderSize + i]]

ValidSize(n) == n <= MaxFrameSize

TypeOK ==
  /\ next \in 1 .. Len(PayloadSize) + 1
  /\ unwritten \in Seq(Byte)
  /\ open \in BOOLEAN
  /\ pipe \in Seq(Byte) /\ Len(pipe) <= PipeCapacity
  /\ stage \in {"header", "payload", "disconnected", "failed"}
  /\ taken \in Seq(Byte)
  /\ length \in Nat
  /\ delivered \in Seq(Message \cup {Garbage})
  /\ cut \in BOOLEAN

Init ==
  /\ next = 1
  /\ unwritten = << >>
  /\ open = TRUE
  /\ pipe = << >>
  /\ stage = "header"
  /\ taken = << >>
  /\ length = HeaderSize
  /\ delivered = << >>
  /\ cut = FALSE

-----------------------------------------------------------------------------
\* send_frame

\* Fault: the limit is enforced by the receiver only.
Send_Unchecked ==
  /\ open /\ unwritten = << >> /\ next \in Message
  /\ next' = next + 1
  /\ unwritten' = Header(next) \o Payload(next)
  /\ UNCHANGED <<open, pipe, stage, taken, length, delivered, cut>>

\* A payload over the limit is refused before anything is written.
Send ==
  /\ open
  /\ unwritten = << >>
  /\ next \in Message
  /\ next' = next + 1
  /\ unwritten' = IF ValidSize(PayloadSize[next]) THEN Header(next) \o Payload(next) ELSE << >>
  /\ UNCHANGED <<open, pipe, stage, taken, length, delivered, cut>>

\* Faults: more is written than the pipe holds; a frame is written in one piece
\* or not at all.
Write_Overrun ==
  /\ open /\ unwritten # << >>
  /\ pipe' = Append(pipe, Head(unwritten))
  /\ unwritten' = Tail(unwritten)
  /\ UNCHANGED <<next, open, stage, taken, length, delivered, cut>>
Write_WholeFrame ==
  /\ open /\ unwritten # << >>
  /\ Len(pipe) + Len(unwritten) <= PipeCapacity
  /\ pipe' = pipe \o unwritten
  /\ unwritten' = << >>
  /\ UNCHANGED <<next, open, stage, taken, length, delivered, cut>>

\* write_all, which a full pipe holds up in the middle.
Write ==
  /\ open
  /\ unwritten # << >>
  /\ Len(pipe) < PipeCapacity
  /\ pipe' = Append(pipe, Head(unwritten))
  /\ unwritten' = Tail(unwritten)
  /\ UNCHANGED <<next, open, stage, taken, length, delivered, cut>>

\* The sending process ends, perhaps in the middle of a frame.
Close ==
  /\ open
  /\ open' = FALSE
  /\ UNCHANGED <<next, unwritten, pipe, stage, taken, length, delivered, cut>>

-----------------------------------------------------------------------------
\* receive_frame

Reading == stage \in {"header", "payload"}

NewReceive ==
  /\ stage' = "header"
  /\ taken' = << >>
  /\ length' = HeaderSize

\* u32::from_be_bytes of the header.
DecodedLength(bytes) ==
  IF \E k \in Message : bytes = Header(k)
    THEN {PayloadSize[bytes[1].frame]}
    ELSE 0 .. MaxFrameSize + 1

\* postcard::from_bytes: other bytes may decode to something, or to nothing.
Decoded(bytes) ==
  IF \E k \in Message : bytes = Payload(k)
    THEN {CHOOSE k \in Message : bytes = Payload(k)}
    ELSE {Garbage}

EndOfHeader(bytes) ==
  \E n \in DecodedLength(bytes) :
    IF ValidSize(n)
      THEN stage' = "payload" /\ length' = n /\ taken' = << >> /\ UNCHANGED delivered
      ELSE stage' = "failed" /\ UNCHANGED <<taken, length, delivered>>

EndOfPayload(bytes) ==
  \/ \E m \in Decoded(bytes) : delivered' = Append(delivered, m) /\ NewReceive
  \/ Decoded(bytes) = {Garbage} /\ stage' = "failed" /\ UNCHANGED <<taken, length, delivered>>

\* read_exact goes on with one more byte.
Take ==
  /\ Reading
  /\ pipe # << >>
  /\ Len(taken) < length
  /\ pipe' = Tail(pipe)
  /\ LET bytes == Append(taken, Head(pipe))
     IN  IF Len(bytes) < length
           THEN taken' = bytes /\ UNCHANGED <<stage, length, delivered>>
           ELSE IF stage = "header" THEN EndOfHeader(bytes) ELSE EndOfPayload(bytes)
  /\ UNCHANGED <<next, unwritten, open, cut>>

\* A payload of no bytes needs no read.
TakeNothing ==
  /\ stage = "payload" /\ length = 0
  /\ EndOfPayload(<< >>)
  /\ UNCHANGED <<next, unwritten, open, pipe, cut>>

\* Fault: the end of the sender is noticed before what it had written is read.
EndOfStream_Early ==
  /\ Reading /\ ~open
  /\ stage' = "disconnected"
  /\ UNCHANGED <<next, unwritten, open, pipe, taken, length, delivered, cut>>

\* UnexpectedEof, at a boundary or inside a frame: is_disconnect.
EndOfStream ==
  /\ Reading
  /\ ~open /\ pipe = << >> /\ Len(taken) < length
  /\ stage' = "disconnected"
  /\ UNCHANGED <<next, unwritten, open, pipe, taken, length, delivered, cut>>

\* The other branch of the select! runs; the loop then calls receive() anew.
CancelReceive ==
  /\ Reading
  /\ NewReceive
  /\ cut' = (cut \/ stage = "payload" \/ taken # << >>)
  /\ UNCHANGED <<next, unwritten, open, pipe, delivered>>

-----------------------------------------------------------------------------
Next ==
  \/ Send \/ Write \/ Close
  \/ Take \/ TakeNothing \/ EndOfStream \/ CancelReceive

\* Both ends are polled by their runtimes as long as they can make progress;
\* nothing obliges the sender to end or the other branch to run.
Fairness == WF_vars(Send) /\ WF_vars(Write) /\ WF_vars(Take \/ TakeNothing \/ EndOfStream)

Spec == Init /\ [][Next]_vars /\ Fairness

-----------------------------------------------------------------------------
\* Properties

Accepted == {k \in Message : ValidSize(PayloadSize[k])}

\* frame.rs:12-14: "message boundaries survive the underlying stream".  Every
\* message received is a message that was sent, none is skipped, repeated or
\* made of two, and the stream never decodes to something else.
BoundariesSurvive ==
  /\ stage # "failed"
  /\ \A i \in DOMAIN delivered :
       /\ delivered[i] \in Accepted /\ delivered[i] < next
       /\ \A j \in 1 .. i - 1 : delivered[j] < delivered[i]
       /\ \A k \in Accepted : k < delivered[i] => \E j \in 1 .. i - 1 : delivered[j] = k

\* A cancelled read does harm only in the middle of a frame: as long as every
\* receive() was dropped before its first byte (and so always in the client),
\* the stream stays in step.
IntactUnlessCut == ~cut => BoundariesSurvive

\* The reader reports a disconnect only after it delivered every frame that
\* was written to the end, and never while the sender lives.
NothingLostAtEnd ==
  ~cut /\ stage = "disconnected" =>
    /\ ~open
    /\ \A k \in Accepted : k < next =>
         \/ \E i \in DOMAIN delivered : delivered[i] = k
         \/ k = next - 1 /\ unwritten # << >>

\* However small the pipe, a sender that stays alive gets every message it may
\* send to the other end, if no read is cut.
AllDelivered ==
  <>(~open) \/ <>cut \/ <>(\A k \in Accepted : \E i \in DOMAIN delivered : delivered[i] = k)
=============================================================================
