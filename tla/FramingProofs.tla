---------------------------- MODULE FramingProofs ----------------------------
(***************************************************************************)
(* Framing, for every size of header, payload, limit and pipe and for any  *)
(* number of messages: as long as no receive() was dropped in the middle   *)
(* of a frame, the reader is in step with the stream.                      *)
(***************************************************************************)
EXTENDS Framing, TLAPS

\* A point of the stream is a number of bytes of a frame: <k, p> is behind the
\* first p bytes of frame k, and <k, 0> is a boundary that the accepted message
\* from k on comes behind.
Size(k) == HeaderSize + PayloadSize[k]

NoneBetween(j, k) == \A m \in Accepted : ~(j <= m /\ m < k)

\* The byte that starts the first frame from k on.
Starts(k, byte) ==
  /\ k <= byte.frame
  /\ NoneBetween(k, byte.frame)
  /\ byte.pos = 1

\* The byte that comes next behind a point.
After(k, p, byte) ==
  \/ p = 0 /\ Starts(k, byte)
  \/ 0 < p /\ p < Size(k) /\ byte.frame = k /\ byte.pos = p + 1
  \/ 0 < p /\ p = Size(k) /\ Starts(k + 1, byte)

\* Nothing comes behind it that was sent before the message `end'.
Done(k, p, end) ==
  \/ p = 0 /\ NoneBetween(k, end)
  \/ 0 < p /\ p = Size(k) /\ NoneBetween(k + 1, end)

\* What the writer has yet to write comes next behind it.
WriterAt(k, p) ==
  IF unwritten = << >> THEN Done(k, p, next) ELSE After(k, p, unwritten[1])

\* A byte of a frame that was sent.
Sent(byte) ==
  /\ byte.frame \in Accepted /\ byte.frame < next
  /\ byte.pos \in 1 .. Size(byte.frame)

\* What is unwritten is the end of the frame sent last.
WriterInStep ==
  /\ next \in 1 .. Len(PayloadSize) + 1
  /\ unwritten \in Seq(Byte)
  /\ unwritten # << >> => next - 1 \in Accepted /\ Len(unwritten) <= Size(next - 1)
  /\ \A i \in 1 .. Len(unwritten) :
       unwritten[i] = [frame |-> next - 1, pos |-> Size(next - 1) - Len(unwritten) + i]

\* What is in the pipe is without a gap, and the writer continues it.
PipeInStep ==
  /\ pipe \in Seq(Byte)
  /\ \A i \in 1 .. Len(pipe) : Sent(pipe[i])
  /\ \A i \in 1 .. Len(pipe) - 1 : After(pipe[i].frame, pipe[i].pos, pipe[i + 1])
  /\ pipe # << >> => WriterAt(pipe[Len(pipe)].frame, pipe[Len(pipe)].pos)

\* The accepted messages below k are delivered, in order, and no others.
DeliveredTo(k) ==
  /\ \A i \in 1 .. Len(delivered) : delivered[i] \in Accepted /\ delivered[i] < k
  /\ \A i, j \in 1 .. Len(delivered) : j < i => delivered[j] < delivered[i]
  /\ \A m \in Accepted : m < k => \E i \in 1 .. Len(delivered) : delivered[i] = m

\* The reader has read up to a point: it knows where in which frame it is.
ReaderAt(k, p) ==
  /\ k <= next
  /\ DeliveredTo(k)
  /\ 0 < p => k \in Accepted /\ k < next
  /\ \/ /\ stage = "header" /\ length = HeaderSize
        /\ p < HeaderSize /\ Len(taken) = p
        /\ \A i \in 1 .. p : taken[i] = [frame |-> k, pos |-> i]
     \/ /\ stage = "payload" /\ k \in Accepted /\ length = PayloadSize[k]
        /\ p = HeaderSize + Len(taken)
        /\ Len(taken) < length \/ (length = 0 /\ taken = << >>)
        /\ \A i \in 1 .. Len(taken) : taken[i] = [frame |-> k, pos |-> HeaderSize + i]

\* And what the pipe or else the writer holds comes next behind that point.
StreamAt(k, p) == IF pipe = << >> THEN WriterAt(k, p) ELSE After(k, p, pipe[1])

ReaderInStep ==
  \E k \in 1 .. Len(PayloadSize) + 1, p \in Nat : ReaderAt(k, p) /\ StreamAt(k, p)

FInv ==
  /\ WriterInStep
  /\ PipeInStep
  /\ ~cut => /\ Reading => ReaderInStep
             /\ stage = "disconnected" => ~open /\ BoundariesSurvive
             /\ stage # "failed"
  /\ NothingLostAtEnd

-----------------------------------------------------------------------------
\* Operators

LEMMA Sizes ==
  ASSUME NEW k \in Message
  PROVE  PayloadSize[k] \in Nat /\ Size(k) \in Nat /\ HeaderSize <= Size(k) /\ 0 < Size(k)
<1>1. PayloadSize[k] \in Nat
  BY FramingAssumption DEF Message
<1> QED
  BY <1>1, FramingAssumption DEF Size

LEMMA Messages == Accepted \subseteq Message /\ Message \subseteq Nat \ {0} /\ Garbage \notin Message
BY DEF Accepted, Message, Garbage

\* What a sequence is made of.
LEMMA ListOf ==
  ASSUME NEW S, NEW n \in Nat, NEW list, list = [i \in 1 .. n |-> list[i]],
         \A i \in 1 .. n : list[i] \in S
  PROVE  list \in Seq(S) /\ Len(list) = n
  OBVIOUS

LEMMA SameList ==
  ASSUME NEW S, NEW list \in Seq(S), NEW n \in Nat, Len(list) = n
  PROVE  list = [i \in 1 .. n |-> list[i]] /\ \A i \in 1 .. n : list[i] \in S
  OBVIOUS

LEMMA EqualLists ==
  ASSUME NEW S, NEW list \in Seq(S), NEW other \in Seq(S), Len(list) = Len(other),
         \A i \in 1 .. Len(list) : list[i] = other[i]
  PROVE  list = other
<1>1. list = [i \in 1 .. Len(list) |-> list[i]] /\ other = [i \in 1 .. Len(list) |-> other[i]]
  BY SameList
<1> QED
  BY <1>1

LEMMA FrameBytes ==
  ASSUME NEW k \in Message
  PROVE  /\ Header(k) \in Seq(Byte) /\ Len(Header(k)) = HeaderSize
         /\ Payload(k) \in Seq(Byte) /\ Len(Payload(k)) = PayloadSize[k]
         /\ Header(k) \o Payload(k) \in Seq(Byte) /\ Len(Header(k) \o Payload(k)) = Size(k)
         /\ \A i \in 1 .. Size(k) : (Header(k) \o Payload(k))[i] = [frame |-> k, pos |-> i]
<1>1. HeaderSize \in Nat /\ PayloadSize[k] \in Nat
  BY Sizes, FramingAssumption
<1>2. Header(k) \in Seq(Byte) /\ Len(Header(k)) = HeaderSize
  BY <1>1 DEF Header, Byte
<1>3. Payload(k) \in Seq(Byte) /\ Len(Payload(k)) = PayloadSize[k]
  <2>1. Payload(k) = [i \in 1 .. PayloadSize[k] |-> Payload(k)[i]]
    BY DEF Payload
  <2>2. ASSUME NEW i \in 1 .. PayloadSize[k]
        PROVE  Payload(k)[i] \in Byte
    <3>1. Payload(k)[i] = [frame |-> k, pos |-> HeaderSize + i]
      BY DEF Payload
    <3>2. HeaderSize + i \in Nat
      BY <1>1
    <3> QED
      BY <3>1, <3>2 DEF Byte
  <2> QED
    BY <1>1, <2>1, <2>2, ListOf
<1>4. Header(k) \o Payload(k) \in Seq(Byte) /\ Len(Header(k) \o Payload(k)) = Size(k)
  BY <1>1, <1>2, <1>3 DEF Size
<1>5. ASSUME NEW i \in 1 .. Size(k)
      PROVE  (Header(k) \o Payload(k))[i] = [frame |-> k, pos |-> i]
  <2>1. (Header(k) \o Payload(k))[i] =
          IF i <= HeaderSize THEN Header(k)[i] ELSE Payload(k)[i - HeaderSize]
    BY <1>1, <1>2, <1>3 DEF Size
  <2>2. CASE i <= HeaderSize
    BY <1>1, <2>1, <2>2 DEF Header, Size
  <2>3. CASE ~(i <= HeaderSize)
    <3>1. i - HeaderSize \in 1 .. PayloadSize[k] /\ HeaderSize + (i - HeaderSize) = i
      BY <1>1, <2>3 DEF Size
    <3>2. Payload(k)[i - HeaderSize] = [frame |-> k, pos |-> HeaderSize + (i - HeaderSize)]
      BY <3>1 DEF Payload
    <3> QED
      BY <2>1, <2>3, <3>1, <3>2
  <2> QED
    BY <2>2, <2>3
<1> QED
  BY <1>2, <1>3, <1>4, <1>5

\* A byte more, or a byte less.
LEMMA MoreBytes ==
  ASSUME NEW S, NEW bytes \in Seq(S), NEW byte \in S
  PROVE  /\ Append(bytes, byte) \in Seq(S) /\ Len(Append(bytes, byte)) = Len(bytes) + 1
         /\ \A i \in 1 .. Len(bytes) : Append(bytes, byte)[i] = bytes[i]
         /\ Append(bytes, byte)[Len(bytes) + 1] = byte
         /\ Len(bytes) \in Nat
  OBVIOUS

LEMMA FewerBytes ==
  ASSUME NEW S, NEW bytes \in Seq(S), bytes # << >>
  PROVE  /\ Head(bytes) = bytes[1] /\ Head(bytes) \in S
         /\ Tail(bytes) \in Seq(S) /\ Len(Tail(bytes)) = Len(bytes) - 1
         /\ \A i \in 1 .. Len(bytes) - 1 : Tail(bytes)[i] = bytes[i + 1]
         /\ Len(bytes) \in Nat \ {0}
  OBVIOUS

\* A whole header gives its frame's length, a whole payload its message.
LEMMA DecodedHeader ==
  ASSUME NEW k \in Message, NEW bytes \in Seq(Byte), Len(bytes) = HeaderSize,
         \A i \in 1 .. HeaderSize : bytes[i] = [frame |-> k, pos |-> i]
  PROVE  DecodedLength(bytes) = {PayloadSize[k]}
<1>1. bytes = Header(k)
  <2>1. bytes = [i \in 1 .. HeaderSize |-> bytes[i]]
    BY SameList, FramingAssumption
  <2> QED
    BY <2>1 DEF Header
<1>2. bytes[1].frame = k
  BY FramingAssumption
<1> QED
  BY <1>1, <1>2 DEF DecodedLength

LEMMA SamePayload ==
  ASSUME NEW k \in Message, NEW bytes \in Seq(Byte), Len(bytes) = PayloadSize[k],
         \A i \in 1 .. Len(bytes) : bytes[i] = [frame |-> k, pos |-> HeaderSize + i]
  PROVE  bytes = Payload(k)
<1>1. Len(bytes) = Len(Payload(k)) /\ Payload(k) \in Seq(Byte)
  BY FrameBytes
<1>2. \A i \in 1 .. Len(bytes) : bytes[i] = Payload(k)[i]
  BY DEF Payload
<1> QED
  BY <1>1, <1>2, EqualLists

LEMMA DecodedPayload ==
  ASSUME NEW k \in Message
  PROVE  Decoded(Payload(k)) = {k}
<1>1. ASSUME NEW j \in Message, Payload(k) = Payload(j)
      PROVE  j = k
  <2>1. PICK n \in Nat : n = PayloadSize[k]
    BY Sizes
  <2>2. PayloadSize[j] = n
    <3>1. Len(Payload(k)) = n /\ Len(Payload(j)) = PayloadSize[j]
      BY <2>1, FrameBytes
    <3> QED
      BY <1>1, <3>1
  <2>3. CASE n = 0
    <3>1. k \in DOMAIN PayloadSize /\ j \in DOMAIN PayloadSize
      BY FramingAssumption DEF Message
    <3> QED
      BY <2>1, <2>2, <2>3, <3>1, FramingAssumption
  <2>4. CASE n # 0
    <3>1. 1 \in 1 .. n
      BY <2>4
    <3>2. Payload(j)[1].frame = j /\ Payload(k)[1].frame = k
      BY <2>1, <2>2, <3>1 DEF Payload
    <3> QED
      BY <1>1, <3>2
  <2> QED
    BY <2>3, <2>4
<1>2. (CHOOSE j \in Message : Payload(k) = Payload(j)) = k
  BY <1>1
<1> QED
  BY <1>2 DEF Decoded

\* Whatever the bytes are: what may come of them.
LEMMA DecodedTypes ==
  ASSUME NEW bytes \in Seq(Byte), Len(bytes) = HeaderSize
  PROVE  DecodedLength(bytes) \subseteq Nat
<1>1. bytes[1] \in Byte
  BY SameList, FramingAssumption
<1>2. bytes[1].frame \in Message
  BY <1>1 DEF Byte
<1> QED
  BY <1>2, Sizes, FramingAssumption DEF DecodedLength

LEMMA DecodedMessages ==
  ASSUME NEW bytes
  PROVE  Decoded(bytes) \subseteq Message \cup {Garbage}
BY DEF Decoded

-----------------------------------------------------------------------------
\* Type correctness, which does not depend on the reader being in step.

FType ==
  /\ TypeOK
  /\ stage = "header" => length = HeaderSize /\ Len(taken) < HeaderSize

LEMMA SendKeepsType ==
  ASSUME FType, Send
  PROVE  FType'
<1>1. next \in Message /\ next' \in 1 .. Len(PayloadSize) + 1
  BY FramingAssumption DEF Send, Message, FType, TypeOK
<1>2. unwritten' \in Seq(Byte)
  BY <1>1, FrameBytes DEF Send
<1> QED
  BY <1>1, <1>2 DEF Send, FType, TypeOK

LEMMA WriteKeepsType ==
  ASSUME FType, Write
  PROVE  FType'
<1>1. Head(unwritten) \in Byte /\ unwritten' \in Seq(Byte)
  BY FewerBytes DEF Write, FType, TypeOK
<1>2. pipe' \in Seq(Byte) /\ Len(pipe') <= PipeCapacity
  <2>1. pipe' \in Seq(Byte) /\ Len(pipe') = Len(pipe) + 1 /\ Len(pipe) \in Nat
    BY <1>1, MoreBytes DEF Write, FType, TypeOK
  <2> QED
    BY <2>1, FramingAssumption DEF Write
<1> QED
  BY <1>1, <1>2 DEF Write, FType, TypeOK

LEMMA EndOfPayloadKeepsType ==
  ASSUME FType, NEW bytes, EndOfPayload(bytes)
  PROVE  /\ stage' \in {"header", "failed"}
         /\ taken' \in Seq(Byte) /\ length' \in Nat
         /\ stage' = "header" => length' = HeaderSize /\ Len(taken') < HeaderSize
         /\ delivered' \in Seq(Message \cup {Garbage})
<1>1. CASE \E m \in Decoded(bytes) : delivered' = Append(delivered, m) /\ NewReceive
  <2>1. PICK m \in Message \cup {Garbage} : delivered' = Append(delivered, m) /\ NewReceive
    BY <1>1, DecodedMessages
  <2>2. delivered' \in Seq(Message \cup {Garbage})
    BY <2>1, MoreBytes DEF FType, TypeOK
  <2> QED
    BY <2>1, <2>2, FramingAssumption DEF NewReceive
<1>2. CASE stage' = "failed" /\ UNCHANGED <<taken, length, delivered>>
  BY <1>2 DEF FType, TypeOK
<1> QED
  BY <1>1, <1>2 DEF EndOfPayload

LEMMA EndOfHeaderKeepsType ==
  ASSUME FType, NEW bytes \in Seq(Byte), Len(bytes) = HeaderSize, EndOfHeader(bytes)
  PROVE  /\ stage' \in {"payload", "failed"}
         /\ taken' \in Seq(Byte) /\ length' \in Nat /\ delivered' = delivered
<1>1. PICK n \in DecodedLength(bytes) :
        IF ValidSize(n)
          THEN stage' = "payload" /\ length' = n /\ taken' = << >> /\ UNCHANGED delivered
          ELSE stage' = "failed" /\ UNCHANGED <<taken, length, delivered>>
  BY DEF EndOfHeader
<1>2. n \in Nat
  BY DecodedTypes
<1>3. CASE ValidSize(n)
  BY <1>1, <1>2, <1>3 DEF ValidSize, FType, TypeOK
<1>4. CASE ~ValidSize(n)
  BY <1>1, <1>4 DEF FType, TypeOK
<1> QED
  BY <1>3, <1>4

LEMMA ReadsKeepType ==
  ASSUME FType, Take \/ TakeNothing
  PROVE  FType'
<1>1. CASE TakeNothing
  BY <1>1, EndOfPayloadKeepsType DEF TakeNothing, FType, TypeOK
<1>2. CASE Take
  <2> DEFINE bytes == Append(taken, Head(pipe))
  <2>1. /\ bytes \in Seq(Byte) /\ Len(bytes) = Len(taken) + 1 /\ Len(taken) \in Nat
        /\ pipe' \in Seq(Byte) /\ Len(pipe') = Len(pipe) - 1 /\ Len(pipe) \in Nat
    BY <1>2, FewerBytes, MoreBytes DEF Take, FType, TypeOK
  <2>2. Len(pipe') <= PipeCapacity
    BY <2>1, FramingAssumption DEF FType, TypeOK
  <2>3. CASE Len(bytes) < length
    BY <1>2, <2>1, <2>2, <2>3 DEF Take, FType, TypeOK
  <2>4. CASE ~(Len(bytes) < length) /\ stage = "header"
    <3>1. EndOfHeader(bytes) /\ Len(bytes) = HeaderSize
      BY <1>2, <2>1, <2>4, FramingAssumption DEF Take, FType
    <3> HIDE DEF bytes
    <3> QED
      BY <1>2, <2>1, <2>2, <3>1, EndOfHeaderKeepsType DEF Take, FType, TypeOK
  <2>5. CASE ~(Len(bytes) < length) /\ stage # "header"
    <3>1. EndOfPayload(bytes)
      BY <1>2, <2>5 DEF Take
    <3> HIDE DEF bytes
    <3> QED
      BY <1>2, <2>1, <2>2, <3>1, EndOfPayloadKeepsType DEF Take, FType, TypeOK
  <2> QED
    BY <2>3, <2>4, <2>5
<1> QED
  BY <1>1, <1>2

LEMMA NextKeepsType == FType /\ [Next]_vars => FType'
<1> SUFFICES ASSUME FType, [Next]_vars
             PROVE  FType'
  OBVIOUS
<1>1. CASE Close
  BY <1>1 DEF Close, FType, TypeOK
<1>2. CASE EndOfStream
  BY <1>2 DEF EndOfStream, FType, TypeOK
<1>3. CASE CancelReceive
  <2>1. stage' = "header" /\ taken' = << >> /\ length' = HeaderSize /\ cut' \in BOOLEAN
    BY <1>3 DEF CancelReceive, NewReceive
  <2>2. Len(taken') = 0 /\ taken' \in Seq(Byte)
    BY <2>1
  <2>3. UNCHANGED <<next, unwritten, open, pipe, delivered>> /\ HeaderSize \in Nat /\ 0 < HeaderSize
    BY <1>3, FramingAssumption DEF CancelReceive
  <2>4. TypeOK'
    BY <2>1, <2>2, <2>3 DEF FType, TypeOK
  <2>5. stage' = "header" => length' = HeaderSize /\ Len(taken') < HeaderSize
    <3>1. length' = HeaderSize
      BY <2>1
    <3> QED
      BY <2>2, <2>3, <3>1
  <2> QED
    BY <2>4, <2>5 DEF FType
<1>4. CASE UNCHANGED vars
  BY <1>4 DEF vars, FType, TypeOK
<1> QED
  BY <1>1, <1>2, <1>3, <1>4, SendKeepsType, WriteKeepsType, ReadsKeepType DEF Next

LEMMA InitFType == Init => FType
<1> SUFFICES ASSUME Init
             PROVE  FType
  OBVIOUS
<1>1. HeaderSize \in Nat /\ 0 < HeaderSize /\ PipeCapacity \in Nat /\ Len(PayloadSize) \in Nat
  BY FramingAssumption
<1>2. << >> \in Seq(Byte) /\ << >> \in Seq(Message \cup {Garbage}) /\ Len(<< >>) = 0
  OBVIOUS
<1>3. /\ unwritten \in Seq(Byte) /\ pipe \in Seq(Byte) /\ taken \in Seq(Byte)
      /\ delivered \in Seq(Message \cup {Garbage}) /\ Len(pipe) = 0 /\ Len(taken) = 0
  BY <1>2 DEF Init
<1>4. next \in 1 .. Len(PayloadSize) + 1 /\ length \in Nat
  BY <1>1 DEF Init
<1>5. stage = "header" /\ open \in BOOLEAN /\ cut \in BOOLEAN /\ length = HeaderSize
  BY DEF Init
<1>6. TypeOK
  BY <1>1, <1>3, <1>4, <1>5 DEF TypeOK
<1> QED
  BY <1>1, <1>3, <1>5, <1>6 DEF FType

LEMMA AlwaysFType == Spec => []FType
<1> QED
  BY InitFType, NextKeepsType, PTL DEF Spec

\* For every size of header, payload, limit and pipe the stream and its two
\* ends are in one of their states: the pipe holds what it can hold, what is
\* delivered is a message or what other bytes decode to.
THEOREM FramingType == Spec => []TypeOK
<1>1. FType => TypeOK
  BY DEF FType
<1> QED
  BY <1>1, AlwaysFType, PTL

-----------------------------------------------------------------------------
\* Points of the stream

\* The end of a frame is the boundary in front of the next.
LEMMA Boundary ==
  ASSUME NEW k \in Accepted
  PROVE  /\ \A byte : After(k, Size(k), byte) <=> After(k + 1, 0, byte)
         /\ \A end : Done(k, Size(k), end) <=> Done(k + 1, 0, end)
<1>1. Size(k) \in Nat /\ 0 < Size(k)
  BY Sizes, Messages
<1> QED
  BY <1>1 DEF After, Done

\* A message that is sent comes behind everything, a refused one nowhere.
LEMMA SendContinues ==
  ASSUME NEW n \in Message, NEW k \in 1 .. n, NEW p \in Nat, 0 < p => k < n, Done(k, p, n)
  PROVE  /\ n \in Accepted => After(k, p, [frame |-> n, pos |-> 1])
         /\ n \notin Accepted => Done(k, p, n + 1)
<1>1. n \in Nat /\ k \in Nat /\ k + 1 \in Nat /\ Accepted \subseteq Nat
  BY Messages DEF Message
<1>2. [frame |-> n, pos |-> 1].frame = n /\ [frame |-> n, pos |-> 1].pos = 1
  OBVIOUS
<1>3. ASSUME n \notin Accepted, NEW j \in Nat, NoneBetween(j, n)
      PROVE  NoneBetween(j, n + 1)
  <2>1. ASSUME NEW m \in Accepted, j <= m, m < n + 1
        PROVE  FALSE
    <3>1. m < n
      BY <1>1, <1>3, <2>1
    <3> QED
      BY <1>3, <2>1, <3>1 DEF NoneBetween
  <2> QED
    BY <2>1 DEF NoneBetween
<1>4. CASE p = 0 /\ NoneBetween(k, n)
  BY <1>1, <1>2, <1>3, <1>4 DEF After, Done, Starts
<1>5. CASE 0 < p /\ p = Size(k) /\ NoneBetween(k + 1, n)
  BY <1>1, <1>2, <1>3, <1>5 DEF After, Done, Starts
<1> QED
  BY <1>4, <1>5 DEF Done

-----------------------------------------------------------------------------
\* The writer

LEMMA SendKeepsStep ==
  ASSUME WriterInStep, Send
  PROVE  /\ WriterInStep'
         /\ \A k \in 1 .. next, p \in Nat : WriterAt(k, p) /\ (0 < p => k < next) => WriterAt(k, p)'
<1>1. next \in Message /\ next' = next + 1 /\ next \in Nat /\ next' - 1 = next
        /\ next' \in 1 .. Len(PayloadSize) + 1
  BY FramingAssumption DEF Send, Message, WriterInStep
<1>2. CASE next \notin Accepted
  <2>1. unwritten' = << >> /\ unwritten = << >>
    BY <1>1, <1>2 DEF Send, Accepted
  <2>2. WriterInStep'
    BY <1>1, <2>1 DEF WriterInStep
  <2> QED
    BY <1>1, <1>2, <2>1, <2>2, SendContinues DEF WriterAt
<1>3. CASE next \in Accepted
  <2>1. unwritten' = Header(next) \o Payload(next) /\ unwritten = << >>
    BY <1>1, <1>3 DEF Send, Accepted
  <2>2. /\ unwritten' \in Seq(Byte) /\ Len(unwritten') = Size(next)
        /\ \A i \in 1 .. Size(next) : unwritten'[i] = [frame |-> next, pos |-> i]
    BY <1>1, <2>1, FrameBytes
  <2>3. Size(next) \in Nat /\ 0 < Size(next)
    BY <1>1, Sizes
  <2>4. WriterInStep'
    <3>1. ASSUME NEW i \in 1 .. Len(unwritten')
          PROVE  unwritten'[i] = [frame |-> next, pos |-> Size(next) - Len(unwritten') + i]
      <4>1. i = Size(next) - Len(unwritten') + i
        BY <2>2, <2>3
      <4> QED
        BY <2>2, <4>1
    <3>2. unwritten' # << >> => next \in Accepted /\ Len(unwritten') <= Size(next)
      BY <1>3, <2>2, <2>3
    <3> QED
      BY <1>1, <2>2, <3>1, <3>2 DEF WriterInStep
  <2>5. unwritten' # << >> /\ unwritten'[1] = [frame |-> next, pos |-> 1]
    BY <2>2, <2>3
  <2> QED
    BY <1>1, <1>3, <2>1, <2>4, <2>5, SendContinues DEF WriterAt
<1> QED
  BY <1>2, <1>3

\* The next byte to be written, and what comes behind it.
LEMMA FirstUnwritten ==
  ASSUME WriterInStep, Write, NEW byte, byte = unwritten[1]
  PROVE  /\ byte = Head(unwritten) /\ byte \in Byte /\ Sent(byte)
         /\ WriterInStep'
         /\ WriterAt(byte.frame, byte.pos)'
<1>1. unwritten # << >> /\ unwritten' = Tail(unwritten) /\ next' = next
  BY DEF Write
<1>2. /\ byte = Head(unwritten) /\ byte \in Byte
      /\ unwritten' \in Seq(Byte) /\ Len(unwritten') = Len(unwritten) - 1
      /\ \A i \in 1 .. Len(unwritten) - 1 : unwritten'[i] = unwritten[i + 1]
      /\ Len(unwritten) \in Nat \ {0}
  BY <1>1, FewerBytes DEF WriterInStep
<1>3. PICK n \in Accepted : n = next - 1
  BY <1>1 DEF WriterInStep
<1>4. n < next /\ n + 1 = next /\ n \in Nat /\ next \in Nat
  BY <1>3, FramingAssumption, Messages DEF WriterInStep
<1>5. PICK size \in Nat : size = Size(n)
  BY Sizes, Messages
<1>6. /\ Len(unwritten) <= size
      /\ \A i \in 1 .. Len(unwritten) :
           unwritten[i] = [frame |-> n, pos |-> size - Len(unwritten) + i]
  BY <1>1, <1>3, <1>5 DEF WriterInStep
<1>7. byte.frame = n /\ byte.pos = size - Len(unwritten) + 1
  <2>1. 1 \in 1 .. Len(unwritten)
    BY <1>2
  <2>2. byte = [frame |-> n, pos |-> size - Len(unwritten) + 1]
    BY <1>6, <2>1
  <2> QED
    BY <2>2
<1>8. byte.pos \in 1 .. size
  BY <1>2, <1>6, <1>7
<1>9. \A i \in 1 .. Len(unwritten') :
        unwritten'[i] = [frame |-> n, pos |-> size - Len(unwritten') + i]
  <2>1. ASSUME NEW i \in 1 .. Len(unwritten')
        PROVE  unwritten'[i] = [frame |-> n, pos |-> size - Len(unwritten') + i]
    <3>1. i + 1 \in 1 .. Len(unwritten) /\ unwritten'[i] = unwritten[i + 1]
      BY <1>2
    <3>2. size - Len(unwritten) + (i + 1) = size - Len(unwritten') + i
      BY <1>2, <3>1
    <3> QED
      BY <1>6, <3>1, <3>2
  <2> QED
    BY <2>1
<1>10. WriterInStep'
  <2>1. Len(unwritten') <= size
    BY <1>2, <1>6
  <2> QED
    BY <1>1, <1>2, <1>3, <1>5, <1>9, <2>1 DEF WriterInStep
<1>11. WriterAt(n, byte.pos)'
  <2>1. CASE unwritten' = << >>
    <3>1. Len(unwritten) = 1
      BY <1>2, <2>1
    <3>2. byte.pos = size
      BY <1>7, <3>1
    <3>3. NoneBetween(n + 1, next)
      BY <1>4, Messages DEF NoneBetween
    <3> QED
      BY <1>1, <1>5, <1>8, <2>1, <3>2, <3>3 DEF WriterAt, Done
  <2>2. CASE unwritten' # << >>
    <3>1. Len(unwritten') \in Nat \ {0} /\ 1 \in 1 .. Len(unwritten')
      BY <1>2, <2>2
    <3>2. byte.pos < size /\ size - Len(unwritten') + 1 = byte.pos + 1
      BY <1>2, <1>6, <1>7, <3>1
    <3>3. unwritten'[1] = [frame |-> n, pos |-> byte.pos + 1]
      BY <1>9, <3>1, <3>2
    <3>4. unwritten'[1].frame = n /\ unwritten'[1].pos = byte.pos + 1
      BY <3>3
    <3> QED
      BY <1>5, <1>8, <2>2, <3>2, <3>4 DEF WriterAt, After
  <2> QED
    BY <2>1, <2>2
<1> QED
  BY <1>2, <1>3, <1>4, <1>5, <1>7, <1>8, <1>10, <1>11 DEF Sent

LEMMA WriteKeepsStep ==
  ASSUME WriterInStep, PipeInStep, Write
  PROVE  /\ WriterInStep' /\ PipeInStep'
         /\ \A k, p : StreamAt(k, p) => StreamAt(k, p)'
<1>0. PICK byte : byte = unwritten[1]
  OBVIOUS
<1>1. /\ byte = Head(unwritten) /\ byte \in Byte /\ Sent(byte)
      /\ WriterInStep'
      /\ WriterAt(byte.frame, byte.pos)'
  BY <1>0, FirstUnwritten
<1>2. unwritten # << >> /\ pipe' = Append(pipe, byte) /\ next' = next
  BY <1>1 DEF Write
<1>3. \A k, p : WriterAt(k, p) => After(k, p, byte)
  BY <1>0, <1>2 DEF WriterAt
<1>4. /\ pipe' \in Seq(Byte) /\ Len(pipe') = Len(pipe) + 1 /\ Len(pipe) \in Nat
      /\ \A i \in 1 .. Len(pipe) : pipe'[i] = pipe[i]
      /\ pipe'[Len(pipe) + 1] = byte
  BY <1>1, <1>2, MoreBytes DEF PipeInStep
<1>5. PipeInStep'
  <2>1. ASSUME NEW i \in 1 .. Len(pipe')
        PROVE  Sent(pipe[i])'
    <3>1. Sent(pipe'[i])
      <4>1. CASE i = Len(pipe) + 1
        BY <1>1, <1>4, <4>1
      <4>2. CASE i # Len(pipe) + 1
        <5>1. i \in 1 .. Len(pipe)
          BY <1>4, <4>2
        <5> QED
          BY <1>4, <5>1 DEF PipeInStep
      <4> QED
        BY <4>1, <4>2
    <3> QED
      BY <1>2, <3>1 DEF Sent
  <2>2. ASSUME NEW i \in 1 .. Len(pipe') - 1
        PROVE  After(pipe[i].frame, pipe[i].pos, pipe[i + 1])'
    <3>1. CASE i = Len(pipe)
      <4>1. pipe # << >> /\ pipe'[i] = pipe[Len(pipe)] /\ pipe'[i + 1] = byte
        BY <1>4, <3>1, <2>2
      <4> QED
        BY <1>3, <4>1 DEF PipeInStep
    <3>2. CASE i # Len(pipe)
      <4>1. i \in 1 .. Len(pipe) - 1 /\ pipe'[i] = pipe[i] /\ pipe'[i + 1] = pipe[i + 1]
        BY <1>4, <2>2, <3>2
      <4> QED
        BY <4>1 DEF PipeInStep
    <3> QED
      BY <3>1, <3>2
  <2>3. WriterAt(pipe[Len(pipe)].frame, pipe[Len(pipe)].pos)'
    <3>1. pipe'[Len(pipe')] = byte
      BY <1>4
    <3> QED
      BY <1>1, <3>1
  <2> QED
    BY <1>4, <2>1, <2>2, <2>3 DEF PipeInStep
<1>6. ASSUME NEW k, NEW p, StreamAt(k, p)
      PROVE  StreamAt(k, p)'
  <2>1. pipe' # << >>
    BY <1>4
  <2>2. CASE pipe = << >>
    BY <1>3, <1>4, <1>6, <2>1, <2>2 DEF StreamAt
  <2>3. CASE pipe # << >>
    <3>1. pipe'[1] = pipe[1]
      BY <1>4, <2>3 DEF PipeInStep
    <3> QED
      BY <1>6, <2>1, <2>3, <3>1 DEF StreamAt
  <2> QED
    BY <2>2, <2>3
<1> QED
  BY <1>1, <1>5, <1>6

-----------------------------------------------------------------------------
\* The reader

\* What is taken off the pipe, and what comes behind it.
LEMMA FirstInPipe ==
  ASSUME PipeInStep, pipe # << >>, pipe' = Tail(pipe), UNCHANGED <<next, unwritten>>,
         NEW byte, byte = pipe[1]
  PROVE  /\ byte = Head(pipe) /\ byte \in Byte /\ Sent(byte)
         /\ PipeInStep'
         /\ StreamAt(byte.frame, byte.pos)'
<1>1. /\ byte = Head(pipe) /\ byte \in Byte
      /\ pipe' \in Seq(Byte) /\ Len(pipe') = Len(pipe) - 1
      /\ \A i \in 1 .. Len(pipe) - 1 : pipe'[i] = pipe[i + 1]
      /\ Len(pipe) \in Nat \ {0}
  BY FewerBytes DEF PipeInStep
<1>2. Sent(byte)
  <2>1. 1 \in 1 .. Len(pipe)
    BY <1>1
  <2> QED
    BY <2>1 DEF PipeInStep
<1>3. ASSUME NEW i \in 1 .. Len(pipe')
      PROVE  Sent(pipe[i])'
  <2>1. i + 1 \in 1 .. Len(pipe) /\ pipe'[i] = pipe[i + 1]
    BY <1>1
  <2>2. Sent(pipe[i + 1])
    BY <2>1 DEF PipeInStep
  <2> QED
    BY <2>1, <2>2 DEF Sent
<1>4. ASSUME NEW i \in 1 .. Len(pipe') - 1
      PROVE  After(pipe[i].frame, pipe[i].pos, pipe[i + 1])'
  <2>1. /\ i + 1 \in 1 .. Len(pipe) - 1
        /\ pipe'[i] = pipe[i + 1] /\ pipe'[i + 1] = pipe[(i + 1) + 1]
    BY <1>1
  <2>2. After(pipe[i + 1].frame, pipe[i + 1].pos, pipe[(i + 1) + 1])
    BY <2>1 DEF PipeInStep
  <2> QED
    BY <2>1, <2>2
<1>5. WriterAt(pipe[Len(pipe)].frame, pipe[Len(pipe)].pos)
  BY DEF PipeInStep
<1>6. ASSUME pipe' # << >>
      PROVE  /\ WriterAt(pipe[Len(pipe)].frame, pipe[Len(pipe)].pos)'
             /\ After(byte.frame, byte.pos, pipe'[1])
  <2>1. Len(pipe') \in Nat \ {0}
    BY <1>1, <1>6
  <2>2. pipe'[Len(pipe')] = pipe[Len(pipe)] /\ pipe'[1] = pipe[1 + 1] /\ 1 \in 1 .. Len(pipe) - 1
    BY <1>1, <2>1
  <2>3. After(pipe[1].frame, pipe[1].pos, pipe[1 + 1])
    BY <2>2 DEF PipeInStep
  <2> QED
    BY <1>5, <2>2, <2>3 DEF WriterAt
<1>7. ASSUME pipe' = << >>
      PROVE  WriterAt(byte.frame, byte.pos)'
  <2>1. \A list : list = << >> => Len(list) = 0
    OBVIOUS
  <2>2. Len(pipe') = 0
    BY <1>7, <2>1
  <2>3. Len(pipe) = 1
    BY <1>1, <2>2
  <2> QED
    BY <1>5, <1>7, <2>3 DEF WriterAt
<1>8. PipeInStep'
  BY <1>1, <1>3, <1>4, <1>6 DEF PipeInStep
<1>9. StreamAt(byte.frame, byte.pos)'
  BY <1>6, <1>7 DEF StreamAt
<1> QED
  BY <1>1, <1>2, <1>8, <1>9

\* Where nothing accepted comes between, what is delivered stays the same.
LEMMA DeliveredFurther ==
  ASSUME NEW k \in Nat, NEW m \in Nat, DeliveredTo(k), k <= m, NoneBetween(k, m)
  PROVE  DeliveredTo(m)
<1>1. Accepted \subseteq Nat
  BY Messages
<1>2. ASSUME NEW i \in 1 .. Len(delivered)
      PROVE  delivered[i] \in Accepted /\ delivered[i] < m
  <2>1. delivered[i] \in Accepted /\ delivered[i] < k
    BY DEF DeliveredTo
  <2>2. delivered[i] \in Nat
    BY <1>1, <2>1
  <2> QED
    BY <2>1, <2>2
<1>3. ASSUME NEW j \in Accepted, j < m
      PROVE  j < k
  BY <1>1, <1>3 DEF NoneBetween
<1> QED
  BY <1>2, <1>3 DEF DeliveredTo

LEMMA DeliverOne ==
  ASSUME TypeOK, NEW k \in Accepted, DeliveredTo(k), delivered' = Append(delivered, k)
  PROVE  DeliveredTo(k + 1)'
<1>1. Accepted \subseteq Nat /\ k \in Nat /\ k \in Message
  BY Messages
<1>2. /\ Len(delivered') = Len(delivered) + 1 /\ Len(delivered) \in Nat
      /\ \A i \in 1 .. Len(delivered) : delivered'[i] = delivered[i]
      /\ delivered'[Len(delivered) + 1] = k
  <2>1. delivered \in Seq(Message \cup {Garbage}) /\ k \in Message \cup {Garbage}
    BY <1>1 DEF TypeOK
  <2> QED
    BY <2>1, MoreBytes
<1>3. ASSUME NEW i \in 1 .. Len(delivered')
      PROVE  \/ i = Len(delivered) + 1 /\ delivered'[i] = k
             \/ i \in 1 .. Len(delivered) /\ delivered'[i] = delivered[i]
                  /\ delivered[i] \in Accepted /\ delivered[i] < k
  <2>1. i = Len(delivered) + 1 \/ i \in 1 .. Len(delivered)
    BY <1>2
  <2> QED
    BY <1>2, <2>1 DEF DeliveredTo
<1>4. ASSUME NEW i \in 1 .. Len(delivered')
      PROVE  delivered'[i] \in Accepted /\ delivered'[i] < k + 1
  <2>1. delivered'[i] \in Accepted /\ (delivered'[i] = k \/ delivered'[i] < k)
    BY <1>3
  <2>2. delivered'[i] \in Nat
    BY <1>1, <2>1
  <2> QED
    BY <1>1, <2>1, <2>2
<1>5. ASSUME NEW i \in 1 .. Len(delivered'), NEW j \in 1 .. Len(delivered'), j < i
      PROVE  delivered'[j] < delivered'[i]
  <2>1. j \in 1 .. Len(delivered)
    BY <1>2, <1>5
  <2>2. delivered'[j] = delivered[j] /\ delivered[j] < k
    BY <1>2, <2>1 DEF DeliveredTo
  <2>3. CASE i = Len(delivered) + 1
    BY <1>2, <2>2, <2>3
  <2>4. CASE i # Len(delivered) + 1
    <3>1. i \in 1 .. Len(delivered) /\ delivered'[i] = delivered[i]
      BY <1>3, <2>4
    <3>2. delivered[j] < delivered[i]
      BY <1>5, <2>1, <3>1 DEF DeliveredTo
    <3> QED
      BY <2>2, <3>1, <3>2
  <2> QED
    BY <2>3, <2>4
<1>6. ASSUME NEW m \in Accepted, m < k + 1
      PROVE  \E i \in 1 .. Len(delivered') : delivered'[i] = m
  <2>1. CASE m = k
    <3>1. Len(delivered) + 1 \in 1 .. Len(delivered')
      BY <1>2
    <3> QED
      BY <1>2, <2>1, <3>1
  <2>2. CASE m # k
    <3>1. m < k
      BY <1>1, <1>6, <2>2
    <3>2. PICK i \in 1 .. Len(delivered) : delivered[i] = m
      BY <3>1 DEF DeliveredTo
    <3>3. i \in 1 .. Len(delivered')
      BY <1>2
    <3> QED
      BY <1>2, <3>2, <3>3
  <2> QED
    BY <2>1, <2>2
<1> QED
  BY <1>4, <1>5, <1>6 DEF DeliveredTo

\* The byte a reader takes is the one it waits for, of a frame that was sent.
LEMMA NextByteRead ==
  ASSUME FType, WriterInStep, NEW k \in 1 .. Len(PayloadSize) + 1, NEW p \in Nat,
         ReaderAt(k, p), Len(taken) < length,
         NEW byte \in Byte, Sent(byte), After(k, p, byte)
  PROVE  /\ byte.frame \in Accepted /\ byte.frame < next
         /\ byte = [frame |-> byte.frame, pos |-> p + 1]
         /\ DeliveredTo(byte.frame)
         /\ 0 < p => byte.frame = k
<1>1. byte.frame \in Accepted /\ byte.frame < next /\ byte.frame \in Nat /\ k \in Nat
  <2>1. byte.frame \in Accepted /\ byte.frame < next
    BY DEF Sent
  <2>2. k \in Nat
    BY FramingAssumption
  <2> QED
    BY <2>1, <2>2, Messages
<1>2. 0 < p => p < Size(k)
  <2>1. CASE stage = "header" /\ p < HeaderSize
    <3>1. ASSUME 0 < p
          PROVE  Size(k) \in Nat /\ HeaderSize <= Size(k)
      BY <3>1, Sizes, Messages DEF ReaderAt
    <3> QED
      BY <2>1, <3>1, FramingAssumption
  <2>2. CASE k \in Accepted /\ length = PayloadSize[k] /\ p = HeaderSize + Len(taken)
    <3>1. PICK n \in Nat : n = PayloadSize[k]
      BY <2>2, Sizes, Messages
    <3>2. Len(taken) \in Nat /\ HeaderSize \in Nat /\ Len(taken) < n
      BY <2>2, <3>1, FramingAssumption DEF FType, TypeOK
    <3> QED
      BY <2>2, <3>1, <3>2 DEF Size
  <2> QED
    BY <2>1, <2>2 DEF ReaderAt
<1>3. CASE p = 0
  <2>1. k <= byte.frame /\ NoneBetween(k, byte.frame) /\ byte.pos = 1
    BY <1>3 DEF After, Starts
  <2>2. DeliveredTo(byte.frame)
    BY <1>1, <2>1, DeliveredFurther DEF ReaderAt
  <2> QED
    BY <1>1, <1>3, <2>1, <2>2 DEF Byte
<1>4. CASE 0 < p
  <2>1. byte.frame = k /\ byte.pos = p + 1
    BY <1>2, <1>4 DEF After
  <2>2. DeliveredTo(k)
    BY DEF ReaderAt
  <2> QED
    BY <1>1, <1>4, <2>1, <2>2 DEF Byte
<1> QED
  BY <1>3, <1>4

\* A frame is delivered at its end, and the reader is at the boundary behind it.
LEMMA FrameEnds ==
  ASSUME FType, WriterInStep', NEW k \in Accepted, k < next', DeliveredTo(k),
         NEW bytes, bytes = Payload(k), EndOfPayload(bytes), StreamAt(k, Size(k))'
  PROVE  ReaderAt(k + 1, 0)' /\ StreamAt(k + 1, 0)'
<1>1. k \in Message /\ k \in Nat /\ Decoded(bytes) = {k} /\ Garbage # k
  BY DecodedPayload, Messages
<1>2. delivered' = Append(delivered, k) /\ NewReceive
  BY <1>1 DEF EndOfPayload
<1>3. DeliveredTo(k + 1)'
  BY <1>2, DeliverOne DEF FType
<1>4. k + 1 <= next'
  BY <1>1, FramingAssumption DEF WriterInStep
<1>5. /\ stage' = "header" /\ length' = HeaderSize /\ 0 < HeaderSize
      /\ Len(taken') = 0 /\ \A i \in 1 .. 0 : FALSE
  BY <1>2, FramingAssumption DEF NewReceive
<1>6. ReaderAt(k + 1, 0)'
  BY <1>3, <1>4, <1>5 DEF ReaderAt
<1>7. StreamAt(k + 1, 0)'
  BY Boundary DEF StreamAt, WriterAt
<1> QED
  BY <1>6, <1>7

\* A header is complete: the length is that of the frame, which was accepted.
LEMMA HeaderEnds ==
  ASSUME FType, NEW k \in Accepted, k < next', k <= next', DeliveredTo(k),
         NEW bytes \in Seq(Byte), Len(bytes) = HeaderSize,
         \A i \in 1 .. HeaderSize : bytes[i] = [frame |-> k, pos |-> i],
         EndOfHeader(bytes)
  PROVE  ReaderAt(k, HeaderSize)'
<1>1. k \in Message /\ DecodedLength(bytes) = {PayloadSize[k]} /\ ValidSize(PayloadSize[k])
  BY DecodedHeader, Messages DEF Accepted
<1>2. stage' = "payload" /\ length' = PayloadSize[k] /\ taken' = << >> /\ delivered' = delivered
  BY <1>1 DEF EndOfHeader
<1>3. PICK n \in Nat : n = PayloadSize[k]
  BY <1>1, Sizes
<1>4. HeaderSize \in Nat /\ Len(taken') = 0 /\ HeaderSize = HeaderSize + Len(taken')
  BY <1>2, FramingAssumption
<1>5. Len(taken') < length' \/ (length' = 0 /\ taken' = << >>)
  BY <1>2, <1>3, <1>4
<1>6. DeliveredTo(k)'
  BY <1>2 DEF DeliveredTo
<1>7. \A i \in 1 .. Len(taken') : taken'[i] = [frame |-> k, pos |-> HeaderSize + i]
  BY <1>4
<1> QED
  BY <1>2, <1>4, <1>5, <1>6, <1>7 DEF ReaderAt

LEMMA TakeKeepsStep ==
  ASSUME FType, WriterInStep, PipeInStep, ReaderInStep, Take
  PROVE  PipeInStep' /\ ReaderInStep'
<1>1. /\ pipe # << >> /\ pipe' = Tail(pipe) /\ Len(taken) < length /\ Reading
      /\ UNCHANGED <<next, unwritten, open, cut>>
  BY DEF Take
<1>2. PICK byte : byte = pipe[1]
  OBVIOUS
<1>3. /\ byte = Head(pipe) /\ byte \in Byte /\ Sent(byte) /\ PipeInStep'
      /\ StreamAt(byte.frame, byte.pos)'
  BY <1>1, <1>2, FirstInPipe
<1>4. PICK j \in 1 .. Len(PayloadSize) + 1, p \in Nat : ReaderAt(j, p) /\ StreamAt(j, p)
  BY DEF ReaderInStep
<1>5. After(j, p, byte)
  BY <1>1, <1>2, <1>4 DEF StreamAt
<1>6. PICK k \in Accepted : k = byte.frame
  BY <1>3 DEF Sent
<1>7. /\ k < next /\ byte = [frame |-> k, pos |-> p + 1] /\ DeliveredTo(k)
      /\ (0 < p => k = j)
  <2>1. /\ byte.frame \in Accepted /\ byte.frame < next
        /\ byte = [frame |-> byte.frame, pos |-> p + 1]
        /\ DeliveredTo(byte.frame)
        /\ 0 < p => byte.frame = j
    BY <1>1, <1>3, <1>4, <1>5, NextByteRead
  <2> QED
    BY <1>6, <2>1
<1>8. StreamAt(k, p + 1)'
  <2>1. byte.pos = p + 1
    BY <1>7
  <2> QED
    BY <1>3, <1>6, <2>1
<1>9. /\ k \in 1 .. Len(PayloadSize) + 1 /\ k + 1 \in 1 .. Len(PayloadSize) + 1
      /\ k \in Message /\ next \in Nat /\ k <= next /\ k \in Nat
  BY <1>7, FramingAssumption, Messages DEF WriterInStep, Message
<1>10. PICK bytes : bytes = Append(taken, byte)
  OBVIOUS
<1>11. /\ bytes \in Seq(Byte) /\ Len(bytes) = Len(taken) + 1 /\ Len(taken) \in Nat
       /\ \A i \in 1 .. Len(taken) : bytes[i] = taken[i]
       /\ bytes[Len(taken) + 1] = byte
  BY <1>3, <1>10, MoreBytes DEF FType, TypeOK
<1>12. IF Len(bytes) < length
         THEN taken' = bytes /\ UNCHANGED <<stage, length, delivered>>
         ELSE IF stage = "header" THEN EndOfHeader(bytes) ELSE EndOfPayload(bytes)
  BY <1>3, <1>10 DEF Take
<1>13. CASE stage = "header"
  <2>1. /\ length = HeaderSize /\ p < HeaderSize /\ Len(taken) = p
        /\ \A i \in 1 .. p : taken[i] = [frame |-> j, pos |-> i]
    BY <1>4, <1>13 DEF ReaderAt
  <2>2. ASSUME NEW i \in 1 .. p + 1
        PROVE  bytes[i] = [frame |-> k, pos |-> i]
    <3>1. CASE i = p + 1
      BY <1>7, <1>11, <2>1, <3>1
    <3>2. CASE i # p + 1
      <4>1. i \in 1 .. p /\ 0 < p
        BY <3>2
      <4> QED
        BY <1>7, <1>11, <2>1, <4>1
    <3> QED
      BY <3>1, <3>2
  <2>3. HeaderSize \in Nat /\ p + 1 <= HeaderSize /\ Len(bytes) = p + 1 /\ p + 1 \in Nat
    BY <1>11, <2>1, FramingAssumption
  <2>4. CASE p + 1 < HeaderSize
    <3>1. taken' = bytes /\ UNCHANGED <<stage, length, delivered>>
      BY <1>12, <2>1, <2>3, <2>4
    <3>2. DeliveredTo(k)'
      BY <1>7, <3>1 DEF DeliveredTo
    <3>3. ReaderAt(k, p + 1)'
      BY <1>1, <1>7, <1>9, <1>13, <2>1, <2>2, <2>3, <2>4, <3>1, <3>2 DEF ReaderAt
    <3> QED
      BY <1>3, <1>8, <1>9, <2>3, <3>3 DEF ReaderInStep
  <2>5. CASE p + 1 = HeaderSize
    <3>1. EndOfHeader(bytes)
      BY <1>12, <1>13, <2>1, <2>3, <2>5
    <3>2. ReaderAt(k, HeaderSize)'
      BY <1>1, <1>7, <1>9, <1>11, <2>2, <2>3, <2>5, <3>1, HeaderEnds
    <3> QED
      BY <1>3, <1>8, <1>9, <2>3, <2>5, <3>2 DEF ReaderInStep
  <2> QED
    BY <2>3, <2>4, <2>5
<1>14. CASE stage = "payload"
  <2>1. /\ j \in Accepted /\ length = PayloadSize[j] /\ p = HeaderSize + Len(taken)
        /\ \A i \in 1 .. Len(taken) : taken[i] = [frame |-> j, pos |-> HeaderSize + i]
    BY <1>4, <1>14 DEF ReaderAt
  <2>2. 0 < p /\ j = k /\ HeaderSize \in Nat /\ p + 1 = HeaderSize + (Len(taken) + 1)
    <3>1. HeaderSize \in Nat /\ 0 < HeaderSize /\ Len(taken) \in Nat
      BY <1>11, FramingAssumption
    <3>2. p = HeaderSize + Len(taken)
      BY <2>1
    <3>3. 0 < p /\ p + 1 = HeaderSize + (Len(taken) + 1)
      BY <3>1, <3>2
    <3> QED
      BY <1>7, <3>1, <3>3
  <2>3. ASSUME NEW i \in 1 .. Len(bytes)
        PROVE  bytes[i] = [frame |-> k, pos |-> HeaderSize + i]
    <3>1. CASE i = Len(taken) + 1
      BY <1>7, <1>11, <2>2, <3>1
    <3>2. CASE i # Len(taken) + 1
      <4>1. i \in 1 .. Len(taken)
        BY <1>11, <3>2
      <4> QED
        BY <1>11, <2>1, <2>2, <4>1
    <3> QED
      BY <3>1, <3>2
  <2>4. length \in Nat
    BY DEF FType, TypeOK
  <2>5. CASE Len(bytes) < length
    <3>1. taken' = bytes /\ UNCHANGED <<stage, length, delivered>>
      BY <1>12, <2>5
    <3>2. DeliveredTo(k)'
      BY <1>7, <3>1 DEF DeliveredTo
    <3>3. p + 1 = HeaderSize + Len(bytes) /\ p + 1 \in Nat
      BY <1>11, <2>2
    <3>4. ReaderAt(k, p + 1)'
      BY <1>1, <1>7, <1>9, <1>14, <2>1, <2>2, <2>3, <2>5, <3>1, <3>2, <3>3 DEF ReaderAt
    <3> QED
      BY <1>3, <1>8, <1>9, <3>3, <3>4 DEF ReaderInStep
  <2>6. CASE ~(Len(bytes) < length)
    <3>1. EndOfPayload(bytes) /\ Len(bytes) = length
      BY <1>1, <1>11, <1>12, <1>14, <2>4, <2>6
    <3>2. bytes = Payload(k)
      BY <1>9, <1>11, <2>1, <2>2, <2>3, <3>1, SamePayload
    <3>3. p + 1 = Size(k)
      BY <1>11, <2>1, <2>2, <3>1 DEF Size
    <3>4. ReaderAt(k + 1, 0)' /\ StreamAt(k + 1, 0)'
      <4>1. WriterInStep' /\ k < next'
        BY <1>1, <1>7 DEF WriterInStep
      <4>2. StreamAt(k, Size(k))'
        BY <1>8, <3>3
      <4> QED
        BY <1>7, <3>1, <3>2, <4>1, <4>2, FrameEnds
    <3> QED
      BY <1>3, <1>9, <3>4 DEF ReaderInStep
  <2> QED
    BY <2>5, <2>6
<1> QED
  BY <1>1, <1>13, <1>14 DEF Reading

LEMMA TakeNothingKeepsStep ==
  ASSUME FType, WriterInStep, PipeInStep, ReaderInStep, TakeNothing
  PROVE  PipeInStep' /\ ReaderInStep'
<1>1. /\ stage = "payload" /\ length = 0 /\ EndOfPayload(<< >>)
      /\ UNCHANGED <<next, unwritten, open, pipe, cut>>
  BY DEF TakeNothing
<1>2. PICK k \in 1 .. Len(PayloadSize) + 1, p \in Nat : ReaderAt(k, p) /\ StreamAt(k, p)
  BY DEF ReaderInStep
<1>3. /\ k \in Accepted /\ PayloadSize[k] = 0 /\ p = HeaderSize + Len(taken)
      /\ Len(taken) < length \/ (length = 0 /\ taken = << >>)
      /\ DeliveredTo(k) /\ (0 < p => k < next)
  BY <1>1, <1>2 DEF ReaderAt
<1>4. HeaderSize \in Nat /\ 0 < HeaderSize /\ Len(taken) \in Nat
  BY FramingAssumption DEF FType, TypeOK
<1>5. Len(taken) = 0
  BY <1>1, <1>3, <1>4
<1>6. p = Size(k) /\ 0 < p
  BY <1>3, <1>4, <1>5 DEF Size
<1>7. << >> = Payload(k)
  <2>1. << >> \in Seq(Byte) /\ Len(<< >>) = 0
    OBVIOUS
  <2>2. \A i \in 1 .. Len(<< >>) : FALSE
    BY <2>1
  <2>3. k \in Message /\ Len(<< >>) = PayloadSize[k]
    BY <1>3, <2>1, Messages
  <2> QED
    BY <2>1, <2>2, <2>3, SamePayload
<1>8. StreamAt(k, Size(k))' /\ WriterInStep' /\ PipeInStep'
  BY <1>1, <1>2, <1>6 DEF StreamAt, WriterAt, WriterInStep, PipeInStep, Sent
<1>9. ReaderAt(k + 1, 0)' /\ StreamAt(k + 1, 0)'
  <2>1. k < next'
    BY <1>1, <1>3, <1>6
  <2> QED
    BY <1>1, <1>3, <1>7, <1>8, <2>1, FrameEnds
<1>10. k + 1 \in 1 .. Len(PayloadSize) + 1
  BY <1>3, FramingAssumption, Messages DEF Message
<1> QED
  BY <1>8, <1>9, <1>10 DEF ReaderInStep

\* What the writer does leaves a reader in step where it is.
LEMMA WritersKeepStep ==
  ASSUME FType, WriterInStep, PipeInStep, Send \/ Write
  PROVE  /\ WriterInStep' /\ PipeInStep'
         /\ ReaderInStep => ReaderInStep'
<1>1. next \in Nat /\ next \in 1 .. Len(PayloadSize) + 1
  BY FramingAssumption DEF WriterInStep
<1>2. UNCHANGED <<stage, taken, length, delivered>> /\ next' \in Nat /\ next <= next'
  BY <1>1 DEF Send, Write
<1>3. ASSUME NEW k \in 1 .. Len(PayloadSize) + 1, NEW p \in Nat, ReaderAt(k, p)
      PROVE  ReaderAt(k, p)'
  <2>1. k <= next' /\ (0 < p => k \in Accepted /\ k < next')
    BY <1>1, <1>2, <1>3, FramingAssumption DEF ReaderAt
  <2> QED
    BY <1>2, <1>3, <2>1 DEF ReaderAt, DeliveredTo
<1>4. CASE Write
  BY <1>3, <1>4, WriteKeepsStep DEF ReaderInStep
<1>5. CASE Send
  <2>1. /\ WriterInStep' /\ UNCHANGED pipe
        /\ \A k \in 1 .. next, p \in Nat : WriterAt(k, p) /\ (0 < p => k < next) => WriterAt(k, p)'
    BY <1>5, SendKeepsStep DEF Send
  <2>2. PipeInStep'
    <3>1. ASSUME NEW i \in 1 .. Len(pipe)
          PROVE  Sent(pipe[i])'
      <4>1. Sent(pipe[i])
        BY DEF PipeInStep
      <4>2. pipe[i].frame \in Nat
        BY <4>1, Messages DEF Sent
      <4> QED
        BY <1>1, <1>2, <2>1, <4>1, <4>2 DEF Sent
    <3>2. ASSUME pipe # << >>
          PROVE  WriterAt(pipe[Len(pipe)].frame, pipe[Len(pipe)].pos)'
      <4>1. PICK last \in Byte : last = pipe[Len(pipe)] /\ Sent(last) /\ WriterAt(last.frame, last.pos)
        BY <3>2 DEF PipeInStep
      <4>2. last.frame \in 1 .. next /\ last.frame < next /\ last.pos \in Nat
        <5>1. last.frame \in Accepted /\ last.frame < next /\ last.pos \in Nat
          BY <4>1 DEF Sent, Byte
        <5>2. last.frame \in Nat \ {0}
          BY <5>1, Messages
        <5> QED
          BY <1>1, <5>1, <5>2
      <4> QED
        BY <2>1, <4>1, <4>2
    <3> QED
      BY <2>1, <3>1, <3>2 DEF PipeInStep
  <2>3. ASSUME NEW k \in 1 .. Len(PayloadSize) + 1, NEW p \in Nat, ReaderAt(k, p), StreamAt(k, p)
        PROVE  StreamAt(k, p)'
    <3>1. k \in 1 .. next /\ (0 < p => k < next)
      <4>1. k <= next /\ (0 < p => k < next)
        BY <2>3 DEF ReaderAt
      <4>2. k \in Nat \ {0}
        BY FramingAssumption
      <4> QED
        BY <1>1, <4>1, <4>2
    <3> QED
      BY <2>1, <2>3, <3>1 DEF StreamAt
  <2> QED
    BY <1>3, <2>1, <2>2, <2>3 DEF ReaderInStep
<1> QED
  BY <1>4, <1>5

-----------------------------------------------------------------------------
\* What being in step is worth

LEMMA InStepIsIntact ==
  ASSUME TypeOK, WriterInStep, ReaderInStep
  PROVE  BoundariesSurvive /\ stage \in {"header", "payload"}
<1>1. PICK k \in 1 .. Len(PayloadSize) + 1, p \in Nat : ReaderAt(k, p)
  BY DEF ReaderInStep
<1>2. DeliveredTo(k) /\ k <= next /\ stage \in {"header", "payload"}
  BY <1>1 DEF ReaderAt
<1>3. k \in Nat /\ next \in Nat /\ DOMAIN delivered = 1 .. Len(delivered) /\ Len(delivered) \in Nat
  BY FramingAssumption DEF WriterInStep, TypeOK
<1>4. ASSUME NEW i \in DOMAIN delivered
      PROVE  /\ delivered[i] \in Accepted /\ delivered[i] < next
             /\ \A j \in 1 .. i - 1 : delivered[j] < delivered[i]
             /\ \A m \in Accepted : m < delivered[i] => \E j \in 1 .. i - 1 : delivered[j] = m
  <2>1. i \in 1 .. Len(delivered) /\ delivered[i] \in Accepted /\ delivered[i] < k
    BY <1>2, <1>3, <1>4 DEF DeliveredTo
  <2>2. delivered[i] \in Nat /\ delivered[i] < next
    <3>1. delivered[i] \in Nat
      BY <2>1, Messages
    <3> QED
      BY <1>2, <1>3, <2>1, <3>1
  <2>3. ASSUME NEW j \in 1 .. i - 1
        PROVE  delivered[j] < delivered[i]
    <3>1. j \in 1 .. Len(delivered) /\ j < i
      BY <1>3, <2>1
    <3> QED
      BY <1>2, <2>1, <3>1 DEF DeliveredTo
  <2>4. ASSUME NEW m \in Accepted, m < delivered[i]
        PROVE  \E j \in 1 .. i - 1 : delivered[j] = m
    <3>1. m \in Nat
      BY Messages
    <3>2. m < k
      BY <1>3, <2>1, <2>2, <2>4, <3>1
    <3>3. PICK j \in 1 .. Len(delivered) : delivered[j] = m
      BY <1>2, <3>2 DEF DeliveredTo
    <3>4. i < j => delivered[i] < m
      BY <1>2, <2>1, <3>3 DEF DeliveredTo
    <3>5. j # i /\ ~(i < j)
      BY <2>2, <2>4, <3>1, <3>3, <3>4
    <3>6. j \in 1 .. i - 1
      BY <1>3, <2>1, <3>5
    <3> QED
      BY <3>3, <3>6
  <2> QED
    BY <2>1, <2>2, <2>3, <2>4
<1> QED
  BY <1>2, <1>4 DEF BoundariesSurvive

\* A reader in step that finds the end of the stream has read it all, but for
\* the frame that was not written to its end.
LEMMA EndIsBehindAll ==
  ASSUME FType, WriterInStep, ReaderInStep, EndOfStream
  PROVE  \A k \in Accepted : k < next =>
           \/ \E i \in DOMAIN delivered : delivered[i] = k
           \/ k = next - 1 /\ unwritten # << >>
<1>1. PICK k \in 1 .. Len(PayloadSize) + 1, p \in Nat : ReaderAt(k, p) /\ WriterAt(k, p)
  BY DEF ReaderInStep, StreamAt, EndOfStream
<1>2. Len(taken) < length /\ Len(taken) \in Nat /\ length \in Nat /\ next \in Nat /\ k \in Nat
        /\ DOMAIN delivered = 1 .. Len(delivered)
  BY FramingAssumption DEF EndOfStream, FType, TypeOK
<1>3. 0 < p => k \in Accepted /\ p < Size(k)
  <2>1. ASSUME 0 < p, stage = "header", p < HeaderSize
        PROVE  k \in Accepted /\ p < Size(k)
    <3>1. k \in Accepted
      BY <1>1, <2>1 DEF ReaderAt
    <3>2. Size(k) \in Nat /\ HeaderSize <= Size(k) /\ HeaderSize \in Nat
      BY <3>1, Sizes, Messages, FramingAssumption
    <3> QED
      BY <2>1, <3>1, <3>2
  <2>2. ASSUME k \in Accepted, length = PayloadSize[k], p = HeaderSize + Len(taken)
        PROVE  p < Size(k)
    <3>1. PICK n \in Nat : n = PayloadSize[k] /\ n = length
      BY <1>2, <2>2
    <3>2. HeaderSize \in Nat /\ Len(taken) < n
      BY <1>2, <3>1, FramingAssumption
    <3>3. HeaderSize + Len(taken) < HeaderSize + n
      BY <1>2, <3>2
    <3> QED
      BY <2>2, <3>1, <3>3 DEF Size
  <2> QED
    BY <1>1, <2>1, <2>2 DEF ReaderAt
<1>4. ASSUME NEW m \in Accepted, m < next, ~(m < k)
      PROVE  m = next - 1 /\ unwritten # << >>
  <2>1. m \in Nat /\ k <= m
    BY <1>2, <1>4, Messages
  <2>2. CASE unwritten = << >>
    <3>1. p = 0 /\ NoneBetween(k, next)
      BY <1>1, <1>3, <2>2 DEF WriterAt, Done
    <3> QED
      BY <1>4, <2>1, <3>1 DEF NoneBetween
  <2>3. CASE unwritten # << >>
    <3>1. After(k, p, unwritten[1])
      BY <1>1, <2>3 DEF WriterAt
    <3>2. unwritten[1].frame = next - 1 /\ next - 1 \in Accepted
      <4>1. 1 \in 1 .. Len(unwritten)
        BY <2>3 DEF WriterInStep
      <4>2. unwritten[1] = [frame |-> next - 1, pos |-> Size(next - 1) - Len(unwritten) + 1]
        BY <4>1 DEF WriterInStep
      <4> QED
        BY <2>3, <4>2 DEF WriterInStep
    <3>3. CASE p = 0
      <4>1. NoneBetween(k, next - 1)
        BY <3>1, <3>2, <3>3 DEF After, Starts
      <4>2. ~(m < next - 1)
        BY <2>1, <4>1 DEF NoneBetween
      <4> QED
        BY <1>2, <1>4, <2>1, <2>3, <4>2
    <3>4. CASE 0 < p
      <4>1. k = next - 1
        BY <1>3, <3>1, <3>2, <3>4 DEF After
      <4> QED
        BY <1>2, <1>4, <2>1, <2>3, <4>1
    <3> QED
      BY <3>3, <3>4
  <2> QED
    BY <2>2, <2>3
<1>5. ASSUME NEW m \in Accepted, m < k
      PROVE  \E i \in DOMAIN delivered : delivered[i] = m
  BY <1>1, <1>2, <1>5 DEF ReaderAt, DeliveredTo
<1> QED
  BY <1>4, <1>5

-----------------------------------------------------------------------------
\* The invariant

LEMMA InitFInv == Init => FInv
<1> SUFFICES ASSUME Init
             PROVE  FInv
  OBVIOUS
<1>1. /\ next = 1 /\ unwritten = << >> /\ pipe = << >> /\ stage = "header" /\ taken = << >>
      /\ length = HeaderSize /\ delivered = << >> /\ Len(PayloadSize) \in Nat /\ 0 < HeaderSize
  BY FramingAssumption DEF Init
<1>2. << >> \in Seq(Byte) /\ Len(<< >>) = 0 /\ \A i \in 1 .. 0 : FALSE
  OBVIOUS
<1>3. 1 \in 1 .. Len(PayloadSize) + 1 /\ 0 \in Nat /\ 1 <= 1
  BY <1>1
<1>4. \A m \in Accepted : ~(m < 1)
  BY Messages
<1>5. WriterInStep
  BY <1>1, <1>2, <1>3 DEF WriterInStep
<1>6. PipeInStep
  <2>1. \A i \in 1 .. Len(pipe) : FALSE
    BY <1>1, <1>2
  <2>2. \A i \in 1 .. Len(pipe) - 1 : FALSE
    BY <1>1, <1>2
  <2> QED
    BY <1>1, <1>2, <2>1, <2>2 DEF PipeInStep
<1>7. ReaderInStep
  <2>1. DeliveredTo(1)
    BY <1>1, <1>2, <1>4 DEF DeliveredTo
  <2>2. ReaderAt(1, 0)
    BY <1>1, <1>2, <1>3, <2>1 DEF ReaderAt
  <2>3. StreamAt(1, 0)
    BY <1>1, <1>4 DEF StreamAt, WriterAt, Done, NoneBetween
  <2> QED
    BY <1>3, <2>2, <2>3 DEF ReaderInStep
<1> QED
  BY <1>1, <1>5, <1>6, <1>7 DEF FInv, NothingLostAtEnd

\* A reader that is not cut off stays in step, and in step it does not fail.
LEMMA ReadersKeepStep ==
  ASSUME FType, FInv, Take \/ TakeNothing
  PROVE  FInv'
<1>1. /\ UNCHANGED <<next, unwritten, open, cut>> /\ Reading /\ WriterInStep /\ PipeInStep
  BY DEF Take, TakeNothing, Reading, FInv
<1>2. WriterInStep'
  BY <1>1 DEF WriterInStep
<1>3. PipeInStep'
  <2>1. CASE Take
    BY <1>1, <2>1, FirstInPipe DEF Take
  <2>2. CASE TakeNothing
    BY <1>1, <2>2 DEF TakeNothing, PipeInStep, Sent, WriterAt
  <2> QED
    BY <2>1, <2>2
<1>4. ~cut => ReaderInStep' /\ stage' \in {"header", "payload"}
  <2>1. ASSUME ~cut
        PROVE  ReaderInStep'
    BY <1>1, <2>1, TakeKeepsStep, TakeNothingKeepsStep DEF FInv
  <2>2. ReaderInStep' => stage' \in {"header", "payload"}
    BY DEF ReaderInStep, ReaderAt
  <2> QED
    BY <2>1, <2>2
<1> QED
  BY <1>1, <1>2, <1>3, <1>4 DEF FInv, NothingLostAtEnd

LEMMA NextKeepsFInv == FType /\ FInv /\ [Next]_vars => FInv'
<1> SUFFICES ASSUME FType, FInv, [Next]_vars
             PROVE  FInv'
  OBVIOUS
<1>1. WriterInStep /\ PipeInStep /\ (~cut /\ Reading => ReaderInStep)
  BY DEF FInv
<1>2. ASSUME UNCHANGED <<next, unwritten, pipe>>
      PROVE  /\ WriterInStep' /\ PipeInStep'
             /\ \A k, p : StreamAt(k, p)' <=> StreamAt(k, p)
  BY <1>1, <1>2 DEF WriterInStep, PipeInStep, Sent, WriterAt, StreamAt
<1>3. ASSUME UNCHANGED <<next, stage, taken, length, delivered>>
      PROVE  \A k, p : ReaderAt(k, p)' <=> ReaderAt(k, p)
  BY <1>3 DEF ReaderAt, DeliveredTo
<1>4. CASE Send \/ Write
  <2>1. WriterInStep' /\ PipeInStep' /\ (ReaderInStep => ReaderInStep')
    BY <1>1, <1>4, WritersKeepStep
  <2>2. open /\ UNCHANGED <<open, stage, delivered, cut>>
    BY <1>4 DEF Send, Write
  <2> QED
    BY <2>1, <2>2 DEF FInv, Reading, NothingLostAtEnd
<1>5. CASE Close
  <2>1. open /\ UNCHANGED <<next, unwritten, pipe, stage, taken, length, delivered, cut>>
    BY <1>5 DEF Close
  <2>2. ReaderInStep => ReaderInStep'
    BY <1>2, <1>3, <2>1 DEF ReaderInStep
  <2> QED
    BY <1>2, <2>1, <2>2 DEF FInv, Reading, NothingLostAtEnd
<1>6. CASE EndOfStream
  <2>1. /\ Reading /\ ~open /\ stage' = "disconnected"
        /\ UNCHANGED <<next, unwritten, open, pipe, taken, length, delivered, cut>>
    BY <1>6 DEF EndOfStream
  <2>2. ASSUME ~cut
        PROVE  /\ BoundariesSurvive
               /\ \A k \in Accepted : k < next =>
                    \/ \E i \in DOMAIN delivered : delivered[i] = k
                    \/ k = next - 1 /\ unwritten # << >>
    BY <1>1, <1>6, <2>1, <2>2, InStepIsIntact, EndIsBehindAll DEF FType
  <2>3. ~cut => BoundariesSurvive'
    BY <2>1, <2>2 DEF BoundariesSurvive
  <2>4. NothingLostAtEnd'
    BY <2>1, <2>2 DEF NothingLostAtEnd
  <2> QED
    BY <1>2, <2>1, <2>3, <2>4 DEF FInv, Reading
<1>7. CASE CancelReceive
  <2>1. /\ Reading /\ stage' = "header" /\ taken' = << >> /\ length' = HeaderSize
        /\ UNCHANGED <<next, unwritten, open, pipe, delivered>>
        /\ ~cut' => ~cut /\ stage = "header" /\ taken = << >>
    BY <1>7 DEF CancelReceive, NewReceive, Reading
  <2>2. ASSUME ~cut'
        PROVE  ReaderInStep'
    <3>1. stage = "header" /\ UNCHANGED <<next, stage, taken, length, delivered>> /\ ReaderInStep
      BY <1>1, <2>1, <2>2 DEF FType, Reading
    <3> QED
      BY <1>2, <1>3, <2>1, <3>1 DEF ReaderInStep
  <2> QED
    BY <1>2, <2>1, <2>2 DEF FInv, NothingLostAtEnd
<1>8. CASE UNCHANGED vars
  <2>1. UNCHANGED <<next, unwritten, open, pipe, stage, taken, length, delivered, cut>>
    BY <1>8 DEF vars
  <2>2. ReaderInStep => ReaderInStep'
    BY <1>2, <1>3, <2>1 DEF ReaderInStep
  <2> QED
    BY <1>2, <2>1, <2>2 DEF FInv, Reading, NothingLostAtEnd, BoundariesSurvive
<1> QED
  BY <1>4, <1>5, <1>6, <1>7, <1>8, ReadersKeepStep DEF Next

LEMMA AlwaysFInv == Spec => [](FType /\ FInv)
<1> QED
  BY InitFType, NextKeepsType, InitFInv, NextKeepsFInv, PTL DEF Spec

\* For any number and sizes of messages and any size of the pipe, and however a
\* read and a write are split into pieces: unless a receive() was dropped in
\* the middle of a frame, what is received is what was sent, none skipped,
\* repeated or made of two, and the stream never fails to decode.
THEOREM BoundariesKept == Spec => []IntactUnlessCut
<1>1. FType /\ FInv => IntactUnlessCut
  <2> SUFFICES ASSUME FType, FInv, ~cut
               PROVE  BoundariesSurvive
    BY DEF IntactUnlessCut
  <2>1. CASE Reading
    BY <2>1, InStepIsIntact DEF FType, FInv
  <2>2. CASE ~Reading
    BY <2>2 DEF FType, TypeOK, FInv, Reading
  <2> QED
    BY <2>1, <2>2
<1> QED
  BY <1>1, AlwaysFInv, PTL

\* And when it reports the end of the stream, the other end is gone and every
\* frame that was written to its end has been delivered.
THEOREM EndLosesNothing == Spec => []NothingLostAtEnd
<1>1. FInv => NothingLostAtEnd
  BY DEF FInv
<1> QED
  BY <1>1, AlwaysFInv, PTL
=============================================================================
