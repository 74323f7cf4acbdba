------------------------- MODULE ClientRuntimeProofs -------------------------
(***************************************************************************)
(* ClientRuntime, for any number of sessions, messages and any length of   *)
(* the queue: what an application answers, and in which mode it reports    *)
(* itself, follows from what SAM told it on the connection of the moment.  *)
(***************************************************************************)
EXTENDS ClientRuntime, TLAPS

\* The messages q are among all messages t, next to one another, and n of t
\* come after them.
Within(q, t, n) ==
  /\ n + Len(q) <= Len(t)
  /\ \A i \in 1 .. Len(q) : q[i] = t[(Len(t) - n - Len(q)) + i]

\* Each of the answers a is to one of the messages t, in their order.
AnswersTo(a, t) ==
  \A i \in 1 .. Len(a) :
    /\ a[i].to \in 1 .. Len(t)
    /\ IsRequest(t[a[i].to])
    /\ Answers(a[i].answer, t[a[i].to])
    /\ \A j \in 1 .. i - 1 : a[j].to < a[i].to

\* Of the messages t the answers a are to the first n, to every request there.
UpTo(a, t, n) ==
  /\ \A i \in 1 .. Len(a) : a[i].to <= n
  /\ \A k \in 1 .. n : IsRequest(t[k]) => \E i \in 1 .. Len(a) : a[i].to = k

Orders(t, m) ==
  \E i \in 1 .. Len(t) : t[i].type \in {"RegisterAccepted", "CommitMode"} /\ t[i].mode = m

-----------------------------------------------------------------------------
\* The invariant

\* The messages that the session in progress got.
Got ==
  Len(told[session]) - (Len(wire[session]) + Len(held[session]) + Len(inbound))

StageOK ==
  /\ stage # "idle" => session \in Session
  /\ stage # "running" => inbound = << >>

\* Before its registration is answered a session has read nothing, before it
\* begins nothing was said.
BeforeSession ==
  /\ \A s \in Session :
       s > session => /\ wire[s] = << >> /\ told[s] = << >> /\ sent[s] = << >>
                      /\ reader[s] = "none"
  /\ stage = "registering" =>
       reader[session] = "none" /\ wire[session] = told[session] /\ sent[session] = << >>

\* On a connection nothing overtakes anything: what is in the socket is the end
\* of what was sent; before that comes what the reader of the session holds,
\* and before that what is in its queue.
InPlace ==
  /\ \A s \in Session : Within(wire[s], told[s], 0)
  /\ stage = "running" =>
       /\ Within(held[session], told[session], Len(wire[session]))
       /\ Within(inbound, told[session], Len(wire[session]) + Len(held[session]))

InOrder ==
  /\ \A s \in Session : AnswersTo(sent[s], told[s])
  /\ stage = "running" => UpTo(sent[session], told[session], Got)

Reported == stage = "running" => Orders(told[session], mode)

RInv == TypeOK /\ StageOK /\ BeforeSession /\ InPlace /\ InOrder /\ Reported

-----------------------------------------------------------------------------
\* Messages among others

LEMMA WithinMore ==
  ASSUME NEW S, NEW q \in Seq(S), NEW t \in Seq(S), NEW m \in Seq(S), NEW n \in Nat,
         Within(q, t, n)
  PROVE  Within(q, t \o m, n + Len(m))
<1>1. Len(t \o m) = Len(t) + Len(m) /\ Len(m) \in Nat /\ Len(t) \in Nat /\ Len(q) \in Nat
  OBVIOUS
<1>2. n + Len(m) + Len(q) <= Len(t \o m)
  BY <1>1 DEF Within
<1>3. ASSUME NEW i \in 1 .. Len(q)
      PROVE  q[i] = (t \o m)[(Len(t \o m) - (n + Len(m)) - Len(q)) + i]
  <2>0. n + Len(q) <= Len(t) /\ i \in Nat /\ 1 <= i /\ i <= Len(q)
    BY <1>1 DEF Within
  <2>9. (Len(t) - n - Len(q)) + i \in Nat
    BY <1>1, <2>0
  <2>1. PICK k \in Nat : k = (Len(t) - n - Len(q)) + i
    BY <2>9
  <2>2. k \in 1 .. Len(t)
    BY <2>1, <1>1 DEF Within
  <2>3. (Len(t \o m) - (n + Len(m)) - Len(q)) + i = k
    BY <2>1, <1>1
  <2>4. (t \o m)[k] = t[k]
    BY <2>2
  <2>5. q[i] = t[k]
    BY <2>1 DEF Within
  <2> QED
    BY <2>3, <2>4, <2>5
<1> QED
  BY <1>2, <1>3 DEF Within

LEMMA WithinBoth ==
  ASSUME NEW S, NEW q \in Seq(S), NEW t \in Seq(S), NEW m \in Seq(S), Within(q, t, 0)
  PROVE  Within(q \o m, t \o m, 0)
<1>1. /\ Len(t \o m) = Len(t) + Len(m) /\ Len(q \o m) = Len(q) + Len(m)
      /\ Len(m) \in Nat /\ Len(t) \in Nat /\ Len(q) \in Nat
  OBVIOUS
<1>2. Len(q \o m) <= Len(t \o m)
  BY <1>1 DEF Within
<1>3. ASSUME NEW i \in 1 .. Len(q \o m)
      PROVE  (q \o m)[i] = (t \o m)[(Len(t \o m) - 0 - Len(q \o m)) + i]
  <2>0. Len(q) <= Len(t) /\ i \in Nat /\ 1 <= i /\ i <= Len(q \o m)
    BY <1>1 DEF Within
  <2>9. (Len(t) - Len(q)) + i \in Nat
    BY <1>1, <2>0
  <2>1. PICK k \in Nat : k = (Len(t) - Len(q)) + i
    BY <2>9
  <2>2. (Len(t \o m) - 0 - Len(q \o m)) + i = k /\ k \in 1 .. Len(t \o m)
    BY <2>1, <1>1, <1>2 DEF Within
  <2>3. CASE i <= Len(q)
    <3>1. k <= Len(t) /\ k \in 1 .. Len(t) /\ i \in 1 .. Len(q)
      BY <2>3, <2>1, <1>1, <2>2
    <3>2. (t \o m)[k] = t[k] /\ (q \o m)[i] = q[i]
      BY <3>1
    <3>3. q[i] = t[(Len(t) - 0 - Len(q)) + i]
      BY <3>1 DEF Within
    <3>4. (Len(t) - 0 - Len(q)) + i = k
      BY <2>1, <1>1
    <3> QED
      BY <3>2, <3>3, <3>4, <2>2
  <2>4. CASE i > Len(q)
    <3>9. i - Len(q) \in Nat
      BY <2>4, <2>0, <1>1
    <3>1. PICK j \in Nat : j = i - Len(q)
      BY <3>9
    <3>2. k - Len(t) = j /\ k > Len(t) /\ j \in 1 .. Len(m)
      BY <3>1, <2>1, <1>1, <2>4
    <3>3. (t \o m)[k] = m[k - Len(t)]
      BY <3>2, <2>2, <1>1
    <3>4. (q \o m)[i] = m[i - Len(q)]
      BY <2>4, <1>1
    <3> QED
      BY <3>1, <3>2, <3>3, <3>4, <2>2
  <2> QED
    BY <2>3, <2>4, <2>0, <1>1
<1> QED
  BY <1>2, <1>3, <1>1 DEF Within

LEMMA WithinTail ==
  ASSUME NEW S, NEW q \in Seq(S), NEW t \in Seq(S), NEW n \in Nat, Within(q, t, n), q # << >>
  PROVE  /\ Within(Tail(q), t, n)
         /\ Within(<<Head(q)>>, t, n + Len(Tail(q)))
         /\ Len(t) - n - Len(q) \in Nat
         /\ Len(t) - n - Len(q) + 1 \in 1 .. Len(t)
         /\ Head(q) = t[(Len(t) - n - Len(q)) + 1]
<1>1. /\ Len(q) \in Nat /\ Len(q) > 0 /\ Len(t) \in Nat
      /\ Len(Tail(q)) = Len(q) - 1 /\ Len(Tail(q)) \in Nat
  OBVIOUS
<1>2. \A i \in 1 .. Len(Tail(q)) : Tail(q)[i] = q[i + 1]
  OBVIOUS
<1>3. Head(q) = q[1] /\ 1 \in 1 .. Len(q)
  BY <1>1
<1>4. n + Len(q) <= Len(t) /\ \A i \in 1 .. Len(q) : q[i] = t[(Len(t) - n - Len(q)) + i]
  BY DEF Within
<1>5. Head(q) = t[(Len(t) - n - Len(q)) + 1]
  BY <1>3, <1>4
<1>6. Len(t) - n - Len(q) \in Nat /\ Len(t) - n - Len(q) + 1 \in 1 .. Len(t)
  BY <1>4, <1>1
<1>7. Within(Tail(q), t, n)
  <2>1. ASSUME NEW i \in 1 .. Len(Tail(q))
        PROVE  Tail(q)[i] = t[(Len(t) - n - Len(Tail(q))) + i]
    <3>1. i + 1 \in 1 .. Len(q)
      BY <1>1
    <3>2. q[i + 1] = t[(Len(t) - n - Len(q)) + (i + 1)]
      BY <3>1, <1>4
    <3>3. (Len(t) - n - Len(q)) + (i + 1) = (Len(t) - n - Len(Tail(q))) + i
      BY <1>1
    <3> QED
      BY <3>2, <3>3, <1>2
  <2>2. n + Len(Tail(q)) <= Len(t)
    BY <1>1, <1>4
  <2> QED
    BY <2>1, <2>2 DEF Within
<1>8. Within(<<Head(q)>>, t, n + Len(Tail(q)))
  <2>1. Len(<<Head(q)>>) = 1
    OBVIOUS
  <2>2. n + Len(Tail(q)) + 1 <= Len(t)
    BY <1>1, <1>4
  <2>3. ASSUME NEW i \in 1 .. 1
        PROVE  <<Head(q)>>[i] = t[(Len(t) - (n + Len(Tail(q))) - 1) + i]
    <3>1. i = 1
      OBVIOUS
    <3>2. (Len(t) - (n + Len(Tail(q))) - 1) + 1 = (Len(t) - n - Len(q)) + 1
      BY <1>1
    <3> QED
      BY <3>1, <3>2, <1>5
  <2> QED
    BY <2>1, <2>2, <2>3 DEF Within
<1> QED
  BY <1>5, <1>6, <1>7, <1>8

LEMMA WithinJoined ==
  ASSUME NEW S, NEW p \in Seq(S), NEW q \in Seq(S), NEW t \in Seq(S), NEW n \in Nat,
         Within(q, t, n), Within(p, t, n + Len(q))
  PROVE  Within(p \o q, t, n)
<1>1. /\ Len(p \o q) = Len(p) + Len(q)
      /\ Len(p) \in Nat /\ Len(t) \in Nat /\ Len(q) \in Nat
  OBVIOUS
<1>2. n + Len(p \o q) <= Len(t)
  BY <1>1 DEF Within
<1>3. ASSUME NEW i \in 1 .. Len(p \o q)
      PROVE  (p \o q)[i] = t[(Len(t) - n - Len(p \o q)) + i]
  <2>1. CASE i <= Len(p)
    <3>1. i \in 1 .. Len(p)
      BY <2>1, <1>1
    <3>2. (p \o q)[i] = p[i]
      BY <3>1
    <3>3. p[i] = t[(Len(t) - (n + Len(q)) - Len(p)) + i]
      BY <3>1 DEF Within
    <3>4. (Len(t) - (n + Len(q)) - Len(p)) + i = (Len(t) - n - Len(p \o q)) + i
      BY <1>1
    <3> QED
      BY <3>2, <3>3, <3>4
  <2>2. CASE i > Len(p)
    <3>1. PICK j \in Nat : j = i - Len(p)
      BY <2>2, <1>1
    <3>2. j \in 1 .. Len(q)
      BY <3>1, <2>2, <1>1
    <3>3. (p \o q)[i] = q[j]
      BY <3>1, <2>2, <1>1
    <3>4. q[j] = t[(Len(t) - n - Len(q)) + j]
      BY <3>2 DEF Within
    <3>5. (Len(t) - n - Len(q)) + j = (Len(t) - n - Len(p \o q)) + i
      BY <3>1, <1>1
    <3> QED
      BY <3>3, <3>4, <3>5
  <2> QED
    BY <2>1, <2>2, <1>1
<1> QED
  BY <1>2, <1>3 DEF Within

-----------------------------------------------------------------------------
\* Answers

Reply == [to : Nat \ {0}, answer : Outgoing]

LEMMA AnswersToMore ==
  ASSUME NEW a \in Seq(Reply), NEW t \in Seq(Incoming), NEW m \in Seq(Incoming),
         AnswersTo(a, t)
  PROVE  AnswersTo(a, t \o m)
<1>1. Len(t \o m) = Len(t) + Len(m) /\ Len(t) \in Nat /\ Len(m) \in Nat
  OBVIOUS
<1>2. \A k \in 1 .. Len(t) : k \in 1 .. Len(t \o m) /\ (t \o m)[k] = t[k]
  BY <1>1
<1> QED
  BY <1>2 DEF AnswersTo

LEMMA UpToMore ==
  ASSUME NEW a, NEW t \in Seq(Incoming), NEW m \in Seq(Incoming), NEW n \in Nat,
         n <= Len(t), UpTo(a, t, n)
  PROVE  UpTo(a, t \o m, n)
<1>1. Len(t) \in Nat
  OBVIOUS
<1>2. \A k \in 1 .. n : (t \o m)[k] = t[k]
  BY <1>1
<1> QED
  BY <1>2 DEF UpTo

LEMMA OrdersMore ==
  ASSUME NEW t \in Seq(Incoming), NEW m \in Seq(Incoming), NEW x, Orders(t, x)
  PROVE  Orders(t \o m, x)
<1>1. Len(t \o m) = Len(t) + Len(m) /\ Len(t) \in Nat /\ Len(m) \in Nat
  OBVIOUS
<1>2. \A k \in 1 .. Len(t) : k \in 1 .. Len(t \o m) /\ (t \o m)[k] = t[k]
  BY <1>1
<1> QED
  BY <1>2 DEF Orders

\* The next message is answered ...
LEMMA OneMoreAnswer ==
  ASSUME NEW a \in Seq(Reply), NEW t \in Seq(Incoming), NEW n \in Nat, NEW x \in Outgoing,
         AnswersTo(a, t), UpTo(a, t, n), n + 1 \in 1 .. Len(t),
         IsRequest(t[n + 1]), Answers(x, t[n + 1])
  PROVE  /\ AnswersTo(Append(a, [to |-> n + 1, answer |-> x]), t)
         /\ UpTo(Append(a, [to |-> n + 1, answer |-> x]), t, n + 1)
         /\ Append(a, [to |-> n + 1, answer |-> x]) \in Seq(Reply)
<1>0. PICK r : r = [to |-> n + 1, answer |-> x]
  OBVIOUS
<1>1. r.to = n + 1 /\ r.answer = x /\ r \in Reply
  BY <1>0 DEF Reply
<1>2. PICK b : b = Append(a, r)
  OBVIOUS
<1>3. /\ b \in Seq(Reply) /\ Len(b) = Len(a) + 1 /\ Len(a) \in Nat
      /\ b[Len(a) + 1] = r /\ \A i \in 1 .. Len(a) : b[i] = a[i]
  BY <1>1, <1>2
<1>4. \A i \in 1 .. Len(b) : i \in 1 .. Len(a) \/ i = Len(a) + 1
  BY <1>3
<1>5. \A i \in 1 .. Len(a) : a[i].to \in Nat /\ a[i].to <= n
  <2> TAKE i \in 1 .. Len(a)
  <2>1. a[i] \in Reply
    OBVIOUS
  <2> QED
    BY <2>1 DEF UpTo, Reply
<1>6. AnswersTo(b, t)
  <2> SUFFICES ASSUME NEW i \in 1 .. Len(b)
               PROVE  /\ b[i].to \in 1 .. Len(t)
                      /\ IsRequest(t[b[i].to])
                      /\ Answers(b[i].answer, t[b[i].to])
                      /\ \A j \in 1 .. i - 1 : b[j].to < b[i].to
    BY DEF AnswersTo
  <2>1. CASE i \in 1 .. Len(a)
    <3>1. \A j \in 1 .. i - 1 : b[j] = a[j]
      BY <2>1, <1>3
    <3> QED
      BY <2>1, <1>3, <3>1 DEF AnswersTo
  <2>2. CASE i = Len(a) + 1
    <3>1. \A j \in 1 .. i - 1 : b[j] = a[j] /\ a[j].to <= n /\ a[j].to \in Nat
      BY <2>2, <1>3, <1>5
    <3>2. \A j \in 1 .. i - 1 : b[j].to < n + 1
      BY <3>1
    <3>3. b[i].to = n + 1 /\ b[i].answer = x
      BY <2>2, <1>3, <1>1
    <3> QED
      BY <3>2, <3>3
  <2> QED
    BY <2>1, <2>2, <1>4
<1>7. UpTo(b, t, n + 1)
  <2>1. ASSUME NEW i \in 1 .. Len(b)
        PROVE  b[i].to <= n + 1
    <3>1. CASE i \in 1 .. Len(a)
      BY <3>1, <1>3, <1>5
    <3>2. CASE i = Len(a) + 1
      BY <3>2, <1>3, <1>1
    <3> QED
      BY <3>1, <3>2, <1>4
  <2>2. ASSUME NEW k \in 1 .. n + 1, IsRequest(t[k])
        PROVE  \E i \in 1 .. Len(b) : b[i].to = k
    <3>1. CASE k \in 1 .. n
      <4>1. PICK i \in 1 .. Len(a) : a[i].to = k
        BY <3>1, <2>2 DEF UpTo
      <4>2. i \in 1 .. Len(b) /\ b[i] = a[i]
        BY <1>3
      <4> QED
        BY <4>1, <4>2
    <3>2. CASE k = n + 1
      <4>1. Len(a) + 1 \in 1 .. Len(b) /\ b[Len(a) + 1].to = k
        BY <1>3, <1>1, <3>2
      <4> QED
        BY <4>1
    <3> QED
      BY <3>1, <3>2
  <2> QED
    BY <2>1, <2>2 DEF UpTo
<1> QED
  BY <1>0, <1>2, <1>3, <1>6, <1>7

\* ... or asks for no answer.
LEMMA NothingToAnswer ==
  ASSUME NEW a \in Seq(Reply), NEW t, NEW n \in Nat, UpTo(a, t, n), ~IsRequest(t[n + 1])
  PROVE  UpTo(a, t, n + 1)
<1>1. \A i \in 1 .. Len(a) : a[i].to \in Nat
  <2> TAKE i \in 1 .. Len(a)
  <2>1. a[i] \in Reply
    OBVIOUS
  <2> QED
    BY <2>1 DEF Reply
<1>2. \A k \in 1 .. n + 1 : k \in 1 .. n \/ k = n + 1
  OBVIOUS
<1> QED
  BY <1>1, <1>2 DEF UpTo

-----------------------------------------------------------------------------
\* What the types say

LEMMA Fields ==
  ASSUME NEW x \in Incoming
  PROVE  /\ x.type \in {"RegisterAccepted", "StateBroadcast", "PrepareMode", "CommitMode",
                        "AbortMode", "RegisterRejected", "Closed"}
         /\ x.type \in {"RegisterAccepted", "PrepareMode", "CommitMode"} => x.mode \in SystemMode
         /\ x.type \in {"PrepareMode", "CommitMode"} => x.id \in TransitionId
<1>1. CASE x \in [type : {"RegisterAccepted", "StateBroadcast"}, mode : SystemMode, health : HealthState]
  BY <1>1
<1>2. CASE x \in [type : {"PrepareMode", "CommitMode"}, id : TransitionId, mode : SystemMode]
  BY <1>2
<1>3. CASE x \in [type : {"AbortMode"}, id : TransitionId]
  BY <1>3
<1>4. CASE x = Refused
  BY <1>4 DEF Refused
<1>5. CASE x = Closed
  BY <1>5 DEF Closed
<1> QED
  BY <1>1, <1>2, <1>3, <1>4, <1>5 DEF Incoming, SamToApplication

LEMMA Types ==
  ASSUME TypeOK, NEW s \in Session
  PROVE  /\ wire[s] \in Seq(Incoming) /\ Len(wire[s]) \in Nat
         /\ told[s] \in Seq(Incoming) /\ Len(told[s]) \in Nat
         /\ held[s] \in Seq(Incoming) /\ Len(held[s]) \in Nat
         /\ inbound \in Seq(Incoming) /\ Len(inbound) \in Nat
         /\ sent[s] \in Seq(Reply)
<1>1. /\ wire[s] \in Seq(Incoming) /\ told[s] \in Seq(Incoming)
      /\ held[s] \in Seq(Incoming) /\ inbound \in Seq(Incoming) /\ sent[s] \in Seq(Reply)
  BY DEF TypeOK, Reply
<1> QED
  BY <1>1

LEMMA Positions ==
  ASSUME RInv, stage = "running"
  PROVE  /\ session \in Session
         /\ Got \in Nat /\ Got <= Len(told[session])
         /\ Taken(session) = Got
         /\ Len(Coming(session)) = Len(wire[session]) + Len(held[session]) + Len(inbound)
<1>1. session \in Session
  BY DEF RInv, StageOK
<1>2. TypeOK
  BY DEF RInv
<1>3. PICK w \in Seq(Incoming) : w = wire[session]
  BY <1>1, <1>2, Types
<1>4. PICK h \in Seq(Incoming) : h = held[session]
  BY <1>1, <1>2, Types
<1>5. PICK q \in Seq(Incoming) : q = inbound
  BY <1>1, <1>2, Types
<1>6. Len(q \o h \o w) = Len(w) + Len(h) + Len(q) /\ Len(w) \in Nat /\ Len(h) \in Nat /\ Len(q) \in Nat
  OBVIOUS
<1>7. Within(q, told[session], Len(w) + Len(h))
  BY <1>3, <1>4, <1>5 DEF RInv, InPlace
<1>8. Len(w) + Len(h) + Len(q) <= Len(told[session]) /\ Len(told[session]) \in Nat
  BY <1>7, <1>1, <1>2, Types DEF Within
<1>9. Len(Coming(session)) = Len(w) + Len(h) + Len(q)
  BY <1>3, <1>4, <1>5, <1>6 DEF Coming
<1>10. Got = Len(told[session]) - (Len(w) + Len(h) + Len(q))
  BY <1>3, <1>4, <1>5 DEF Got
<1>11. Taken(session) = Got
  BY <1>9, <1>10 DEF Taken
<1>12. Got \in Nat /\ Got <= Len(told[session])
  BY <1>6, <1>8, <1>10
<1> QED
  BY <1>1, <1>3, <1>4, <1>5, <1>9, <1>11, <1>12

LEMMA WithinEmpty ==
  ASSUME NEW t \in Seq(Incoming), NEW n \in Nat, n <= Len(t)
  PROVE  Within(<< >>, t, n)
<1>1. Len(<< >>) = 0
  OBVIOUS
<1> QED
  BY <1>1 DEF Within

-----------------------------------------------------------------------------
\* Init, and SAM's steps

LEMMA InitRInv == Init => RInv
<1> SUFFICES ASSUME Init PROVE RInv
  OBVIOUS
<1>0. << >> \in Seq(Incoming) /\ << >> \in Seq(Reply) /\ Len(<< >>) = 0
  OBVIOUS
<1>1. TypeOK
  BY <1>0, ClientAssumption DEF Init, TypeOK, Session, SystemMode, Reply
<1>2. StageOK /\ BeforeSession /\ Reported
  BY DEF Init, StageOK, BeforeSession, Reported, Session
<1>3. InPlace
  <2>1. Within(<< >>, << >>, 0)
    BY <1>0 DEF Within
  <2> QED
    BY <2>1 DEF Init, InPlace
<1>4. InOrder
  <2>1. AnswersTo(<< >>, << >>)
    BY <1>0 DEF AnswersTo
  <2> QED
    BY <2>1 DEF Init, InOrder
<1> QED
  BY <1>1, <1>2, <1>3, <1>4 DEF RInv

LEMMA Told ==
  ASSUME NEW s \in Session, NEW m \in Seq(Incoming), RInv,
         sam[s] # "none",
         sam' \in [Session -> {"none", "asked", "accepted", "closed"}],
         \A r \in Session : sam'[r] = "none" <=> sam[r] = "none",
         Tell(s, m)
  PROVE  RInv'
<1>1. /\ TypeOK /\ UNCHANGED <<stage, session, mode, inbound, reader, held, sent>>
      /\ wire' = [wire EXCEPT ![s] = wire[s] \o m]
      /\ told' = [told EXCEPT ![s] = told[s] \o m]
  BY DEF RInv, Tell, clientVars
<1>2. /\ wire[s] \in Seq(Incoming) /\ told[s] \in Seq(Incoming)
      /\ wire[s] \o m \in Seq(Incoming) /\ told[s] \o m \in Seq(Incoming)
      /\ Len(wire[s] \o m) = Len(wire[s]) + Len(m) /\ Len(wire[s]) \in Nat /\ Len(m) \in Nat
      /\ Len(told[s] \o m) = Len(told[s]) + Len(m) /\ Len(told[s]) \in Nat
  <2>1. wire[s] \in Seq(Incoming) /\ told[s] \in Seq(Incoming)
    BY <1>1, Types
  <2> QED
    BY <2>1
<1>3. /\ wire \in [Session -> Seq(Incoming)] /\ told \in [Session -> Seq(Incoming)]
      /\ wire'[s] = wire[s] \o m /\ told'[s] = told[s] \o m
      /\ \A r \in Session : r # s => wire'[r] = wire[r] /\ told'[r] = told[r]
  BY <1>1 DEF TypeOK
<1>4. session \in Nat /\ s \in Nat /\ s <= session
  <2>1. session \in Nat /\ s \in Nat
    BY <1>1, ClientAssumption DEF TypeOK, Session
  <2>2. ~(s > session)
    BY <1>1 DEF TypeOK
  <2> QED
    BY <2>1, <2>2
<1>5. TypeOK'
  BY <1>1, <1>2 DEF TypeOK
<1>6. StageOK'
  BY <1>1 DEF RInv, StageOK
<1>7. BeforeSession'
  <2>1. \A r \in Session : r > session => r # s
    BY <1>4
  <2>2. stage = "registering" => wire'[session] = told'[session]
    <3>1. stage = "registering" => session \in Session /\ wire[session] = told[session]
      BY DEF RInv, StageOK, BeforeSession
    <3> QED
      BY <3>1, <1>3
  <2> QED
    BY <2>1, <2>2, <1>1, <1>3 DEF RInv, BeforeSession
<1>8. \A r \in Session : Within(wire'[r], told'[r], 0)
  <2>1. Within(wire[s] \o m, told[s] \o m, 0)
    <3>1. Within(wire[s], told[s], 0)
      BY DEF RInv, InPlace
    <3> QED
      BY <3>1, <1>2, WithinBoth
  <2> QED
    BY <2>1, <1>3 DEF RInv, InPlace
<1>9. \A r \in Session : AnswersTo(sent'[r], told'[r])
  <2>1. AnswersTo(sent[s], told[s] \o m)
    <3>1. AnswersTo(sent[s], told[s]) /\ sent[s] \in Seq(Reply)
      BY <1>1, Types DEF RInv, InOrder
    <3> QED
      BY <3>1, <1>2, AnswersToMore
  <2> QED
    BY <2>1, <1>1, <1>3 DEF RInv, InOrder
<1>10. ASSUME stage = "running"
       PROVE  /\ Within(held'[session'], told'[session'], Len(wire'[session']))
              /\ Within(inbound', told'[session'], Len(wire'[session']) + Len(held'[session']))
              /\ UpTo(sent'[session'], told'[session'], Got')
              /\ Orders(told'[session'], mode')
  <2>1. session \in Session /\ Got \in Nat /\ Got <= Len(told[session])
    BY <1>10, Positions
  <2>2. /\ Within(held[session], told[session], Len(wire[session]))
        /\ Within(inbound, told[session], Len(wire[session]) + Len(held[session]))
        /\ UpTo(sent[session], told[session], Got)
        /\ Orders(told[session], mode)
    BY <1>10 DEF RInv, InPlace, InOrder, Reported
  <2>3. CASE s # session
    <3>1. wire'[session] = wire[session] /\ told'[session] = told[session]
      BY <2>3, <2>1, <1>3
    <3> QED
      BY <3>1, <2>2, <1>1 DEF Got
  <2>4. CASE s = session
    <3>1. /\ held[s] \in Seq(Incoming) /\ inbound \in Seq(Incoming)
          /\ Len(held[s]) \in Nat /\ Len(inbound) \in Nat
      BY <1>1, Types
    <3>2. Within(held[s], told[s] \o m, Len(wire[s]) + Len(m))
      BY <2>2, <2>4, <3>1, <1>2, WithinMore
    <3>3. Within(inbound, told[s] \o m, Len(wire[s]) + Len(held[s]) + Len(m))
      <4>1. Len(wire[s]) + Len(held[s]) \in Nat
        <5>1. PICK w \in Nat : w = Len(wire[s])
          BY <1>2
        <5>2. PICK h \in Nat : h = Len(held[s])
          BY <3>1
        <5>3. w + h \in Nat
          OBVIOUS
        <5> QED
          BY <5>1, <5>2, <5>3
      <4> QED
        BY <4>1, <2>2, <2>4, <3>1, <1>2, WithinMore
    <3>4. UpTo(sent[s], told[s] \o m, Got)
      BY <2>1, <2>2, <2>4, <1>2, UpToMore
    <3>5. Orders(told[s] \o m, mode)
      BY <2>2, <2>4, <1>2, OrdersMore
    <3>6. Len(wire'[s]) = Len(wire[s]) + Len(m)
      BY <1>2, <1>3
    <3>7. Len(wire'[s]) + Len(held[s]) = Len(wire[s]) + Len(held[s]) + Len(m)
      <4>1. PICK w \in Nat : w = Len(wire[s])
        BY <1>2
      <4>2. PICK h \in Nat : h = Len(held[s])
        BY <3>1
      <4>3. PICK k \in Nat : k = Len(m)
        BY <1>2
      <4>4. (w + k) + h = w + h + k
        OBVIOUS
      <4> QED
        BY <4>1, <4>2, <4>3, <4>4, <3>6
    <3>8. Got' = Got
      <4>1. Got' = Len(told'[s]) - (Len(wire'[s]) + Len(held[s]) + Len(inbound))
        BY <2>4, <1>1 DEF Got
      <4>2. Got = Len(told[s]) - (Len(wire[s]) + Len(held[s]) + Len(inbound))
        BY <2>4 DEF Got
      <4>3. Len(told'[s]) = Len(told[s]) + Len(m)
        BY <1>2, <1>3
      <4> QED
        BY <4>1, <4>2, <4>3, <3>1, <3>6, <1>2
    <3> QED
      BY <3>2, <3>3, <3>4, <3>5, <3>6, <3>7, <3>8, <1>1, <1>3, <2>4
  <2> QED
    BY <2>3, <2>4
<1>11. InPlace'
  BY <1>8, <1>10, <1>1 DEF InPlace
<1>12. InOrder' /\ Reported'
  BY <1>9, <1>10, <1>1 DEF InOrder, Reported
<1> QED
  BY <1>5, <1>6, <1>7, <1>11, <1>12 DEF RInv

-----------------------------------------------------------------------------
\* Sessions begin and end

LEMMA Ended ==
  ASSUME RInv, EndSession, mode' \in SystemMode,
         UNCHANGED <<session, reader, held, samVars, sent>>
  PROVE  RInv'
<1>1. /\ stage' = "idle" /\ inbound' = << >>
      /\ UNCHANGED <<session, reader, held, wire, sam, told, sent>>
  BY DEF EndSession, samVars
<1>2. << >> \in Seq(Incoming) /\ Len(<< >>) = 0
  OBVIOUS
<1>3. TypeOK'
  <2>8. inbound' \in Seq(Incoming) /\ Len(inbound') <= InboundDepth
    BY <1>1, <1>2, ClientAssumption
  <2> QED
    BY <1>1, <2>8 DEF RInv, TypeOK
<1> QED
  BY <1>1, <1>3 DEF RInv, StageOK, BeforeSession, InPlace, InOrder, Reported

LEMMA Connects == RInv /\ Connect => RInv'
<1> SUFFICES ASSUME RInv, Connect PROVE RInv'
  OBVIOUS
<1>1. /\ stage = "idle" /\ session < MaxSession /\ stage' = "registering"
      /\ session' = session + 1
      /\ sam' = [sam EXCEPT ![session + 1] = "asked"]
      /\ UNCHANGED <<mode, inbound, reader, held, wire, told, sent>>
  BY DEF Connect
<1>2. TypeOK
  BY DEF RInv
<1>3. session \in Nat /\ session + 1 \in Session /\ session' \in 0 .. MaxSession
  BY <1>1, <1>2, ClientAssumption DEF TypeOK, Session
<1>4. \A r \in Session : r \in Nat /\ (r > session + 1 <=> (r > session /\ r # session + 1))
  BY <1>3, ClientAssumption DEF Session
<1>5. TypeOK'
  <2>1. \A r \in Session : (sam'[r] = "none") <=> (r > session')
    BY <1>1, <1>2, <1>4, <1>3 DEF TypeOK
  <2>2. sam' \in [Session -> {"none", "asked", "accepted", "closed"}]
    BY <1>1, <1>2 DEF TypeOK
  <2> QED
    BY <1>1, <1>2, <1>3, <2>1, <2>2 DEF TypeOK
<1>6. StageOK'
  BY <1>1, <1>3 DEF RInv, StageOK
<1>7. BeforeSession'
  <2>1. session + 1 > session
    BY <1>3
  <2>2. /\ wire[session + 1] = << >> /\ told[session + 1] = << >>
        /\ sent[session + 1] = << >> /\ reader[session + 1] = "none"
    BY <1>3, <2>1 DEF RInv, BeforeSession
  <2> QED
    BY <1>1, <1>3, <1>4, <2>2 DEF RInv, BeforeSession
<1>8. InPlace' /\ InOrder' /\ Reported'
  BY <1>1 DEF RInv, InPlace, InOrder, Reported
<1> QED
  BY <1>5, <1>6, <1>7, <1>8 DEF RInv

LEMMA TimesOut == RInv /\ RegistrationTimeout => RInv'
<1> SUFFICES ASSUME RInv, RegistrationTimeout PROVE RInv'
  OBVIOUS
<1>1. mode' \in SystemMode
  BY DEF RInv, TypeOK, RegistrationTimeout
<1> QED
  BY <1>1, Ended DEF RegistrationTimeout

\* The session has read the answer to its registration and goes no further ...
LEMMA Read1 ==
  ASSUME RInv, stage = "registering", wire[session] # << >>
  PROVE  /\ session \in Session
         /\ wire[session] \in Seq(Incoming) /\ Tail(wire[session]) \in Seq(Incoming)
         /\ Head(wire[session]) \in Incoming
         /\ reader[session] = "none" /\ held[session] = << >> /\ sent[session] = << >>
         /\ inbound = << >>
         /\ told[session] = wire[session]
         /\ Within(Tail(wire[session]), told[session], 0)
         /\ Len(told[session]) = Len(Tail(wire[session])) + 1
         /\ Len(Tail(wire[session])) \in Nat
         /\ told[session][1] = Head(wire[session])
<1>1. session \in Session /\ TypeOK
  BY DEF RInv, StageOK
<1>2. reader[session] = "none" /\ sent[session] = << >> /\ inbound = << >> /\ told[session] = wire[session]
  BY DEF RInv, StageOK, BeforeSession
<1>3. held[session] = << >>
  <2>1. reader[session] = "reading" \/ held[session] = << >>
    BY <1>1 DEF TypeOK
  <2> QED
    BY <2>1, <1>2
<1>4. PICK w \in Seq(Incoming) : w = wire[session]
  BY <1>1, Types
<1>5. w # << >>
  BY <1>4
<1>6. /\ Tail(w) \in Seq(Incoming) /\ Head(w) \in Incoming /\ Head(w) = w[1]
      /\ Len(w) = Len(Tail(w)) + 1 /\ Len(Tail(w)) \in Nat
  BY <1>5
<1>7. Within(w, w, 0)
  BY <1>1, <1>2, <1>4 DEF RInv, InPlace
<1>8. Within(Tail(w), w, 0)
  BY <1>5, <1>7, WithinTail
<1> QED
  BY <1>1, <1>2, <1>3, <1>4, <1>6, <1>8

LEMMA Stopped ==
  ASSUME RInv, stage = "registering", wire[session] # << >>,
         stage' \in {"idle", "stopped"}, inbound' = << >>,
         wire' = [wire EXCEPT ![session] = Tail(@)],
         UNCHANGED <<session, mode, reader, held, sam, told, sent>>
  PROVE  RInv'
<1>1. TypeOK
  BY DEF RInv
<1>2. session \in Session /\ Tail(wire[session]) \in Seq(Incoming) /\ Within(Tail(wire[session]), told[session], 0)
  BY Read1
<1>3. << >> \in Seq(Incoming) /\ Len(<< >>) = 0
  OBVIOUS
<1>4. /\ wire' \in [Session -> Seq(Incoming)] /\ wire'[session] = Tail(wire[session])
      /\ \A r \in Session : r # session => wire'[r] = wire[r]
  BY <1>1, <1>2 DEF TypeOK
<1>5. TypeOK'
  <2>8. inbound' \in Seq(Incoming) /\ Len(inbound') <= InboundDepth
    BY <1>3, ClientAssumption
  <2> QED
    BY <1>1, <1>4, <2>8 DEF TypeOK
<1>6. StageOK'
  BY <1>2 DEF StageOK
<1>7. BeforeSession'
  <2>1. \A r \in Session : r > session => r # session
    BY <1>1, ClientAssumption DEF TypeOK, Session
  <2> QED
    BY <2>1, <1>4 DEF RInv, BeforeSession
<1>8. InPlace'
  BY <1>2, <1>4 DEF RInv, InPlace
<1>9. InOrder' /\ Reported'
  BY DEF RInv, InOrder, Reported
<1> QED
  BY <1>5, <1>6, <1>7, <1>8, <1>9 DEF RInv

\* ... or begins.
LEMMA Begun ==
  ASSUME RInv, stage = "registering", wire[session] # << >>,
         Head(wire[session]).type = "RegisterAccepted",
         mode' = Head(wire[session]).mode,
         Begin, wire' = [wire EXCEPT ![session] = Tail(@)],
         UNCHANGED <<session, held, sam, told, sent>>
  PROVE  RInv'
<1>1. TypeOK
  BY DEF RInv
<1>2. /\ session \in Session
      /\ wire[session] \in Seq(Incoming) /\ Tail(wire[session]) \in Seq(Incoming)
      /\ Head(wire[session]) \in Incoming
      /\ held[session] = << >> /\ sent[session] = << >>
      /\ told[session] = wire[session]
      /\ Within(Tail(wire[session]), told[session], 0)
      /\ Len(told[session]) = Len(Tail(wire[session])) + 1
      /\ Len(Tail(wire[session])) \in Nat
      /\ told[session][1] = Head(wire[session])
  BY Read1
<1>3. << >> \in Seq(Incoming) /\ Len(<< >>) = 0
  OBVIOUS
<1>4. /\ wire' \in [Session -> Seq(Incoming)] /\ wire'[session] = Tail(wire[session])
      /\ \A r \in Session : r # session => wire'[r] = wire[r]
  BY <1>1, <1>2 DEF TypeOK
<1>5. /\ stage' = "running" /\ inbound' = << >>
      /\ reader' \in [Session -> {"none", "reading", "ended"}]
      /\ reader'[session] = "reading"
      /\ \A r \in Session : r # session => reader'[r] = reader[r]
  BY <1>1, <1>2 DEF Begin, TypeOK
<1>6. mode' \in SystemMode
  BY <1>2, Fields
<1>7. TypeOK'
  <2>1. \A r \in Session : reader'[r] = "reading" \/ held[r] = << >>
    BY <1>1, <1>5 DEF TypeOK
  <2>8. inbound' \in Seq(Incoming) /\ Len(inbound') <= InboundDepth
    BY <1>3, <1>5, ClientAssumption
  <2> QED
    BY <1>1, <1>4, <1>5, <1>6, <2>1, <2>8 DEF TypeOK
<1>8. StageOK'
  BY <1>2, <1>5 DEF StageOK
<1>9. BeforeSession'
  <2>1. \A r \in Session : r > session => r # session
    BY <1>1, ClientAssumption DEF TypeOK, Session
  <2> QED
    BY <2>1, <1>4, <1>5 DEF RInv, BeforeSession
<1>10. PICK n \in Nat : n = Len(Tail(wire[session]))
  BY <1>2
<1>11. PICK t \in Seq(Incoming) : t = told[session]
  BY <1>2
<1>12. Len(t) = n + 1 /\ n <= Len(t)
  BY <1>2, <1>10, <1>11
<1>13. InPlace'
  <2>1. Within(<< >>, t, n)
    BY <1>12, WithinEmpty
  <2>2. n + Len(<< >>) = n
    BY <1>3
  <2>3. \A r \in Session : Within(wire'[r], told[r], 0)
    BY <1>2, <1>4 DEF RInv, InPlace
  <2>4. Len(wire'[session]) = n
    BY <1>4, <1>10
  <2> QED
    BY <2>1, <2>2, <2>3, <2>4, <1>2, <1>5, <1>11 DEF InPlace
<1>14. InOrder'
  <2>1. Got' = 1
    <3>1. Got' = (n + 1) - (n + 0 + 0)
      BY <1>2, <1>3, <1>4, <1>5, <1>10, <1>11, <1>12 DEF Got
    <3> QED
      BY <3>1
  <2>2. UpTo(<< >>, t, 1)
    <3>1. ~IsRequest(t[1])
      BY <1>2, <1>11 DEF IsRequest
    <3>2. \A k \in 1 .. 1 : k = 1
      OBVIOUS
    <3> QED
      BY <3>1, <3>2, <1>3 DEF UpTo
  <2> QED
    BY <2>1, <2>2, <1>2, <1>11 DEF RInv, InOrder
<1>15. Reported'
  <2>1. 1 \in 1 .. Len(t)
    BY <1>12
  <2>2. Orders(t, mode')
    BY <2>1, <1>2, <1>11 DEF Orders
  <2> QED
    BY <2>2, <1>11 DEF Reported
<1> QED
  BY <1>7, <1>8, <1>9, <1>13, <1>14, <1>15 DEF RInv

LEMMA ReceivesRegistration == RInv /\ ReceiveRegistration => RInv'
<1> SUFFICES ASSUME RInv, ReceiveRegistration PROVE RInv'
  OBVIOUS
<1>1. /\ stage = "registering" /\ wire[session] # << >>
      /\ wire' = [wire EXCEPT ![session] = Tail(@)]
      /\ UNCHANGED <<session, held, sam, told, sent>>
  BY DEF ReceiveRegistration
<1>2. inbound = << >>
  BY <1>1, Read1
<1>3. CASE Head(wire[session]).type = "RegisterAccepted" /\ Synchronize(Head(wire[session]).mode)
  <2>1. CASE Begin /\ mode' = Head(wire[session]).mode
    BY <2>1, <1>1, <1>3, Begun
  <2>2. CASE stage' = "stopped" /\ UNCHANGED <<mode, inbound, reader>>
    BY <2>2, <1>1, <1>2, Stopped
  <2> QED
    BY <2>1, <2>2, <1>3 DEF Synchronize
<1>4. CASE stage' = "stopped" /\ UNCHANGED <<mode, inbound, reader>>
  BY <1>4, <1>1, <1>2, Stopped
<1>5. CASE EndSession /\ UNCHANGED <<mode, reader>>
  BY <1>5, <1>1, Stopped DEF EndSession
<1> QED
  BY <1>3, <1>4, <1>5 DEF ReceiveRegistration

-----------------------------------------------------------------------------
\* The reader tasks

LEMMA Reads ==
  ASSUME RInv, NEW s \in Session, Read(s)
  PROVE  RInv'
<1>1. /\ TypeOK /\ reader[s] = "reading" /\ held[s] = << >> /\ wire[s] # << >>
      /\ held' = [held EXCEPT ![s] = <<Head(wire[s])>>]
      /\ wire' = [wire EXCEPT ![s] = Tail(wire[s])]
      /\ UNCHANGED <<stage, session, mode, inbound, reader, sam, told, sent>>
  BY DEF RInv, Read
<1>2. PICK w \in Seq(Incoming) : w = wire[s]
  BY <1>1, Types
<1>3. PICK t \in Seq(Incoming) : t = told[s]
  BY <1>1, Types
<1>4. w # << >>
  BY <1>1, <1>2
<1>5. /\ Tail(w) \in Seq(Incoming) /\ <<Head(w)>> \in Seq(Incoming) /\ Len(<<Head(w)>>) = 1
      /\ Len(w) = Len(Tail(w)) + 1 /\ Len(Tail(w)) \in Nat
  BY <1>4
<1>6. /\ Within(Tail(w), t, 0) /\ Within(<<Head(w)>>, t, Len(Tail(w)))
  <2>1. Within(w, t, 0)
    BY <1>2, <1>3 DEF RInv, InPlace
  <2>2. Within(Tail(w), t, 0) /\ Within(<<Head(w)>>, t, 0 + Len(Tail(w)))
    BY <2>1, <1>4, WithinTail
  <2>3. 0 + Len(Tail(w)) = Len(Tail(w))
    BY <1>5
  <2> QED
    BY <2>2, <2>3
<1>7. /\ wire' \in [Session -> Seq(Incoming)] /\ held' \in [Session -> Seq(Incoming)]
      /\ wire'[s] = Tail(w) /\ held'[s] = <<Head(w)>>
      /\ \A r \in Session : r # s => wire'[r] = wire[r] /\ held'[r] = held[r]
  BY <1>1, <1>2, <1>5 DEF TypeOK
<1>8. TypeOK'
  <2>1. \A r \in Session : Len(held'[r]) <= 1 /\ (reader[r] = "reading" \/ held'[r] = << >>)
    BY <1>1, <1>5, <1>7 DEF TypeOK
  <2> QED
    BY <1>1, <1>7, <2>1 DEF TypeOK
<1>9. StageOK' /\ Reported'
  BY <1>1 DEF RInv, StageOK, Reported
<1>10. BeforeSession'
  <2>1. \A r \in Session : reader[r] = "none" => r # s
    BY <1>1
  <2>2. stage = "registering" => session \in Session
    BY DEF RInv, StageOK
  <2> QED
    BY <2>1, <2>2, <1>1, <1>7 DEF RInv, BeforeSession
<1>11. \A r \in Session : Within(wire'[r], told[r], 0)
  BY <1>3, <1>6, <1>7 DEF RInv, InPlace
<1>12. ASSUME stage = "running"
       PROVE  /\ Within(held'[session], told[session], Len(wire'[session]))
              /\ Within(inbound, told[session], Len(wire'[session]) + Len(held'[session]))
              /\ Got' = Got
  <2>1. session \in Session
    BY <1>12 DEF RInv, StageOK
  <2>2. /\ Within(held[session], told[session], Len(wire[session]))
        /\ Within(inbound, told[session], Len(wire[session]) + Len(held[session]))
    BY <1>12 DEF RInv, InPlace
  <2>3. CASE s # session
    <3>1. wire'[session] = wire[session] /\ held'[session] = held[session]
      BY <2>1, <2>3, <1>7
    <3> QED
      BY <3>1, <2>2, <1>1 DEF Got
  <2>4. CASE s = session
    <3>1. Len(wire'[s]) + Len(held'[s]) = Len(wire[s]) + Len(held[s])
      <4>1. PICK n \in Nat : n = Len(Tail(w))
        BY <1>5
      <4>2. Len(held[s]) = 0
        BY <1>1
      <4>3. Len(wire[s]) = n + 1 /\ Len(wire'[s]) = n /\ Len(held'[s]) = 1
        BY <4>1, <1>2, <1>5, <1>7
      <4>4. n + 1 = (n + 1) + 0
        OBVIOUS
      <4> QED
        BY <4>2, <4>3, <4>4
    <3>2. Got' = Got
      BY <3>1, <2>4, <1>1 DEF Got
    <3> QED
      BY <3>1, <3>2, <2>2, <2>4, <1>3, <1>6, <1>7
  <2> QED
    BY <2>3, <2>4
<1>13. InPlace'
  BY <1>1, <1>11, <1>12 DEF InPlace
<1>14. InOrder'
  BY <1>1, <1>12 DEF RInv, InOrder
<1> QED
  BY <1>8, <1>9, <1>10, <1>13, <1>14 DEF RInv

LEMMA HandsOver ==
  ASSUME RInv, NEW s \in Session, HandOver(s)
  PROVE  RInv'
<1>1. /\ TypeOK /\ held[s] # << >>
      /\ held' = [held EXCEPT ![s] = << >>]
      /\ UNCHANGED <<stage, session, mode, wire, sam, told, sent>>
  BY DEF RInv, HandOver, Hand, samVars
<1>2. /\ HasReceiver(s) => Len(inbound) < InboundDepth
      /\ inbound' = IF HasReceiver(s) THEN inbound \o held[s] ELSE inbound
      /\ reader' = [reader EXCEPT ![s] =
            IF HasReceiver(s) /\ held[s] # <<Closed>> THEN "reading" ELSE "ended"]
  BY DEF HandOver
<1>3. PICK h \in Seq(Incoming) : h = held[s]
  BY <1>1, Types
<1>4. PICK q \in Seq(Incoming) : q = inbound
  BY <1>1, Types
<1>5. << >> \in Seq(Incoming) /\ Len(<< >>) = 0
  OBVIOUS
<1>6. /\ held' \in [Session -> Seq(Incoming)] /\ held'[s] = << >>
      /\ \A r \in Session : r # s => held'[r] = held[r]
  BY <1>1, <1>5 DEF TypeOK
<1>7. /\ reader' \in [Session -> {"none", "reading", "ended"}]
      /\ \A r \in Session : r # s => reader'[r] = reader[r]
  BY <1>1, <1>2 DEF TypeOK
<1>8. Len(h) \in Nat /\ Len(q) \in Nat /\ Len(q \o h) = Len(q) + Len(h) /\ q \o h \in Seq(Incoming) /\ Len(h) <= 1
  <2>1. Len(h) <= 1
    BY <1>1, <1>3 DEF TypeOK
  <2> QED
    BY <2>1
<1>9. TypeOK'
  <2>1. inbound' \in Seq(Incoming) /\ Len(inbound') <= InboundDepth
    <3>1. CASE HasReceiver(s)
      <4>1. Len(q) < InboundDepth
        BY <3>1, <1>2, <1>4
      <4>2. Len(q \o h) <= InboundDepth
        BY <4>1, <1>8, ClientAssumption
      <4> QED
        BY <3>1, <4>2, <1>2, <1>3, <1>4, <1>8
    <3>2. CASE ~HasReceiver(s)
      BY <3>2, <1>1, <1>2 DEF TypeOK
    <3> QED
      BY <3>1, <3>2
  <2>2. \A r \in Session : Len(held'[r]) <= 1 /\ (reader'[r] = "reading" \/ held'[r] = << >>)
    BY <1>1, <1>5, <1>6, <1>7 DEF TypeOK
  <2> QED
    BY <1>1, <1>6, <1>7, <2>1, <2>2 DEF TypeOK
<1>10. StageOK'
  BY <1>1, <1>2 DEF RInv, StageOK, HasReceiver
<1>11. BeforeSession'
  <2>1. \A r \in Session : reader[r] = "none" => r # s
    BY <1>1 DEF TypeOK
  <2>2. stage = "registering" => session \in Session
    BY DEF RInv, StageOK
  <2> QED
    BY <2>1, <2>2, <1>1, <1>7 DEF RInv, BeforeSession
<1>12. ASSUME stage = "running"
       PROVE  /\ Within(held'[session], told[session], Len(wire[session]))
              /\ Within(inbound', told[session], Len(wire[session]) + Len(held'[session]))
              /\ Got' = Got
  <2>1. session \in Session
    BY <1>12 DEF RInv, StageOK
  <2>2. /\ Within(held[session], told[session], Len(wire[session]))
        /\ Within(inbound, told[session], Len(wire[session]) + Len(held[session]))
    BY <1>12 DEF RInv, InPlace
  <2>3. CASE s # session
    <3>1. held'[session] = held[session] /\ inbound' = inbound
      BY <2>1, <2>3, <1>2, <1>6 DEF HasReceiver
    <3> QED
      BY <3>1, <2>2, <1>1 DEF Got
  <2>4. CASE s = session
    <3>1. inbound' = q \o h
      BY <2>4, <1>12, <1>2, <1>3, <1>4 DEF HasReceiver
    <3>2. PICK n \in Nat : n = Len(wire[s])
      BY <1>1, Types
    <3>3. PICK t \in Seq(Incoming) : t = told[s]
      BY <1>1, Types
    <3>4. Within(h, t, n) /\ Within(q, t, n + Len(h))
      BY <2>2, <2>4, <3>2, <3>3, <1>3, <1>4
    <3>5. Within(q \o h, t, n)
      BY <3>4, WithinJoined
    <3>6. Within(<< >>, t, n)
      <4>1. n <= Len(t)
        BY <3>4, <1>8 DEF Within
      <4> QED
        BY <4>1, WithinEmpty
    <3>7. n + Len(<< >>) = n
      BY <1>5
    <3>8. Got' = Got
      <4>1. Got = Len(t) - (n + Len(h) + Len(q))
        BY <2>4, <3>2, <3>3, <1>3, <1>4 DEF Got
      <4>2. Got' = Len(t) - (n + 0 + Len(q \o h))
        BY <2>4, <3>1, <3>2, <3>3, <1>1, <1>5, <1>6 DEF Got
      <4>3. n + Len(h) + Len(q) = n + 0 + Len(q \o h)
        BY <1>8
      <4> QED
        BY <4>1, <4>2, <4>3
    <3> QED
      BY <3>1, <3>2, <3>3, <3>5, <3>6, <3>7, <3>8, <2>4, <1>6
  <2> QED
    BY <2>3, <2>4
<1>13. InPlace'
  BY <1>1, <1>12 DEF RInv, InPlace
<1>14. InOrder' /\ Reported'
  BY <1>1, <1>12 DEF RInv, InOrder, Reported
<1> QED
  BY <1>9, <1>10, <1>11, <1>13, <1>14 DEF RInv

-----------------------------------------------------------------------------
\* The main loop

LEMMA HeartbeatFailing == RInv /\ HeartbeatFails => RInv'
<1> SUFFICES ASSUME RInv, HeartbeatFails PROVE RInv'
  OBVIOUS
<1>1. mode' \in SystemMode
  BY DEF RInv, TypeOK, HeartbeatFails
<1> QED
  BY <1>1, Ended DEF HeartbeatFails, WriteFails

\* The next message is the first of the queue.
LEMMA NextMessage ==
  ASSUME RInv, stage = "running", inbound # << >>
  PROVE  /\ session \in Session /\ Got \in Nat /\ Got + 1 \in 1 .. Len(told[session])
         /\ Taken(session) = Got
         /\ Head(inbound) \in Incoming
         /\ Head(inbound) = told[session][Got + 1]
         /\ Tail(inbound) \in Seq(Incoming)
         /\ Len(inbound) = Len(Tail(inbound)) + 1 /\ Len(Tail(inbound)) \in Nat
         /\ Within(Tail(inbound), told[session], Len(wire[session]) + Len(held[session]))
<1>1. session \in Session /\ Got \in Nat /\ Taken(session) = Got /\ TypeOK
  BY Positions DEF RInv
<1>2. PICK q \in Seq(Incoming) : q = inbound
  BY <1>1, Types
<1>3. PICK t \in Seq(Incoming) : t = told[session]
  BY <1>1, Types
<1>4. PICK w \in Nat : w = Len(wire[session])
  BY <1>1, Types
<1>5. PICK h \in Nat : h = Len(held[session])
  BY <1>1, Types
<1>6. PICK n \in Nat : n = w + h
  OBVIOUS
<1>7. q # << >>
  BY <1>2
<1>8. Within(q, t, n)
  BY <1>2, <1>3, <1>4, <1>5, <1>6 DEF RInv, InPlace
<1>9. /\ Within(Tail(q), t, n) /\ Len(t) - n - Len(q) + 1 \in 1 .. Len(t)
      /\ Head(q) = t[(Len(t) - n - Len(q)) + 1]
  BY <1>7, <1>8, WithinTail
<1>10. /\ Head(q) \in Incoming /\ Tail(q) \in Seq(Incoming)
       /\ Len(q) = Len(Tail(q)) + 1 /\ Len(Tail(q)) \in Nat /\ Len(q) \in Nat /\ Len(t) \in Nat
  BY <1>7
<1>11. Got = Len(t) - (w + h + Len(q))
  BY <1>2, <1>3, <1>4, <1>5 DEF Got
<1>12. Got + 1 = (Len(t) - n - Len(q)) + 1
  BY <1>11, <1>10, <1>6
<1> QED
  BY <1>1, <1>2, <1>3, <1>4, <1>5, <1>6, <1>9, <1>10, <1>12

\* It is taken from the queue and dealt with.
LEMMA Took ==
  ASSUME RInv, stage = "running", inbound # << >>, inbound' = Tail(inbound),
         UNCHANGED <<stage, session, reader, held, samVars>>,
         mode' \in SystemMode, Orders(told[session], mode'),
         sent' \in [Session -> Seq(Reply)],
         \A r \in Session : r # session => sent'[r] = sent[r],
         AnswersTo(sent'[session], told[session]),
         UpTo(sent'[session], told[session], Got + 1)
  PROVE  RInv'
<1>1. /\ session \in Session /\ Got \in Nat
      /\ Tail(inbound) \in Seq(Incoming)
      /\ Len(inbound) = Len(Tail(inbound)) + 1 /\ Len(Tail(inbound)) \in Nat
      /\ Within(Tail(inbound), told[session], Len(wire[session]) + Len(held[session]))
  BY NextMessage
<1>2. TypeOK /\ UNCHANGED <<stage, session, reader, held, wire, sam, told>>
  BY DEF RInv, samVars
<1>3. TypeOK'
  <2>1. Len(inbound') <= InboundDepth
    <3>1. PICK n \in Nat : n = Len(Tail(inbound))
      BY <1>1
    <3>2. n + 1 <= InboundDepth
      BY <3>1, <1>1, <1>2 DEF TypeOK
    <3>3. n <= InboundDepth
      BY <3>2, ClientAssumption
    <3> QED
      BY <3>1, <3>3
  <2> QED
    BY <2>1, <1>1, <1>2 DEF TypeOK, Reply
<1>4. StageOK' /\ Reported'
  BY <1>1, <1>2 DEF RInv, StageOK, Reported
<1>5. BeforeSession'
  <2>1. \A r \in Session : r > session => r # session
    BY <1>2, ClientAssumption DEF TypeOK, Session
  <2> QED
    BY <2>1, <1>2 DEF RInv, BeforeSession
<1>6. InPlace'
  BY <1>1, <1>2 DEF RInv, InPlace
<1>7. Got' = Got + 1
  <2>1. PICK n \in Nat : n = Len(Tail(inbound))
    BY <1>1
  <2>2. PICK w \in Nat : w = Len(wire[session])
    BY <1>1, <1>2, Types
  <2>3. PICK h \in Nat : h = Len(held[session])
    BY <1>1, <1>2, Types
  <2>4. PICK t \in Nat : t = Len(told[session])
    BY <1>1, <1>2, Types
  <2>5. Got = t - (w + h + (n + 1))
    BY <2>1, <2>2, <2>3, <2>4, <1>1 DEF Got
  <2>6. Got' = t - (w + h + n)
    BY <2>1, <2>2, <2>3, <2>4, <1>2 DEF Got
  <2>7. t - (w + h + n) = (t - (w + h + (n + 1))) + 1
    OBVIOUS
  <2> QED
    BY <2>5, <2>6, <2>7
<1>8. InOrder'
  BY <1>2, <1>7 DEF RInv, InOrder
<1> QED
  BY <1>3, <1>4, <1>5, <1>6, <1>8 DEF RInv

LEMMA Answered ==
  ASSUME RInv, stage = "running", inbound # << >>, NEW x \in Outgoing, Answer(x),
         IsRequest(Head(inbound)), Answers(x, Head(inbound)),
         mode' \in SystemMode, Orders(told[session], mode'),
         UNCHANGED <<session, reader, held, samVars>>
  PROVE  RInv'
<1>1. CASE WriteFails /\ UNCHANGED sent
  BY <1>1, Ended DEF WriteFails
<1>2. CASE /\ sent' = [sent EXCEPT ![session] =
                         Append(@, [to |-> Taken(session) + 1, answer |-> x])]
           /\ inbound' = Tail(inbound)
           /\ UNCHANGED stage
  <2>1. /\ session \in Session /\ Got \in Nat /\ Got + 1 \in 1 .. Len(told[session])
        /\ Taken(session) = Got
        /\ Head(inbound) = told[session][Got + 1]
    BY NextMessage
  <2>2. TypeOK
    BY DEF RInv
  <2>3. PICK t \in Seq(Incoming) : t = told[session]
    BY <2>1, <2>2, Types
  <2>4. PICK a \in Seq(Reply) : a = sent[session]
    BY <2>1, <2>2, Types
  <2>5. PICK n \in Nat : n = Got
    BY <2>1
  <2>6. AnswersTo(a, t) /\ UpTo(a, t, n)
    BY <2>1, <2>3, <2>4, <2>5 DEF RInv, InOrder
  <2>7. n + 1 \in 1 .. Len(t) /\ IsRequest(t[n + 1]) /\ Answers(x, t[n + 1])
    BY <2>1, <2>3, <2>5
  <2>8. /\ AnswersTo(Append(a, [to |-> n + 1, answer |-> x]), t)
        /\ UpTo(Append(a, [to |-> n + 1, answer |-> x]), t, n + 1)
        /\ Append(a, [to |-> n + 1, answer |-> x]) \in Seq(Reply)
    BY <2>6, <2>7, OneMoreAnswer
  <2>9. sent' = [sent EXCEPT ![session] = Append(a, [to |-> n + 1, answer |-> x])]
    BY <1>2, <2>1, <2>4, <2>5
  <2>10. /\ sent' \in [Session -> Seq(Reply)]
         /\ sent'[session] = Append(a, [to |-> n + 1, answer |-> x])
         /\ \A r \in Session : r # session => sent'[r] = sent[r]
    BY <2>1, <2>2, <2>8, <2>9 DEF TypeOK, Reply
  <2>11. /\ AnswersTo(sent'[session], told[session])
         /\ UpTo(sent'[session], told[session], Got + 1)
    BY <2>3, <2>5, <2>8, <2>10
  <2> QED
    BY <1>2, <2>10, <2>11, Took
<1> QED
  BY <1>1, <1>2 DEF Answer

LEMMA Handles == RInv /\ Handle => RInv'
<1> SUFFICES ASSUME RInv, Handle PROVE RInv'
  OBVIOUS
<1>1. /\ stage = "running" /\ inbound # << >>
      /\ UNCHANGED <<session, reader, held, samVars>>
  BY DEF Handle
<1>2. PICK message : message = Head(inbound)
  OBVIOUS
<1>3. /\ session \in Session /\ Got \in Nat /\ Got + 1 \in 1 .. Len(told[session])
      /\ message \in Incoming /\ message = told[session][Got + 1]
  BY <1>1, <1>2, NextMessage
<1>4. mode \in SystemMode /\ Orders(told[session], mode)
  BY <1>1 DEF RInv, TypeOK, Reported
<1>5. ASSUME HandlePrepareMode(message)
      PROVE  RInv'
  <2>1. message.type = "PrepareMode" /\ mode' = mode /\ message.id \in TransitionId
    BY <1>5, <1>3, Fields DEF HandlePrepareMode
  <2>2. ASSUME NEW x \in {ModeReady(Me, message.id), ModeRejected(Me, message.id)}, Answer(x)
        PROVE  RInv'
    <3>1. x \in Outgoing
      BY <2>1 DEF Outgoing
    <3>2. Answers(x, message)
      BY <2>1 DEF Answers, ModeReady, ModeRejected
    <3>3. IsRequest(message)
      BY <2>1 DEF IsRequest
    <3> QED
      BY <2>1, <2>2, <3>1, <3>2, <3>3, <1>1, <1>2, <1>4, Answered
  <2> QED
    BY <1>5, <2>2 DEF HandlePrepareMode
<1>6. ASSUME HandleCommitMode(message)
      PROVE  RInv'
  <2>1. message.type = "CommitMode" /\ message.id \in TransitionId /\ message.mode \in SystemMode
    BY <1>6, <1>3, Fields DEF HandleCommitMode
  <2>2. CASE mode' = message.mode /\ Answer(ModeCommitted(Me, message.id, message.mode))
    <3>1. PICK x : x = ModeCommitted(Me, message.id, message.mode)
      OBVIOUS
    <3>2. x \in Outgoing
      BY <2>1, <3>1 DEF Outgoing
    <3>3. Answers(x, message) /\ IsRequest(message)
      BY <2>1, <3>1 DEF Answers, ModeCommitted, IsRequest
    <3>4. Orders(told[session], mode')
      BY <2>1, <2>2, <1>3 DEF Orders
    <3> QED
      BY <2>1, <2>2, <3>1, <3>2, <3>3, <3>4, <1>1, <1>2, Answered
  <2>3. CASE EndSession /\ UNCHANGED <<mode, sent>>
    BY <2>3, <1>1, <1>4, Ended
  <2> QED
    BY <1>6, <2>2, <2>3 DEF HandleCommitMode
<1>7. ASSUME HandleNotice(message)
      PROVE  RInv'
  <2>1. /\ message.type \in {"AbortMode", "StateBroadcast"}
        /\ inbound' = Tail(inbound) /\ UNCHANGED <<stage, mode, sent>>
    BY <1>7 DEF HandleNotice
  <2>2. ~IsRequest(told[session][Got + 1])
    BY <2>1, <1>3 DEF IsRequest
  <2>3. sent \in [Session -> Seq(Reply)] /\ sent[session] \in Seq(Reply)
    BY <1>3 DEF RInv, TypeOK, Reply
  <2>4. AnswersTo(sent[session], told[session]) /\ UpTo(sent[session], told[session], Got)
    BY <1>1, <1>3 DEF RInv, InOrder
  <2>5. PICK n \in Nat : n = Got
    BY <1>3
  <2>6. UpTo(sent[session], told[session], n + 1)
    BY <2>2, <2>3, <2>4, <2>5, NothingToAnswer
  <2> QED
    BY <2>1, <2>3, <2>4, <2>5, <2>6, <1>1, <1>4, Took
<1>8. ASSUME HandleEnd(message)
      PROVE  RInv'
  BY <1>8, <1>1, <1>4, Ended DEF HandleEnd
<1> QED
  BY <1>2, <1>5, <1>6, <1>7, <1>8 DEF Handle

-----------------------------------------------------------------------------
\* The invariant holds always.

LEMMA SamTells ==
  ASSUME RInv, NEW s \in Session,
         \/ \E m \in Announced : SamAccepts(s, m)
         \/ SamRefuses(s)
         \/ \E message \in Message : SamSends(s, message)
         \/ SamCloses(s)
  PROVE  RInv'
<1>1. sam \in [Session -> {"none", "asked", "accepted", "closed"}]
  BY DEF RInv, TypeOK
<1>2. ASSUME NEW m \in Announced, SamAccepts(s, m)
      PROVE  RInv'
  <2>1. RegisterAccepted(m, "Healthy") \in Incoming
    BY ClientAssumption DEF RegisterAccepted, Incoming, SamToApplication, HealthState
  <2>2. <<RegisterAccepted(m, "Healthy")>> \in Seq(Incoming)
    BY <2>1
  <2>3. /\ sam[s] # "none" /\ sam' \in [Session -> {"none", "asked", "accepted", "closed"}]
        /\ \A r \in Session : sam'[r] = "none" <=> sam[r] = "none"
    BY <1>1, <1>2 DEF SamAccepts
  <2> QED
    BY <2>2, <2>3, <1>2, Told DEF SamAccepts
<1>3. CASE SamRefuses(s)
  <2>1. <<Refused, Closed>> \in Seq(Incoming)
    BY DEF Incoming
  <2>2. /\ sam[s] # "none" /\ sam' \in [Session -> {"none", "asked", "accepted", "closed"}]
        /\ \A r \in Session : sam'[r] = "none" <=> sam[r] = "none"
    BY <1>1, <1>3 DEF SamRefuses
  <2> QED
    BY <2>1, <2>2, <1>3, Told DEF SamRefuses
<1>4. ASSUME NEW message \in Message, SamSends(s, message)
      PROVE  RInv'
  <2>1. message \in Incoming
    BY ClientAssumption DEF Incoming
  <2>2. <<message>> \in Seq(Incoming)
    BY <2>1
  <2>3. /\ sam[s] # "none" /\ sam' \in [Session -> {"none", "asked", "accepted", "closed"}]
        /\ \A r \in Session : sam'[r] = "none" <=> sam[r] = "none"
    BY <1>1, <1>4 DEF SamSends
  <2> QED
    BY <2>2, <2>3, <1>4, Told DEF SamSends
<1>5. CASE SamCloses(s)
  <2>1. <<Closed>> \in Seq(Incoming)
    BY DEF Incoming
  <2>2. /\ sam[s] # "none" /\ sam' \in [Session -> {"none", "asked", "accepted", "closed"}]
        /\ \A r \in Session : sam'[r] = "none" <=> sam[r] = "none"
    BY <1>1, <1>5 DEF SamCloses
  <2> QED
    BY <2>1, <2>2, <1>5, Told DEF SamCloses
<1> QED
  BY <1>2, <1>3, <1>4, <1>5

LEMMA NextKeepsRInv == RInv /\ [Next]_vars => RInv'
<1> SUFFICES ASSUME RInv, [Next]_vars PROVE RInv'
  OBVIOUS
<1>1. CASE SamNext
  BY <1>1, SamTells DEF SamNext
<1>2. CASE Connect \/ RegistrationTimeout \/ ReceiveRegistration
  BY <1>2, Connects, TimesOut, ReceivesRegistration
<1>3. CASE \E s \in Session : Read(s) \/ HandOver(s)
  BY <1>3, Reads, HandsOver
<1>4. CASE HeartbeatFails \/ Handle
  BY <1>4, HeartbeatFailing, Handles
<1>5. CASE UNCHANGED vars
  <2>1. UNCHANGED <<stage, session, mode, inbound, reader, held, wire, sam, told, sent>>
    BY <1>5 DEF vars, clientVars, samVars
  <2> QED
    BY <2>1 DEF RInv, TypeOK, StageOK, BeforeSession, InPlace, InOrder, Reported, Got
<1> QED
  BY <1>1, <1>2, <1>3, <1>4, <1>5 DEF Next

LEMMA AlwaysRInv == Spec => []RInv
BY InitRInv, NextKeepsRInv, PTL DEF Spec

-----------------------------------------------------------------------------
\* What follows

LEMMA StepIsKept == RInv => RequestsInStep
<1> SUFFICES ASSUME RInv, NEW s \in Session
             PROVE  /\ AnswersTo(sent[s], told[s])
                    /\ HasReceiver(s) =>
                         /\ \A k \in 1 .. Taken(s) :
                              IsRequest(told[s][k]) => \E i \in 1 .. Len(sent[s]) : sent[s][i].to = k
                         /\ \A i \in 1 .. Len(Coming(s)) : Coming(s)[i] = told[s][Taken(s) + i]
  BY DEF RequestsInStep, AnswersTo
<1>1. AnswersTo(sent[s], told[s])
  BY DEF RInv, InOrder
<1>2. ASSUME HasReceiver(s)
      PROVE  /\ \A k \in 1 .. Taken(s) :
                  IsRequest(told[s][k]) => \E i \in 1 .. Len(sent[s]) : sent[s][i].to = k
             /\ \A i \in 1 .. Len(Coming(s)) : Coming(s)[i] = told[s][Taken(s) + i]
  <2>1. s = session /\ stage = "running" /\ TypeOK
    BY <1>2 DEF HasReceiver, RInv
  <2>2. Taken(s) = Got
    BY <2>1, Positions
  <2>3. UpTo(sent[s], told[s], Got)
    BY <2>1 DEF RInv, InOrder
  <2>4. PICK w \in Seq(Incoming) : w = wire[s]
    BY <2>1, Types
  <2>5. PICK h \in Seq(Incoming) : h = held[s]
    BY <2>1, Types
  <2>6. PICK q \in Seq(Incoming) : q = inbound
    BY <2>1, Types
  <2>7. PICK t \in Seq(Incoming) : t = told[s]
    BY <2>1, Types
  <2>8. Within(w, t, 0) /\ Within(h, t, Len(w)) /\ Within(q, t, Len(w) + Len(h))
    BY <2>1, <2>4, <2>5, <2>6, <2>7 DEF RInv, InPlace
  <2>9. Within(q \o h, t, Len(w))
    <3>1. Len(w) \in Nat
      OBVIOUS
    <3> QED
      BY <3>1, <2>8, WithinJoined
  <2>10. Within((q \o h) \o w, t, 0)
    <3>1. 0 + Len(w) = Len(w)
      OBVIOUS
    <3>2. q \o h \in Seq(Incoming)
      OBVIOUS
    <3> QED
      BY <3>1, <3>2, <2>8, <2>9, WithinJoined
  <2>15. (q \o h) \o w \in Seq(Incoming)
    <3>1. q \o h \in Seq(Incoming)
      OBVIOUS
    <3> QED
      BY <3>1
  <2>11. PICK c \in Seq(Incoming) : c = (q \o h) \o w
    BY <2>15
  <2>12. Coming(s) = c
    BY <2>4, <2>5, <2>6, <2>11 DEF Coming
  <2>13. \A i \in 1 .. Len(c) : c[i] = t[(Len(t) - 0 - Len(c)) + i]
    BY <2>10, <2>11 DEF Within
  <2>14. Len(t) - 0 - Len(c) = Taken(s)
    <3>1. Taken(s) = Len(t) - Len(c)
      BY <2>7, <2>12 DEF Taken
    <3> QED
      BY <3>1
  <2> QED
    BY <2>2, <2>3, <2>7, <2>12, <2>13, <2>14 DEF UpTo
<1> QED
  BY <1>1, <1>2

\* The sessions' state is well typed; the reader of a session holds at most one
\* message, and its queue never outgrows its depth (runtime.rs:213).
THEOREM ClientType == Spec => []TypeOK
BY AlwaysRInv, PTL DEF RInv

\* What SAM asks on a connection is answered on that connection, once and in
\* order, and nothing is lost between the reader task and the main loop, though
\* the readers of earlier sessions still run (runtime.rs:213-222).
THEOREM AnswersInStep == Spec => []RequestsInStep
BY AlwaysRInv, StepIsKept, PTL

\* The mode a heartbeat reports was announced or ordered on the connection on
\* which it is sent (runtime.rs:43-45, :210-226).
THEOREM OrdersAreReported == Spec => []ReportsOnlyOrders
<1>1. RInv => ReportsOnlyOrders
  BY DEF RInv, Reported, Orders, ReportsOnlyOrders
<1> QED
  BY <1>1, AlwaysRInv, PTL
=============================================================================
