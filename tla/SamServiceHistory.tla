--------------------------- MODULE SamServiceHistory ---------------------------
(***************************************************************************)
(* SamService with a memory: who was asked for each transition, which      *)
(* answers were accepted, and which messages of the mode protocol were     *)
(* queued for anyone.  The service keeps none of this once a transition is *)
(* over; the properties here relate its verdicts and its mode to what was  *)
(* really said, across disconnections, replacements, late joiners and      *)
(* messages dropped by a full queue.                                       *)
(***************************************************************************)
EXTENDS SamService

ASSUME HistoryAssumption == MaxTransition + 1 < IdSpace   \* no id wraps

VARIABLES
  asked,     \* transition -> the participants of its request
  answers,   \* <<application, transition, "ready" | "rejected" | "committed">>
  heard      \* the Prepare-, Commit- and AbortMode queued for somebody

historyVars == <<vars, asked, answers, heard>>

Transition == 1 .. MaxTransition

HInit ==
  /\ Init
  /\ asked = [t \in Transition |-> {}]
  /\ answers = {}
  /\ heard = {}

\* What this step appended to the queue of the connection that a keeps.
Appended(a) ==
  IF /\ a \in Connected \cap DOMAIN clients'
     /\ clients'[a].id = clients[a].id
     /\ Len(clients'[a].outbound) > Len(clients[a].outbound)
    THEN {clients'[a].outbound[Len(clients'[a].outbound)]}
    ELSE {}

Remember ==
  heard' = heard \cup
    {m \in UNION {Appended(a) : a \in App} : m.type \in {"PrepareMode", "CommitMode", "AbortMode"}}

Answered(a, t, kind) ==
  /\ answers' = answers \cup {<<a, t, kind>>}
  /\ UNCHANGED asked

Answers(a, c, t, wait) ==
  \/ HandleModeReady(a, c, ModeReady(a, t)) /\ Answered(a, t, "ready")
  \/ HandleModeRejected(a, c, ModeRejected(a, t)) /\ Answered(a, t, "rejected")
  \/ \E m \in ReportedMode :
       HandleModeCommitted(a, c, ModeCommitted(a, t, m), wait) /\ Answered(a, t, "committed")

Asks(m) ==
  /\ RequestMode(m)
  /\ asked' = [asked EXCEPT ![nextTransitionId] = Connected]
  /\ UNCHANGED answers

Elsewhere ==
  \/ \E wait \in LockWait, a \in App :
       \/ Register(a, wait)
       \/ \E c \in ConnectionId :
            \/ Disconnect(a, c, wait)
            \/ \E h \in ReportedHealth, m \in ReportedMode :
                 HandleHeartbeat(a, c, Heartbeat(a, h, m), wait)
  \/ \E wait \in LockWait : RefreshHealth(wait)
  \/ \E a \in App : Take(a)

HNext ==
  /\ \/ \E wait \in LockWait, a \in App, c \in ConnectionId, t \in Transition :
          Answers(a, c, t, wait)
     \/ \E m \in RequestedMode : Asks(m)
     \/ Elsewhere /\ UNCHANGED <<asked, answers>>
  /\ Remember

HSpec == HInit /\ [][HNext]_historyVars

-----------------------------------------------------------------------------
\* Properties

Commanded(type, t) == \E e \in heard : e.type = type /\ e.id = t

\* No transition is both committed and aborted, whoever the
\* messages were queued for: the outcome is all or nothing even when some applications
\* disconnect, are replaced, join late or miss a message.
OneVerdict ==
  \A t \in Transition : ~(Commanded("CommitMode", t) /\ Commanded("AbortMode", t))

\* README.md:20-24, step 3: CommitMode is sent only if everyone who was asked
\* has said ready, and AbortMode only if someone who was asked refused and
\* nobody has committed anything.  Each names a transition that was requested.
VerdictsAreEarned ==
  /\ \A e \in heard : e.id \in Transition /\ asked[e.id] # {}
  /\ \A t \in Transition :
    /\ Commanded("CommitMode", t) => \A a \in asked[t] : <<a, t, "ready">> \in answers
    /\ Commanded("AbortMode", t) =>
         /\ \E a \in asked[t] : <<a, t, "rejected">> \in answers
         /\ \A a \in App : <<a, t, "committed">> \notin answers

\* README.md:65-66: the announced mode moves only to the target of a transition
\* whose every participant said ready and committed, and it does so in the
\* step that accepts the last of these answers.
ModeChangesByConsent ==
  [][systemMode' # systemMode =>
       \E t \in Transition :
         /\ asked[t] # {}
         /\ \A a \in asked[t] : {<<a, t, "ready">>, <<a, t, "committed">>} \subseteq answers'
         /\ \E a \in asked[t] : <<a, t, "committed">> \notin answers]_historyVars
=============================================================================
