------------------------- MODULE LocalListenerProofs -------------------------
(***************************************************************************)
(* The safety of LocalListener, for any number of processes and clients on *)
(* either platform: its three invariants are inductive together with the   *)
(* two facts below.                                                        *)
(***************************************************************************)
EXTENDS LocalListener, TLAPS

\* Nobody's stream leads to a process that has not started or is gone.
PeersRun == \A c \in Client, p \in Sam : peer[c] = p => Running(p)

\* What the service manager found stays true until it acts on it: the file it
\* is about to remove keeps every new process from starting.
StillStale == confirmed => Unix /\ path # Nobody /\ \A p \in Sam : ~Running(p)

LInv == TypeOK /\ OneReachableListener /\ StaleOnlyByCrash /\ PeersRun /\ StillStale

LEMMA InitLInv == Init => LInv
<1> SUFFICES ASSUME Init PROVE LInv
  OBVIOUS
<1> USE NobodyAssumption DEF Init
<1>1. /\ \A p \in Sam : at[p] = "new" /\ pending[p] = "none"
      /\ \A c \in Client : attempt[c] = "idle" /\ peer[c] = Nobody
  OBVIOUS
<1>2. TypeOK
  BY <1>1 DEF TypeOK, Unix
<1>3. OneReachableListener /\ StaleOnlyByCrash /\ PeersRun /\ StillStale
  BY <1>1 DEF OneReachableListener, StaleOnlyByCrash, PeersRun, StillStale
<1> QED BY <1>2, <1>3 DEF LInv

\* Only bind makes a listener, and it makes none where there is one.
LEMMA BindLInv == ASSUME LInv, NEW p \in Sam, Bind(p) PROVE LInv'
<1> USE NobodyAssumption DEF LInv, Bind, clientVars, Running, Unix
<1>1. CASE InUse
  BY <1>1 DEF TypeOK, OneReachableListener, StaleOnlyByCrash, PeersRun, StillStale, Waiting
<1>2. CASE ~InUse
  <2>1. /\ \A q \in Sam : at[q] # "bound"
        /\ Unix => path = Nobody
        /\ \A c \in Client : peer[c] # p
    BY <1>2 DEF InUse, OneReachableListener, PeersRun
  <2>2. TypeOK'
    <3>1. \A q \in Sam : Waiting(q)' = Waiting(q)
      BY <1>2 DEF Waiting
    <3>2. Waiting(p) = {}
      BY <2>1 DEF Waiting
    <3> QED BY <1>2, <2>1, <3>1, <3>2 DEF TypeOK
  <2>3. OneReachableListener' /\ StaleOnlyByCrash'
    BY <1>2, <2>1 DEF TypeOK, OneReachableListener, StaleOnlyByCrash
  <2>4. PeersRun' /\ StillStale'
    BY <1>2, <2>1 DEF TypeOK, PeersRun, StillStale
  <2> QED BY <2>2, <2>3, <2>4
<1> QED BY <1>1, <1>2

\* On Windows the client that is accepted is the one in the pending instance.
LEMMA AcceptLInv == ASSUME LInv, NEW p \in Sam, NEW c \in Client, Accept(p, c) PROVE LInv'
<1> USE NobodyAssumption DEF LInv, Accept, Running, Unix
<1>1. TypeOK'
  <2>1. Waiting(p)' = Waiting(p) \ {c}
    BY DEF Waiting, TypeOK
  <2>2. \A q \in Sam \ {p} : Waiting(q)' = Waiting(q)
    BY DEF Waiting, TypeOK
  <2>3. ~Unix => Waiting(p)' = {}
    BY <2>1 DEF TypeOK
  <2> QED BY <2>2, <2>3 DEF TypeOK, Waiting
<1>2. OneReachableListener' /\ StaleOnlyByCrash' /\ PeersRun' /\ StillStale'
  BY DEF OneReachableListener, StaleOnlyByCrash, PeersRun, StillStale
<1> QED BY <1>1, <1>2

\* The only listener there is loses the file that is its own.
LEMMA DropLInv == ASSUME LInv, NEW p \in Sam, Drop(p) PROVE LInv'
<1> USE NobodyAssumption DEF LInv, Drop, clientVars, Running, Unix
<1>1. \A q \in Sam : Waiting(q)' = Waiting(q)
  BY DEF Waiting
<1>2. TypeOK'
  BY <1>1 DEF TypeOK
<1>3. OneReachableListener' /\ StaleOnlyByCrash' /\ PeersRun' /\ StillStale'
  BY DEF TypeOK, OneReachableListener, StaleOnlyByCrash, PeersRun, StillStale
<1> QED BY <1>2, <1>3

\* A process that ends has no file left, except by a crash.
LEMMA VanishLInv ==
  ASSUME LInv, NEW p \in Sam, Exit(p) \/ Crash(p)
  PROVE  LInv'
<1> USE NobodyAssumption DEF LInv, Exit, Crash, Vanish, Running, Unix
<1>1. \A q \in Sam \ {p} : Waiting(q)' = Waiting(q)
  BY DEF Waiting, TypeOK
<1>2. TypeOK'
  BY <1>1 DEF TypeOK
<1>3. OneReachableListener' /\ StaleOnlyByCrash' /\ PeersRun' /\ StillStale'
  BY DEF TypeOK, OneReachableListener, StaleOnlyByCrash, PeersRun, StillStale
<1> QED BY <1>2, <1>3

\* The pending instance goes to the client that opens it.
LEMMA OpenLInv == ASSUME LInv, NEW p \in Sam, NEW c \in Client, Open(c, p) PROVE LInv'
<1> USE NobodyAssumption DEF LInv, Open, CanOpen, Running, Unix
<1>1. Waiting(p)' = Waiting(p) \cup {c}
  BY DEF Waiting, TypeOK
<1>2. \A q \in Sam \ {p} : Waiting(q)' = Waiting(q)
  BY DEF Waiting, TypeOK
<1>3. TypeOK'
  BY <1>1, <1>2 DEF TypeOK
<1>4. OneReachableListener' /\ StaleOnlyByCrash' /\ PeersRun' /\ StillStale'
  BY DEF TypeOK, OneReachableListener, StaleOnlyByCrash, PeersRun, StillStale
<1> QED BY <1>3, <1>4

LEMMA ConnectLInv == ASSUME LInv, NEW c \in Client, Start(c) \/ Fail(c) PROVE LInv'
<1> USE NobodyAssumption DEF LInv, Start, Fail, serverVars, Running, Unix
<1>1. \A q \in Sam : Waiting(q)' = Waiting(q)
  BY DEF Waiting, TypeOK
<1>2. TypeOK'
  BY <1>1 DEF TypeOK
<1>3. OneReachableListener' /\ StaleOnlyByCrash' /\ PeersRun' /\ StillStale'
  BY DEF OneReachableListener, StaleOnlyByCrash, PeersRun, StillStale
<1> QED BY <1>2, <1>3

LEMMA ManagerLInv == ASSUME LInv, Confirm \/ RemoveStale PROVE LInv'
<1> USE NobodyAssumption DEF LInv, Confirm, RemoveStale, serverVars, clientVars, Running, Unix
<1>1. \A q \in Sam : Waiting(q)' = Waiting(q)
  BY DEF Waiting
<1>2. TypeOK'
  BY <1>1 DEF TypeOK
<1>3. OneReachableListener' /\ StaleOnlyByCrash' /\ PeersRun' /\ StillStale'
  BY DEF OneReachableListener, StaleOnlyByCrash, PeersRun, StillStale
<1> QED BY <1>2, <1>3

LEMMA NextLInv == LInv /\ [Next]_vars => LInv'
<1> SUFFICES ASSUME LInv, [Next]_vars PROVE LInv'
  OBVIOUS
<1>1. CASE Next
  BY <1>1, BindLInv, AcceptLInv, DropLInv, VanishLInv, OpenLInv, ConnectLInv, ManagerLInv DEF Next
<1>2. CASE UNCHANGED vars
  BY <1>2
  DEF vars, serverVars, clientVars, LInv, TypeOK, OneReachableListener, StaleOnlyByCrash,
      PeersRun, StillStale, Running, Unix, Waiting
<1> QED BY <1>1, <1>2

\* However many SAM processes start, end and crash in whatever order, and
\* whatever the service manager removes, the endpoint is in one of its states.
THEOREM ListenerType == Spec => []TypeOK
<1>1. Spec => []LInv
  BY InitLInv, NextLInv, PTL DEF Spec
<1>2. LInv => TypeOK
  BY DEF LInv
<1> QED BY <1>1, <1>2, PTL

\* Two processes never listen at once, the one that does owns the file at its
\* path, and on Windows the pending instance is what the waiting client has
\* opened.
THEOREM ListenerSafe == Spec => []OneReachableListener
<1>1. Spec => []LInv
  BY InitLInv, NextLInv, PTL DEF Spec
<1>2. LInv => OneReachableListener
  BY DEF LInv
<1> QED BY <1>1, <1>2, PTL

\* Only a crash leaves a file behind: a process that ended by itself, or that
\* was refused, never owns the file at the path.
THEOREM CleanShutdown == Spec => []StaleOnlyByCrash
<1>1. Spec => []LInv
  BY InitLInv, NextLInv, PTL DEF Spec
<1>2. LInv => StaleOnlyByCrash
  BY DEF LInv
<1> QED BY <1>1, <1>2, PTL
=============================================================================
