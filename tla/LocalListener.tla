---------------------------- MODULE LocalListener ----------------------------
(***************************************************************************)
(* sam_transport::LocalListener and connect, on both platforms, and the    *)
(* processes around them: SAM processes that start, shut down or crash,    *)
(* applications that connect again and again, and the service manager that *)
(* README.md:49 charges with removing a stale socket file.                 *)
(*                                                                         *)
(* On Unix the endpoint is a path, which outlives the process that bound   *)
(* it.  On Windows it is the name of pipe instances, which the system      *)
(* closes with the process, and each of which serves one client.           *)
(***************************************************************************)
CONSTANTS
  Sam,        \* Bound: the processes, each of which runs once.
  Client,     \* Bound: the processes that connect.
  Nobody      \* None of them.

ASSUME NobodyAssumption ==
  /\ Nobody \notin Sam \cup Client
  /\ {"none", "armed"} \cap Client = {}

VARIABLES
  platform,   \* cfg(unix) or cfg(windows)
  at,         \* How far each SAM process has come.
  path,       \* Unix: whose socket the file at the endpoint's path is.
  pending,    \* Windows: each listener's pending instance, or the client that opened it.
  attempt,    \* How far each client's connect has come.
  peer,       \* The process at the other end of a client's stream.
  confirmed   \* The service manager has found the file and no SAM running.

serverVars == <<at, path, pending>>
clientVars == <<attempt, peer>>
vars == <<platform, serverVars, clientVars, confirmed>>

Running(p) == at[p] \in {"bound", "dropped"}

Unix == platform = "unix"

Waiting(p) == {c \in Client : attempt[c] = "opened" /\ peer[c] = p}

TypeOK ==
  /\ platform \in {"unix", "windows"}
  /\ at \in [Sam -> {"new", "bound", "dropped", "ended", "crashed"}]
  /\ path \in Sam \cup {Nobody}
  /\ pending \in [Sam -> {"none", "armed"} \cup Client]
  /\ attempt \in [Client -> {"idle", "connecting", "opened", "accepted"}]
  /\ peer \in [Client -> Sam \cup {Nobody}]
  /\ confirmed \in BOOLEAN
  /\ \A c \in Client : peer[c] = Nobody <=> attempt[c] \in {"idle", "connecting"}
  /\ \A p \in Sam :
       /\ ~Unix /\ at[p] = "bound" =>
            Waiting(p) = IF pending[p] = "armed" THEN {} ELSE {pending[p]}
       /\ pending[p] # "none" <=> ~Unix /\ at[p] = "bound"

Init ==
  /\ platform \in {"unix", "windows"}
  /\ at = [p \in Sam |-> "new"]
  /\ path = Nobody
  /\ pending = [p \in Sam |-> "none"]
  /\ attempt = [c \in Client |-> "idle"]
  /\ peer = [c \in Client |-> Nobody]
  /\ confirmed = FALSE

-----------------------------------------------------------------------------
\* LocalListener::bind, and the process that ends when it fails

\* The file exists, or first_pipe_instance finds an instance, pending or served.
InUse ==
  IF Unix THEN path # Nobody
  ELSE \E q \in Sam : at[q] = "bound" \/ \E c \in Client : peer[c] = q

\* Fault: an existing file is unlinked first, and an existing pipe is joined.
Bind_Takes(p) ==
  /\ at[p] = "new"
  /\ at' = [at EXCEPT ![p] = "bound"]
  /\ IF Unix THEN path' = p /\ UNCHANGED pending
             ELSE pending' = [pending EXCEPT ![p] = "armed"] /\ UNCHANGED path
  /\ UNCHANGED <<platform, clientVars, confirmed>>

Bind(p) ==
  /\ at[p] = "new"
  /\ IF InUse
       THEN at' = [at EXCEPT ![p] = "ended"] /\ UNCHANGED <<path, pending>>
       ELSE /\ at' = [at EXCEPT ![p] = "bound"]
            /\ IF Unix THEN path' = p /\ UNCHANGED pending
                       ELSE pending' = [pending EXCEPT ![p] = "armed"] /\ UNCHANGED path
  /\ UNCHANGED <<platform, clientVars, confirmed>>

-----------------------------------------------------------------------------
\* LocalListener::accept

\* Fault: the instance that was handed out stays the pending one.
Accept_NotRearmed(p, c) ==
  /\ at[p] = "bound"
  /\ c \in Waiting(p)
  /\ attempt' = [attempt EXCEPT ![c] = "accepted"]
  /\ UNCHANGED <<platform, serverVars, peer, confirmed>>

Accept(p, c) ==
  /\ at[p] = "bound"
  /\ c \in Waiting(p)
  /\ attempt' = [attempt EXCEPT ![c] = "accepted"]
  /\ pending' = IF Unix THEN pending ELSE [pending EXCEPT ![p] = "armed"]
  /\ UNCHANGED <<platform, at, path, peer, confirmed>>

-----------------------------------------------------------------------------
\* The end of a process

\* Fault: nothing is done when the listener is dropped.
Drop_LeavesFile(p) ==
  /\ at[p] = "bound"
  /\ at' = [at EXCEPT ![p] = "dropped"]
  /\ pending' = [pending EXCEPT ![p] = "none"]
  /\ UNCHANGED <<platform, path, clientVars, confirmed>>

\* main returns (quit, end of input, end of the script) or accept fails; the
\* listener is dropped and removes the file at its path, whoever's it is.
Drop(p) ==
  /\ at[p] = "bound"
  /\ at' = [at EXCEPT ![p] = "dropped"]
  /\ path' = Nobody
  /\ pending' = [pending EXCEPT ![p] = "none"]
  /\ UNCHANGED <<platform, clientVars, confirmed>>

\* The process is gone, and with it its ends of all streams and instances.
Vanish(p, how) ==
  /\ at' = [at EXCEPT ![p] = how]
  /\ pending' = [pending EXCEPT ![p] = "none"]
  /\ peer' = [c \in Client |-> IF peer[c] = p THEN Nobody ELSE peer[c]]
  /\ attempt' = [c \in Client |-> IF peer[c] = p THEN "idle" ELSE attempt[c]]
  /\ UNCHANGED <<platform, path, confirmed>>

Exit(p) == at[p] = "dropped" /\ Vanish(p, "ended")

\* A signal too: main handles none, so that no destructor runs.
Crash(p) == Running(p) /\ Vanish(p, "crashed")

-----------------------------------------------------------------------------
\* connect, and ApplicationRuntime::run around it

Start(c) ==
  /\ attempt[c] = "idle"
  /\ attempt' = [attempt EXCEPT ![c] = "connecting"]
  /\ UNCHANGED <<platform, serverVars, peer, confirmed>>

\* A listening socket at the path, or an instance without a client.
CanOpen(p) == at[p] = "bound" /\ IF Unix THEN path = p ELSE pending[p] = "armed"

Open(c, p) ==
  /\ attempt[c] = "connecting"
  /\ CanOpen(p)
  /\ attempt' = [attempt EXCEPT ![c] = "opened"]
  /\ peer' = [peer EXCEPT ![c] = p]
  /\ pending' = IF Unix THEN pending ELSE [pending EXCEPT ![p] = c]
  /\ UNCHANGED <<platform, at, path, confirmed>>

\* Unix: no file, or nobody listens.  Windows: no instance, or all are busy,
\* until CONNECT_TIMEOUT.
Fail(c) ==
  /\ attempt[c] = "connecting"
  /\ \A p \in Sam : ~CanOpen(p)
  /\ attempt' = [attempt EXCEPT ![c] = "idle"]
  /\ UNCHANGED <<platform, serverVars, peer, confirmed>>

-----------------------------------------------------------------------------
\* The service manager

Confirm ==
  /\ Unix /\ path # Nobody
  /\ \A p \in Sam : ~Running(p)
  /\ confirmed' = TRUE
  /\ UNCHANGED <<platform, serverVars, clientVars>>

RemoveStale ==
  /\ confirmed
  /\ path' = Nobody
  /\ confirmed' = FALSE
  /\ UNCHANGED <<platform, at, pending, clientVars>>

-----------------------------------------------------------------------------
Next ==
  \/ \E p \in Sam :
       \/ Bind(p) \/ Drop(p) \/ Exit(p) \/ Crash(p)
       \/ \E c \in Client : Accept(p, c) \/ Open(c, p)
  \/ \E c \in Client : Start(c) \/ Fail(c)
  \/ Confirm \/ RemoveStale

\* The accept loop runs, a process that is ending ends, and the runtime goes on
\* connecting; whether a process is started, ends or is cleaned up after is
\* left open.
Fairness ==
  /\ \A p \in Sam : WF_vars(Exit(p))
  /\ \A c \in Client :
       /\ WF_vars(Start(c))
       /\ WF_vars(\E p \in Sam : Open(c, p))
       /\ WF_vars(\E p \in Sam : Accept(p, c))

Spec == Init /\ [][Next]_vars /\ Fairness

-----------------------------------------------------------------------------
\* Properties

\* windows.rs:30-32: "two SAM servers can't silently share one pipe", and the
\* same of a path; and the one that has the endpoint can be reached there: no
\* destructor of an earlier process and no cleaning up takes it away.
OneReachableListener ==
  \A p \in Sam : at[p] = "bound" =>
    /\ \A q \in Sam \ {p} : at[q] # "bound"
    /\ Unix => path = p

\* README.md:46-47: "a clean shutdown never leaves a stale path behind".  Only
\* a crash does, whichever processes started and ended in between.
StaleOnlyByCrash == \A p \in Sam : path = p => at[p] \in {"bound", "crashed"}

\* Once a SAM process is there to stay, every application gets to it in the
\* end, whatever was left behind by its predecessors and however many others
\* want the one pending pipe instance.
ClientsAreServed ==
  \A p \in Sam : <>[](at[p] = "bound") => \A c \in Client : <>[](attempt[c] = "accepted" /\ peer[c] = p)
=============================================================================
