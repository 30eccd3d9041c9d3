------------------------------ MODULE Bootstrap ------------------------------
(***************************************************************************)
(* scenario_bootstrap/main.c: a process that starts the server and the     *)
(* clients of a scenario, waits for one client after the other, kills those*)
(* that take too long, and stops the server.                               *)
(*                                                                         *)
(* fork may fail; client_pids then holds -1, which waitpid and kill take   *)
(* for "any child" and "every process".  The other modules say what the    *)
(* server and the clients do; here they end at any time or not at all.     *)
(***************************************************************************)
EXTENDS Integers

CONSTANTS
  ClientCount,            \* clients of the scenario, at most MAX_CLIENTS
  CLIENT_TIMEOUT_SECONDS

ASSUME CountAssumption == ClientCount \in Nat
ASSUME TimeoutAssumption == CLIENT_TIMEOUT_SECONDS \in Nat \ {0}

VARIABLES
  main,         \* where main is
  i,            \* the client it is starting or waiting for
  client_pids,  \* their pids: the index of the client stands for it
  elapsed,      \* time(NULL) - start_time
  proc,         \* its child processes
  report        \* what it has printed about each client

bsvars == <<main, i, client_pids, elapsed, proc, report>>

Client == 1 .. ClientCount
Server == 0
Process == Client \cup {Server}

NoPid == -1   \* fork failed
Unset == -2   \* fork was not called yet

MainPlace == {"starting_server", "starting", "waiting", "terminating", "killing",
              "reaping", "exited"}

(* "termed" and "killed": SIGTERM and SIGKILL were sent.                   *)
Status == {"none", "running", "termed", "killed", "zombie", "reaped"}

Alive == {p \in Process : proc[p] \in {"running", "termed", "killed"}}

Init ==
  /\ main = "starting_server"
  /\ i = 1
  /\ client_pids = [c \in Client |-> Unset]
  /\ elapsed = 0
  /\ proc = [p \in Process |-> "none"]
  /\ report = [c \in Client |-> "none"]

-----------------------------------------------------------------------------
(* Without a server main returns at once.                                  *)
StartServer ==
  /\ main = "starting_server"
  /\ \/ main' = "exited" /\ UNCHANGED proc
     \/ main' = "starting" /\ proc' = [proc EXCEPT ![Server] = "running"]
  /\ UNCHANGED <<i, client_pids, elapsed, report>>

StartClient ==
  /\ main = "starting" /\ i \in Client
  /\ \/ /\ client_pids' = [client_pids EXCEPT ![i] = i]
        /\ proc' = [proc EXCEPT ![i] = "running"]
     \/ client_pids' = [client_pids EXCEPT ![i] = NoPid] /\ UNCHANGED proc
  /\ i' = i + 1
  /\ UNCHANGED <<main, elapsed, report>>

(* (Mutant: one client is left out.)                                       *)
Started_OneShort == i >= ClientCount

Started == i \notin Client

AllStarted ==
  /\ main = "starting" /\ Started
  /\ main' = "waiting"
  /\ i' = 1
  /\ UNCHANGED <<client_pids, elapsed, proc, report>>

-----------------------------------------------------------------------------
(* waitpid(pid) looks at the children it names: all, if pid is -1.         *)
(* (Mutant: at all children, whatever it is given.)                        *)
Named_Any(pid) == {p \in Process : proc[p] \notin {"none", "reaped"}}

Named(pid) ==
  {p \in Process : (pid = NoPid \/ p = pid) /\ proc[p] \notin {"none", "reaped"}}

Zombies(pid) == {p \in Named(pid) : proc[p] = "zombie"}

(* What it reaps: one that has ended, if there is one.                     *)
Reapable(pid) == IF Zombies(pid) = {} THEN {{}} ELSE {{p} : p \in Zombies(pid)}

(* Without WNOHANG it blocks until it has one, unless there is no child.   *)
(* (Mutant: it is given WNOHANG.)                                          *)
Returns_AtOnce(pid) == TRUE

Returns(pid) == Named(pid) = {} \/ Zombies(pid) # {}

(* kill(pid) is for every process, if pid is -1.  (Mutant: for all the     *)
(* children of main, as if pid was that of their group.)                   *)
Targets_Group(pid) == Alive

Targets(pid) == {p \in Alive : pid = NoPid \/ p = pid}

After(status, P) == [p \in Process |-> IF p \in P THEN status ELSE proc[p]]

Reap(P) == proc' = After("reaped", P)

(* wait_for_client returns; main calls it for the next client.             *)
Return(what) ==
  /\ report' = [report EXCEPT ![i] = what]
  /\ main' = "waiting"
  /\ i' = i + 1
  /\ elapsed' = 0
  /\ UNCHANGED client_pids

Waiting(pid) == main = "waiting" /\ i \in Client /\ pid = client_pids[i]

(* The client has ended.                                                   *)
Finished(pid) ==
  /\ Waiting(pid)
  /\ pid \in Zombies(pid)
  /\ Reap({pid})
  /\ Return("finished")

(* waitpid returns -1: there is no such child.  If fork had returned -1,   *)
(* that looks like the end of the client.                                  *)
NoChild(pid) ==
  /\ Waiting(pid)
  /\ Named(pid) = {}
  /\ Return(IF pid = NoPid THEN "finished" ELSE "failed")
  /\ UNCHANGED proc

(* The time of a client is measured from the start of its own wait.        *)
(* (Mutant: from the last poll.)                                           *)
Later_Restarted == {0}

Later == elapsed + 1 .. CLIENT_TIMEOUT_SECONDS

TimeUp == elapsed >= CLIENT_TIMEOUT_SECONDS

(* The poll finds nothing, or reaps another child for the pid -1.          *)
Poll(pid) ==
  /\ Waiting(pid)
  /\ Named(pid) # {} /\ pid \notin Zombies(pid)
  /\ ~TimeUp
  /\ \E P \in Reapable(pid) : Reap(P)
  /\ elapsed' \in Later
  /\ UNCHANGED <<main, i, client_pids, report>>

GiveUp(pid) ==
  /\ Waiting(pid)
  /\ Named(pid) # {} /\ pid \notin Zombies(pid)
  /\ TimeUp
  /\ \E P \in Reapable(pid) :
       proc' = [p \in Process |-> IF p \in P THEN "reaped"
                                 ELSE IF p \in Targets(pid) THEN "termed"
                                 ELSE proc[p]]
  /\ main' = "terminating"
  /\ UNCHANGED <<i, client_pids, elapsed, report>>

(* A second after SIGTERM.                                                 *)
Kill(pid) ==
  /\ main = "terminating" /\ pid = client_pids[i]
  /\ ~Returns(pid)
  /\ proc' = After("killed", Targets(pid))
  /\ main' = "killing"
  /\ UNCHANGED <<i, client_pids, elapsed, report>>

(* It has ended of SIGTERM by then, or later of SIGKILL.                   *)
Killed(pid) ==
  /\ main \in {"terminating", "killing"} /\ pid = client_pids[i]
  /\ Returns(pid)
  /\ \E P \in Reapable(pid) : Reap(P)
  /\ Return("killed")

WaitForClient ==
  \E pid \in Client \cup {NoPid} :
    \/ Finished(pid) \/ NoChild(pid) \/ Poll(pid)
    \/ GiveUp(pid) \/ Kill(pid) \/ Killed(pid)

-----------------------------------------------------------------------------
StopServer ==
  /\ main = "waiting" /\ i \notin Client
  /\ proc' = After("termed", Targets(Server))
  /\ main' = "reaping"
  /\ UNCHANGED <<i, client_pids, elapsed, report>>

ReapServer ==
  /\ main = "reaping"
  /\ Returns(Server)
  /\ \E P \in Reapable(Server) : Reap(P)
  /\ main' = "exited"
  /\ UNCHANGED <<i, client_pids, elapsed, report>>

(* A child ends, by itself or of a signal.  The server may be slow to obey *)
(* SIGTERM, or not obey it at all (module MessageRing).                    *)
End(p) ==
  /\ p \in Alive
  /\ proc' = [proc EXCEPT ![p] = "zombie"]
  /\ UNCHANGED <<main, i, client_pids, elapsed, report>>

EndOfSignal(p) ==
  proc[p] \in (IF p = Server THEN {"killed"} ELSE {"termed", "killed"}) /\ End(p)

MainStep ==
  StartServer \/ StartClient \/ AllStarted \/ WaitForClient \/ StopServer
  \/ ReapServer

Next == MainStep \/ \E p \in Process : End(p)

(* The kernel runs main and delivers signals: a client has no handler for  *)
(* SIGTERM, and nothing survives SIGKILL.  Nothing else makes a child end. *)
Fairness ==
  WF_bsvars(MainStep) /\ \A p \in Process : WF_bsvars(EndOfSignal(p))

Spec == Init /\ [][Next]_bsvars /\ Fairness

-----------------------------------------------------------------------------
(* Every variable stays in its type, and no pid is used that fork has not  *)
(* set.                                                                    *)
TypeOK ==
  /\ main \in MainPlace
  /\ i \in 1 .. ClientCount + 1
  /\ DOMAIN client_pids = Client
  /\ \A c \in Client : client_pids[c] \in {c, NoPid, Unset}
  /\ elapsed \in 0 .. CLIENT_TIMEOUT_SECONDS
  /\ proc \in [Process -> Status]
  /\ report \in [Client -> {"none", "finished", "failed", "killed"}]
  /\ main \in {"waiting", "terminating", "killing", "reaping"} =>
       \A c \in Client : client_pids[c] # Unset

(* main.c:227, "Scenario finished": when main returns it leaves no process *)
(* behind, neither running nor unreaped, whatever forks have failed and    *)
(* whatever was reaped while it waited for something else.                 *)
NothingLeftBehind ==
  main = "exited" => \A p \in Process : proc[p] \in {"none", "reaped"}

AllForked == \A c \in Client : client_pids[c] # NoPid

(* If no fork failed, what ends a client is its own time, and the server is*)
(* told to stop when it has no clients left.                               *)
SignalsAreMeant ==
  [][AllForked =>
       \A p \in Process :
         p \in Alive /\ proc'[p] \notin {proc[p], "zombie"} =>
           IF p = Server THEN \A c \in Client : proc[c] = "reaped"
                         ELSE p = i /\ TimeUp]_bsvars

(* If no fork failed, what is printed about a client is what has become of *)
(* it: no other wait has taken its status.                                 *)
ReportsAreTrue ==
  AllForked =>
    \A c \in Client : /\ report[c] # "failed"
                      /\ report[c] # "none" <=> proc[c] = "reaped"

(* main gets as far as the wait for the server, whether clients end or not *)
(* and forks fail or not.                                                  *)
ServerIsStopped == <>(main \in {"reaping", "exited"})
=============================================================================
