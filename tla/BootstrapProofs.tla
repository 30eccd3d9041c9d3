-------------------------- MODULE BootstrapProofs ---------------------------
(***************************************************************************)
(* The bootstrap for any number of clients and any timeout: it leaves no   *)
(* process behind, and if its forks succeed it reports and signals what it *)
(* means to.                                                               *)
(***************************************************************************)
EXTENDS Bootstrap, TLAPS

Waits == {"waiting", "terminating", "killing", "reaping"}

(* A client has a pid as soon as it has a process.                         *)
Forked ==
  /\ \A c \in Client : client_pids[c] = c <=> proc[c] # "none"
  /\ main = "starting_server" => i = 1 /\ proc[Server] = "none"
  /\ main \in {"starting_server", "starting"} =>
       \A c \in Client : /\ c >= i => client_pids[c] = Unset
                         /\ c < i => client_pids[c] # Unset
                         /\ proc[c] # "reaped" /\ report[c] = "none"

(* A wait ends with its client gone; only one that ends with a failed fork *)
(* may have taken another child with it.                                   *)
Waited ==
  /\ main \in Waits =>
       \A c \in Client : /\ c < i => proc[c] \in {"none", "reaped"}
                         /\ AllForked => (proc[c] = "reaped" <=> c < i)
  /\ main \in {"terminating", "killing"} => i \in Client /\ TimeUp
  /\ main = "reaping" => i = ClientCount + 1

BInv == TypeOK /\ Forked /\ Waited /\ NothingLeftBehind /\ ReportsAreTrue

-----------------------------------------------------------------------------
LEMMA InvInit == Init => BInv
<1> SUFFICES ASSUME Init PROVE BInv
  OBVIOUS
<1>1. TypeOK
  BY CountAssumption, TimeoutAssumption
     DEF Init, TypeOK, MainPlace, Status, Client
<1>2. Forked
  BY DEF Init, Forked, Client, Unset, Process, Server
<1>3. Waited /\ NothingLeftBehind /\ ReportsAreTrue
  BY DEF Init, Waited, Waits, NothingLeftBehind, ReportsAreTrue, Process
<1> QED
  BY <1>1, <1>2, <1>3 DEF BInv

LEMMA InvStart ==
  ASSUME BInv, StartServer \/ StartClient \/ AllStarted
  PROVE  BInv'
<1>1. CASE StartServer
  <2>1. TypeOK'
    BY <1>1 DEF StartServer, BInv, TypeOK, MainPlace, Status
  <2>2. Forked'
    BY <1>1 DEF StartServer, BInv, TypeOK, Forked, Client, Server, Process
  <2>3. Waited'
    BY <1>1 DEF StartServer, Waited, Waits
  <2>4. NothingLeftBehind'
    <3>1. main' = "exited" => \A p \in Process : proc'[p] = "none"
      BY <1>1 DEF StartServer, BInv, Forked, Process, Client, Unset
    <3> QED
      BY <3>1 DEF NothingLeftBehind
  <2>5. ReportsAreTrue'
    BY <1>1 DEF StartServer, BInv, TypeOK, Forked, ReportsAreTrue, AllForked,
                Client, Server, Process
  <2> QED
    BY <2>1, <2>2, <2>3, <2>4, <2>5 DEF BInv
<1>2. CASE StartClient
  <2>1. /\ main = "starting" /\ main' = main /\ i \in Client /\ i' = i + 1
        /\ UNCHANGED <<elapsed, report>>
    BY <1>2 DEF StartClient
  <2>2. \/ /\ client_pids' = [client_pids EXCEPT ![i] = i]
           /\ proc' = [proc EXCEPT ![i] = "running"]
        \/ client_pids' = [client_pids EXCEPT ![i] = NoPid] /\ proc' = proc
    BY <1>2 DEF StartClient
  <2>3. i \in Int /\ i \in Process /\ i # NoPid /\ i # Unset /\ i # Server
    BY <2>1 DEF Client, Process, NoPid, Unset, Server
  <2>4. /\ DOMAIN client_pids' = Client /\ client_pids'[i] \in {i, NoPid}
        /\ \A c \in Client \ {i} : client_pids'[c] = client_pids[c]
    BY <2>1, <2>2 DEF BInv, TypeOK
  <2>5. /\ proc' \in [Process -> Status]
        /\ \A p \in Process \ {i} : proc'[p] = proc[p]
        /\ client_pids'[i] = i <=> proc'[i] # "none"
        /\ proc'[i] # "reaped"
    <3>1. proc \in [Process -> Status] /\ proc[i] = "none"
      <4>1. i >= i /\ client_pids[i] = Unset
        BY <2>1, <2>3 DEF BInv, Forked
      <4> QED
        BY <2>1, <2>3, <4>1 DEF BInv, TypeOK, Forked
    <3> QED
      BY <2>1, <2>2, <2>3, <3>1 DEF BInv, TypeOK, Status
  <2>6. TypeOK'
    <3>1. \A c \in Client : client_pids'[c] \in {c, NoPid, Unset}
      BY <2>4 DEF BInv, TypeOK
    <3>2. i' \in 1 .. ClientCount + 1
      BY <2>1, CountAssumption DEF Client
    <3> QED
      BY <2>1, <2>4, <2>5, <3>1, <3>2 DEF BInv, TypeOK
  <2>7. Forked'
    <3>1. \A c \in Client : client_pids'[c] = c <=> proc'[c] # "none"
      BY <2>4, <2>5 DEF BInv, Forked, Process
    <3>2. ASSUME NEW c \in Client
          PROVE  /\ c >= i' => client_pids'[c] = Unset
                 /\ c < i' => client_pids'[c] # Unset
                 /\ proc'[c] # "reaped" /\ report'[c] = "none"
      <4>1. c \in Int /\ c \in Process
        BY DEF Client, Process
      <4>2. CASE c = i
        <5>1. client_pids'[c] # Unset /\ ~(c >= i')
          BY <2>1, <2>3, <2>4, <4>2 DEF NoPid, Unset
        <5> QED
          BY <2>1, <2>5, <4>2, <5>1 DEF BInv, Forked
      <4>3. CASE c # i
        <5>1. (c >= i' <=> c >= i) \/ c = i
          BY <2>1, <2>3, <4>1
        <5>2. c < i' => c < i
          BY <2>1, <2>3, <4>1, <4>3
        <5> QED
          BY <2>1, <2>4, <2>5, <4>1, <4>3, <5>1, <5>2 DEF BInv, Forked
      <4> QED
        BY <4>2, <4>3
    <3> QED
      BY <2>1, <3>1, <3>2 DEF Forked
  <2>8. Waited' /\ NothingLeftBehind'
    BY <2>1 DEF Waited, Waits, NothingLeftBehind
  <2>9. ReportsAreTrue'
    BY <2>1, <2>7 DEF Forked, ReportsAreTrue
  <2> QED
    BY <2>6, <2>7, <2>8, <2>9 DEF BInv
<1>3. CASE AllStarted
  <2>1. /\ main = "starting" /\ main' = "waiting" /\ i \notin Client /\ i' = 1
        /\ UNCHANGED <<client_pids, elapsed, proc, report>>
    BY <1>3 DEF AllStarted, Started
  <2>2. \A c \in Client : c < i
    BY <2>1, CountAssumption DEF BInv, TypeOK, Client
  <2>3. TypeOK'
    BY <2>1, <2>2, CountAssumption DEF BInv, TypeOK, Forked, Client, MainPlace
  <2>4. Forked'
    BY <2>1 DEF BInv, Forked
  <2>5. Waited'
    BY <2>1 DEF BInv, Forked, Waited, Waits, Client
  <2>6. NothingLeftBehind' /\ ReportsAreTrue'
    BY <2>1 DEF BInv, NothingLeftBehind, ReportsAreTrue, AllForked
  <2> QED
    BY <2>3, <2>4, <2>5, <2>6 DEF BInv
<1> QED
  BY <1>1, <1>2, <1>3

-----------------------------------------------------------------------------
(* Whom main waits for has a pid or no process, and is not reaped.         *)
LEMMA Awaited ==
  ASSUME BInv, main \in Waits, i \in Client
  PROVE  /\ client_pids[i] \in {i, NoPid} /\ i \in Process /\ i # NoPid
         /\ client_pids[i] = i => proc[i] # "none"
         /\ client_pids[i] = NoPid => proc[i] = "none" /\ ~AllForked
         /\ AllForked => client_pids[i] = i /\ proc[i] \notin {"none", "reaped"}
<1>1. client_pids[i] \in {i, NoPid}
  BY DEF BInv, TypeOK, Waits
<1>2. i \in Process /\ i # NoPid
  BY DEF Process, Client, NoPid
<1>3. ~(i < i)
  BY DEF Client
<1>4. AllForked => proc[i] # "reaped"
  BY <1>3 DEF BInv, Waited
<1> QED
  BY <1>1, <1>2, <1>4 DEF BInv, Forked, AllForked

(* waitpid reaps what has ended, and only whom it is given if that is a    *)
(* process.                                                                *)
LEMMA ReapsZombies ==
  ASSUME NEW pid, NEW P \in Reapable(pid)
  PROVE  /\ P \subseteq Process /\ \A p \in P : proc[p] = "zombie"
         /\ pid # NoPid => P \subseteq {pid}
         /\ Zombies(pid) # {} => P # {}
BY DEF Reapable, Zombies, Named

(* A step of a wait: what it does to the processes, and whether the client *)
(* is gone when it returns.                                                *)
LEMMA InvWaitStep ==
  ASSUME BInv, main \in Waits, i \in Client,
         proc' \in [Process -> Status],
         \A p \in Process : proc'[p] = "none" <=> proc[p] = "none",
         \A p \in Process : proc[p] = "reaped" => proc'[p] = "reaped",
         AllForked => \A p \in Process \ {i} : proc'[p] = "reaped" => proc[p] = "reaped",
         UNCHANGED client_pids, elapsed' \in 0 .. CLIENT_TIMEOUT_SECONDS,
         \/ /\ main' = "waiting" /\ i' = i + 1
            /\ proc'[i] \in {"none", "reaped"}
            /\ \E what \in {"finished", "failed", "killed"} :
                 /\ report' = [report EXCEPT ![i] = what]
                 /\ AllForked => what # "failed"
         \/ /\ main' \in {"waiting", "terminating", "killing"} /\ i' = i
            /\ main' # "waiting" => TimeUp'
            /\ report' = report
            /\ AllForked => proc'[i] # "reaped"
  PROVE  BInv'
<1>1. AllForked' <=> AllForked
  BY DEF AllForked
<1>2. main' \in Waits /\ main' \notin {"reaping", "exited"}
  BY DEF Waits
<1>3. TypeOK'
  BY <1>2, CountAssumption DEF BInv, TypeOK, Client, MainPlace, Waits
<1>4. Forked'
  BY <1>2 DEF BInv, Forked, Waits, Process
<1>5. ASSUME NEW c \in Client
      PROVE  /\ c < i' => proc'[c] \in {"none", "reaped"}
             /\ AllForked => (proc'[c] = "reaped" <=> c < i')
  <2>1. c \in Process /\ c \in Int /\ i \in Int
    BY DEF Process, Client
  <2>2. CASE c = i
    <3>1. AllForked => proc'[i] # "none"
      BY <2>1, <2>2, Awaited
    <3> QED
      BY <2>1, <2>2, <3>1
  <2>3. CASE c # i
    <3>1. c < i' <=> c < i
      BY <2>1, <2>3
    <3>2. /\ c < i => proc[c] \in {"none", "reaped"}
          /\ AllForked => (proc[c] = "reaped" <=> c < i)
      BY DEF BInv, Waited
    <3> QED
      BY <2>1, <2>3, <3>1, <3>2
  <2> QED
    BY <2>2, <2>3
<1>6. Waited'
  BY <1>1, <1>2, <1>5 DEF Waited
<1>7. NothingLeftBehind'
  BY <1>2 DEF NothingLeftBehind
<1>8. ReportsAreTrue'
  <2> SUFFICES ASSUME AllForked, NEW c \in Client
               PROVE  /\ report'[c] # "failed"
                      /\ report'[c] # "none" <=> proc'[c] = "reaped"
    BY <1>1 DEF ReportsAreTrue
  <2>1. report[c] # "failed" /\ (report[c] # "none" <=> proc[c] = "reaped")
    BY DEF BInv, ReportsAreTrue
  <2>2. report \in [Client -> {"none", "finished", "failed", "killed"}]
    BY DEF BInv, TypeOK
  <2>3. c \in Process
    BY DEF Process
  <2>4. CASE c # i
    BY <2>1, <2>2, <2>3, <2>4
  <2>5. CASE c = i
    <3>1. proc[i] \notin {"none", "reaped"}
      BY Awaited
    <3> QED
      BY <2>1, <2>2, <2>3, <2>5, <3>1
  <2> QED
    BY <2>4, <2>5
<1> QED
  BY <1>3, <1>4, <1>6, <1>7, <1>8 DEF BInv

LEMMA InvReturn ==
  ASSUME BInv, NEW pid, Finished(pid) \/ NoChild(pid) \/ Killed(pid)
  PROVE  BInv'
<1>1. /\ main \in {"waiting", "terminating", "killing"} /\ main \in Waits
      /\ i \in Client /\ pid = client_pids[i]
  BY DEF Finished, NoChild, Killed, Waiting, BInv, Waited, Waits
<1>2. PICK what \in {"finished", "failed", "killed"} :
        Return(what) /\ (what = "failed" => NoChild(pid))
  BY DEF Finished, NoChild, Killed
<1>3. /\ report' = [report EXCEPT ![i] = what] /\ main' = "waiting"
      /\ i' = i + 1 /\ elapsed' = 0 /\ UNCHANGED client_pids
  BY <1>2 DEF Return
<1>4. proc \in [Process -> Status]
  BY DEF BInv, TypeOK
<1>5. /\ pid \in {i, NoPid} /\ i \in Process /\ i # NoPid
      /\ pid = NoPid => proc[i] = "none" /\ ~AllForked
  BY <1>1, Awaited
<1>6. PICK P \in SUBSET Process :
        /\ proc' = After("reaped", P) /\ \A p \in P : proc[p] = "zombie"
        /\ pid # NoPid => P \subseteq {i}
        /\ pid # NoPid => i \in P \/ proc[i] \in {"none", "reaped"}
  <2>1. CASE Finished(pid)
    <3>1. proc' = After("reaped", {pid}) /\ proc[pid] = "zombie" /\ pid \in Process
      BY <2>1 DEF Finished, Reap, Zombies, Named
    <3>2. pid = i
      BY <1>5, <3>1 DEF NoPid, Process, Client, Server
    <3> QED
      BY <3>1, <3>2
  <2>2. CASE NoChild(pid)
    <3>1. proc' = After("reaped", {})
      BY <1>4, <2>2 DEF NoChild, After
    <3>2. pid # NoPid => proc[i] \in {"none", "reaped"}
      BY <1>5, <2>2 DEF NoChild, Named
    <3> QED
      BY <3>1, <3>2
  <2>3. CASE Killed(pid)
    <3>1. PICK Q \in Reapable(pid) : proc' = After("reaped", Q)
      BY <2>3 DEF Killed, Reap
    <3>2. /\ Q \subseteq Process /\ \A p \in Q : proc[p] = "zombie"
          /\ pid # NoPid => Q \subseteq {pid}
          /\ Zombies(pid) # {} => Q # {}
      BY <3>1, ReapsZombies
    <3>3. pid # NoPid => i \in Q \/ proc[i] \in {"none", "reaped"}
      BY <1>5, <2>3, <3>2 DEF Killed, Returns, Named
    <3> QED
      BY <1>5, <3>1, <3>2, <3>3
  <2> QED
    BY <2>1, <2>2, <2>3
<1>7. /\ proc' \in [Process -> Status]
      /\ \A p \in Process : proc'[p] = "none" <=> proc[p] = "none"
      /\ \A p \in Process : proc[p] = "reaped" => proc'[p] = "reaped"
      /\ AllForked =>
           \A p \in Process \ {i} : proc'[p] = "reaped" => proc[p] = "reaped"
      /\ proc'[i] \in {"none", "reaped"}
  BY <1>4, <1>5, <1>6 DEF After, Status
<1>8. AllForked => what # "failed"
  <2> SUFFICES ASSUME AllForked, NoChild(pid) PROVE FALSE
    BY <1>2
  <2>1. pid = i /\ proc[i] \notin {"none", "reaped"}
    BY <1>1, Awaited
  <2> QED
    BY <1>5, <2>1 DEF NoChild, Named
<1>9. elapsed' \in 0 .. CLIENT_TIMEOUT_SECONDS
  BY <1>3, TimeoutAssumption
<1> QED
  BY <1>1, <1>3, <1>7, <1>8, <1>9, InvWaitStep

LEMMA InvGoOn ==
  ASSUME BInv, NEW pid, Poll(pid) \/ GiveUp(pid) \/ Kill(pid)
  PROVE  BInv'
<1>1. /\ main \in {"waiting", "terminating"} /\ main \in Waits
      /\ i \in Client /\ pid = client_pids[i]
      /\ UNCHANGED <<i, client_pids, report>>
      /\ main' \in {"waiting", "terminating", "killing"}
  BY DEF Poll, GiveUp, Kill, Waiting, BInv, Waited, Waits
<1>2. proc \in [Process -> Status] /\ elapsed \in 0 .. CLIENT_TIMEOUT_SECONDS
  BY DEF BInv, TypeOK
<1>3. /\ pid \in {i, NoPid} /\ i \in Process /\ i # NoPid
      /\ AllForked => pid = i /\ proc[i] # "reaped"
  BY <1>1, Awaited
<1> DEFINE Moves(P, T, sent) ==
      /\ P \subseteq Process /\ T \subseteq Alive /\ sent \in {"termed", "killed"}
      /\ \A p \in P : proc[p] = "zombie" /\ pid = NoPid
      /\ proc' = [p \in Process |-> IF p \in P THEN "reaped"
                                    ELSE IF p \in T THEN sent
                                    ELSE proc[p]]
<1> HIDE DEF Moves
<1>4. PICK P, T, sent : Moves(P, T, sent)
  <2>1. ASSUME NEW Q \in Reapable(pid), pid \notin Zombies(pid)
        PROVE  Q \subseteq Process /\ \A p \in Q : proc[p] = "zombie" /\ pid = NoPid
    BY <2>1 DEF Reapable, Zombies, Named
  <2>2. Targets(pid) \subseteq Alive
    BY DEF Targets
  <2>3. CASE Poll(pid)
    <3>1. PICK Q \in Reapable(pid) : proc' = After("reaped", Q)
      BY <2>3 DEF Poll, Reap
    <3>2. Moves(Q, {}, "termed")
      BY <2>1, <2>3, <3>1 DEF Poll, After, Moves
    <3> QED
      BY <3>2
  <2>4. CASE GiveUp(pid)
    <3>1. PICK Q \in Reapable(pid) :
            proc' = [p \in Process |-> IF p \in Q THEN "reaped"
                                       ELSE IF p \in Targets(pid) THEN "termed"
                                       ELSE proc[p]]
      BY <2>4 DEF GiveUp
    <3>2. Moves(Q, Targets(pid), "termed")
      BY <2>1, <2>2, <2>4, <3>1 DEF GiveUp, Moves
    <3> QED
      BY <3>2
  <2>5. CASE Kill(pid)
    <3>1. Moves({}, Targets(pid), "killed")
      BY <2>2, <2>5 DEF Kill, After, Moves
    <3> QED
      BY <3>1
  <2> QED
    BY <2>3, <2>4, <2>5
<1>5. /\ proc' \in [Process -> Status]
      /\ \A p \in Process : proc'[p] = "none" <=> proc[p] = "none"
      /\ \A p \in Process : proc[p] = "reaped" => proc'[p] = "reaped"
      /\ AllForked => \A p \in Process : proc'[p] = "reaped" => proc[p] = "reaped"
  BY <1>2, <1>3, <1>4 DEF Moves, Alive, Status
<1>6. /\ elapsed' \in 0 .. CLIENT_TIMEOUT_SECONDS
      /\ main' # "waiting" => TimeUp'
  BY <1>2, TimeoutAssumption
     DEF Poll, Later, GiveUp, Kill, Waiting, TimeUp, BInv, Waited
<1> QED
  BY <1>1, <1>3, <1>5, <1>6, InvWaitStep

(* The server is told to stop and reaped: no client is touched.            *)
LEMMA InvStop ==
  ASSUME BInv, StopServer \/ ReapServer
  PROVE  BInv'
<1>1. proc \in [Process -> Status] /\ Server \in Process /\ Server \notin Client
  BY DEF BInv, TypeOK, Process, Server, Client
<1>2. /\ UNCHANGED <<i, client_pids, elapsed, report>>
      /\ main \in {"waiting", "reaping"} /\ main' \in {"reaping", "exited"}
      /\ i = ClientCount + 1
  BY CountAssumption
     DEF StopServer, ReapServer, BInv, TypeOK, Waited, Client
<1>3. /\ proc' \in [Process -> Status]
      /\ \A c \in Client : proc'[c] = proc[c]
      /\ main' = "exited" => proc'[Server] \in {"none", "reaped"}
  <2>1. CASE StopServer
    BY <1>1, <2>1
       DEF StopServer, After, Targets, Status, Process, Server, Client, NoPid
  <2>2. CASE ReapServer
    <3>1. PICK P \in Reapable(Server) : proc' = After("reaped", P)
      BY <2>2 DEF ReapServer, Reap
    <3>2. Server # NoPid
      BY DEF Server, NoPid
    <3>3. P \subseteq {Server} /\ (Zombies(Server) # {} => P # {})
      BY <3>1, <3>2, ReapsZombies
    <3>4. Server \in P \/ proc[Server] \in {"none", "reaped"}
      BY <1>1, <2>2, <3>3 DEF ReapServer, Returns, Named
    <3> QED
      BY <1>1, <3>1, <3>3, <3>4 DEF After, Status, Process
  <2> QED
    BY <2>1, <2>2
<1>4. TypeOK'
  BY <1>2, <1>3 DEF BInv, TypeOK, MainPlace
<1>5. Forked'
  BY <1>2, <1>3 DEF BInv, Forked
<1>6. \A c \in Client : /\ c < i /\ proc[c] \in {"none", "reaped"}
                        /\ AllForked => proc[c] = "reaped"
  <2>1. \A c \in Client : c < i
    BY <1>2, CountAssumption DEF Client
  <2> QED
    BY <1>2, <2>1 DEF BInv, Waited, Waits
<1>7. Waited'
  BY <1>2, <1>3, <1>6 DEF Waited, AllForked
<1>8. NothingLeftBehind'
  BY <1>3, <1>6 DEF NothingLeftBehind, Process
<1>9. ReportsAreTrue'
  BY <1>2, <1>3 DEF BInv, ReportsAreTrue, AllForked
<1> QED
  BY <1>4, <1>5, <1>7, <1>8, <1>9 DEF BInv

LEMMA InvEnd == \A p \in Process : BInv /\ End(p) => BInv'
<1> SUFFICES ASSUME NEW p \in Process, BInv, End(p) PROVE BInv'
  OBVIOUS
<1>1. /\ proc[p] \in {"running", "termed", "killed"}
      /\ proc' = [proc EXCEPT ![p] = "zombie"]
      /\ UNCHANGED <<main, i, client_pids, elapsed, report>>
  BY DEF End, Alive
<1>2. proc \in [Process -> Status] /\ Client \subseteq Process /\ Server \in Process
  BY DEF BInv, TypeOK, Process
<1>3. /\ proc' \in [Process -> Status]
      /\ \A q \in Process : /\ proc'[q] = "none" <=> proc[q] = "none"
                            /\ proc'[q] = "reaped" <=> proc[q] = "reaped"
  BY <1>1, <1>2 DEF Status
<1>4. TypeOK' /\ Forked'
  BY <1>1, <1>2, <1>3 DEF BInv, TypeOK, Forked
<1>5. Waited'
  BY <1>1, <1>2, <1>3 DEF BInv, Waited, AllForked, TimeUp
<1>6. NothingLeftBehind' /\ ReportsAreTrue'
  BY <1>1, <1>2, <1>3 DEF BInv, NothingLeftBehind, ReportsAreTrue, AllForked
<1> QED
  BY <1>3, <1>4, <1>5, <1>6 DEF BInv

LEMMA InvNext == BInv /\ [Next]_bsvars => BInv'
<1> SUFFICES ASSUME BInv, [Next]_bsvars PROVE BInv'
  OBVIOUS
<1>1. CASE StartServer \/ StartClient \/ AllStarted
  BY <1>1, InvStart
<1>2. CASE WaitForClient
  BY <1>2, InvReturn, InvGoOn DEF WaitForClient
<1>3. CASE StopServer \/ ReapServer
  BY <1>3, InvStop
<1>4. ASSUME NEW p \in Process, End(p) PROVE BInv'
  BY <1>4, InvEnd
<1>5. CASE UNCHANGED bsvars
  BY <1>5 DEF bsvars, BInv, TypeOK, Forked, Waited, NothingLeftBehind,
              ReportsAreTrue, AllForked, TimeUp
<1> QED
  BY <1>1, <1>2, <1>3, <1>4, <1>5 DEF Next, MainStep

THEOREM Invariance == Spec => []BInv
BY InvInit, InvNext, PTL DEF Spec

(* scenario_bootstrap/main.c: TypeOK holds for any number of clients; in   *)
(* particular no pid is waited for that fork has not set.                  *)
THEOREM TypeCorrect == Spec => []TypeOK
<1>1. BInv => TypeOK
  BY DEF BInv
<1> QED
  BY <1>1, Invariance, PTL

(* main.c:214-229: whatever forks have failed and whatever was reaped by   *)
(* the wait for another one, main leaves no process behind.                *)
THEOREM NothingLeftBehindHolds == Spec => []NothingLeftBehind
<1>1. BInv => NothingLeftBehind
  BY DEF BInv
<1> QED
  BY <1>1, Invariance, PTL

(* main.c:41-89: if no fork failed, no wait takes the status of a client   *)
(* from another one.                                                       *)
THEOREM ReportsAreTrueHolds == Spec => []ReportsAreTrue
<1>1. BInv => ReportsAreTrue
  BY DEF BInv
<1> QED
  BY <1>1, Invariance, PTL

(* main.c:76-80 and 221: if no fork failed, a client is signalled only when*)
(* its own time is up, and the server when all clients are reaped.         *)
LEMMA SignalsStep ==
  ASSUME BInv, [Next]_bsvars, AllForked, NEW p \in Process,
         p \in Alive, proc'[p] \notin {proc[p], "zombie"}
  PROVE  IF p = Server THEN \A c \in Client : proc[c] = "reaped"
                       ELSE p = i /\ TimeUp
<1>1. /\ proc \in [Process -> Status]
      /\ proc[p] \notin {"none", "zombie", "reaped"}
  BY DEF BInv, TypeOK, Alive
<1>2. ASSUME main \in Waits, i \in Client
      PROVE  client_pids[i] = i /\ i # Server
  BY <1>2, Awaited DEF Server, Client
<1>3. CASE StartServer \/ StartClient \/ AllStarted \/ UNCHANGED bsvars
  <2>1. proc[Server] = "none" \/ ~StartServer
    BY DEF StartServer, BInv, Forked
  <2>2. ASSUME StartClient PROVE i \in Process /\ proc[i] = "none"
    <3>1. i \in Client /\ i >= i /\ main = "starting"
      BY <2>2 DEF StartClient, Client
    <3>2. client_pids[i] = Unset /\ i # Unset
      BY <3>1 DEF BInv, Forked, Unset, Client
    <3> QED
      BY <1>1, <3>1, <3>2 DEF BInv, TypeOK, Forked, Process
  <2> QED
    BY <1>1, <1>3, <2>1, <2>2 DEF StartServer, StartClient, AllStarted, bsvars
<1>4. ASSUME NEW pid, Finished(pid) \/ NoChild(pid) \/ Poll(pid) \/ Killed(pid)
      PROVE  FALSE
  <2>1. ASSUME NEW P \in Reapable(pid), proc' = After("reaped", P) PROVE FALSE
    BY <1>1, <2>1, ReapsZombies DEF After
  <2>2. CASE Finished(pid)
    BY <1>1, <2>2 DEF Finished, Reap, After, Zombies
  <2>3. CASE NoChild(pid)
    BY <2>3 DEF NoChild
  <2> QED
    BY <1>4, <2>1, <2>2, <2>3 DEF Poll, Killed, Reap
<1>5. ASSUME NEW pid, GiveUp(pid) \/ Kill(pid)
      PROVE  p # Server /\ p = i /\ TimeUp
  <2>1. main \in Waits /\ i \in Client /\ TimeUp /\ pid = client_pids[i]
    BY <1>5 DEF GiveUp, Kill, Waiting, Waits, BInv, Waited
  <2>2. pid = i /\ i # Server /\ i # NoPid
    BY <1>2, <2>1 DEF Client, NoPid
  <2>3. CASE GiveUp(pid)
    <3>1. PICK P \in Reapable(pid) :
            proc' = [q \in Process |-> IF q \in P THEN "reaped"
                                       ELSE IF q \in Targets(pid) THEN "termed"
                                       ELSE proc[q]]
      BY <2>3 DEF GiveUp
    <3>2. p \notin P
      BY <1>1, <3>1, ReapsZombies
    <3> QED
      BY <2>1, <2>2, <3>1, <3>2 DEF Targets
  <2>4. CASE Kill(pid)
    BY <2>1, <2>2, <2>4 DEF Kill, After, Targets
  <2> QED
    BY <1>5, <2>3, <2>4
<1>6. CASE StopServer
  <2>1. p = Server
    BY <1>6 DEF StopServer, After, Targets, Server, NoPid
  <2>2. main = "waiting" /\ \A c \in Client : c < i
    BY <1>6, CountAssumption DEF StopServer, BInv, TypeOK, Client
  <2> QED
    BY <2>1, <2>2 DEF BInv, Waited, Waits
<1>7. CASE ReapServer
  <2>1. PICK P \in Reapable(Server) : proc' = After("reaped", P)
    BY <1>7 DEF ReapServer, Reap
  <2> QED
    BY <1>1, <2>1, ReapsZombies DEF After
<1>8. ASSUME NEW q \in Process, End(q) PROVE FALSE
  BY <1>1, <1>8 DEF End
<1> QED
  BY <1>3, <1>4, <1>5, <1>6, <1>7, <1>8 DEF Next, MainStep, WaitForClient

THEOREM SignalsAreMeantHolds == Spec => SignalsAreMeant
<1>1. BInv /\ [Next]_bsvars =>
        [AllForked =>
           \A p \in Process :
             p \in Alive /\ proc'[p] \notin {proc[p], "zombie"} =>
               IF p = Server THEN \A c \in Client : proc[c] = "reaped"
                             ELSE p = i /\ TimeUp]_bsvars
  BY SignalsStep
<1> QED
  BY <1>1, Invariance, PTL DEF Spec, SignalsAreMeant
=============================================================================
