----------------------- MODULE ResourceManagerPromises -----------------------
(***************************************************************************)
(* What the comments of the server and of the client say of the resource   *)
(* manager, stated over the states of ResourceManager.  Each is checked on *)
(* an instance in which the code runs without undefined behaviour          *)
(* (process indexes stay below typesOfResources), and fails there.         *)
(***************************************************************************)
EXTENDS ResourceManager, Banker

Held(i) == [t \in Type |-> Cardinality(process_resources[i].names[t])]

Claim(i) == process_resources[i].max_needs

BankerSafe ==
  Safe(Live(process_resources), pool_has,
       [i \in Live(process_resources) |-> Held(i)],
       [i \in Live(process_resources) |-> Claim(i)])

(* server/main.c:631, "va onora, dacă este posibil, cererile astfel încât  *)
(* să nu se creeze o stare de impas" (requests are honoured so that no     *)
(* deadlock state arises): a grant never leads from a state that is safe   *)
(* for the declared maxima to one that is not.                             *)
GrantsKeepSafe ==
  [][BankerSafe /\ pool_names' # pool_names => BankerSafe']_rmvars

(* The state that a whole grant to entry i would give is safe.             *)
CouldGrant(i) ==
  LET S == process_resources IN
  /\ \A t \in Type : S[i].needs[t] <= pool_has[t]
  /\ Safe(Live(S), [t \in Type |-> pool_has[t] - S[i].needs[t]],
          [k \in Live(S) |-> IF k = i
                             THEN [t \in Type |-> Held(k)[t] + S[k].needs[t]]
                             ELSE Held(k)],
          [k \in Live(S) |-> Claim(k)])

(* server/main.c:631, "dacă este posibil" (if it is possible): whoever is  *)
(* told DEADLOCK could not have been granted its pending need safely.      *)
RefusalIsNecessary ==
  [][\A p \in Pid :
       heard'[p] = "DEADLOCK" /\ heard[p] # "DEADLOCK" =>
         \A i \in Slot : IsIndexOf(p, i) => ~CouldGrant(i)']_rmvars

(* resource_manager.c:452, "da free la resursele alocate unui client,cand  *)
(* clientul cere fin" (frees the resources of a client that asks to        *)
(* finish): no file is lost, each is in the pool or with a live process.   *)
FilesNotLost ==
  \A t \in Type, f \in File :
    \/ f \in pool_names[t]
    \/ \E i \in Live(process_resources) : f \in process_resources[i].names[t]

(* client/main.c:201, "asteptam mesajul. Nu continuam fara resurse" (we    *)
(* wait for the message, we do not go on without resources): a client that *)
(* was told OK has no need pending.                                        *)
OkMeansGranted ==
  status = "running" =>
    \A i \in Live(process_resources) :
      heard[process_resources[i].pid] = "OK" =>
        process_resources[i].needs = Zero

(* server/main.c:632, "Dacă acest lucru nu este posibil, se va transmite   *)
(* la toate procesele că cererile nu pot fi onorate" (if it is not         *)
(* possible, all the processes are told that the requests cannot be        *)
(* honoured): no request brings the server down.                           *)
EveryRequestIsAnswered == status # "crashed"
==============================================================================
