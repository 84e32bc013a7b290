----------------------------- MODULE ApiService -----------------------------
(***************************************************************************)
(* The API service (packages/node/src/stellar/api.service.stellar.ts): how *)
(* it is created from the project, and the safe API, a proxy that calls a  *)
(* method of SafeStellarProvider up to maxRetries times.                   *)
(*                                                                         *)
(* The pool of connections is node-core's: connections come and go, and    *)
(* this.unsafeApi is a connected one or throws.  All share one Soroban RPC *)
(* client, EventSource here.                                               *)
(***************************************************************************)
EXTENDS Integers, FiniteSets

CONSTANTS
    Projects,     \* the projects and command lines the node may be started with
    Endpoints,    \* network.endpoint
    Callers,      \* the users of a safe API
    MaxRetries,   \* maxRetries
    LastLedger,   \* the chain of the instance has ledgers 1..LastLedger
    Events,       \* the contract events
    LedgerOf      \* event.ledger

Ledgers == 1..LastLedger
None    == 0

(* A data source or template is of kind Runtime or custom and has handlers; the *)
(* Soroban endpoint is that of the project or of the command line.              *)
DataSource == [kind : {"Runtime", "custom"}, handlers : SUBSET {"Event", "other"}]
ASSUME ProjectsType == \A p \in Projects :
    /\ DOMAIN p = {"dataSources", "templates", "sorobanEndpoint", "argv"}
    /\ p.dataSources \subseteq DataSource /\ p.templates \subseteq DataSource
    /\ p.sorobanEndpoint \in BOOLEAN /\ p.argv \in BOOLEAN
ASSUME RetriesType == MaxRetries \in Nat \ {0}
ASSUME ChainType   == LastLedger \in Nat /\ LedgerOf \in [Events -> Ledgers]

VARIABLES
    project,      \* what the node was started with
    service,      \* what became of create
    connecting,   \* the endpoints whose connection is being made
    connected,    \* the connections of the pool
    stage,        \* where each safe call is
    height,       \* the height of its API
    method,       \* getEvents, or one that is not implemented
    retries,      \* how many attempts have failed
    result,       \* what it resolves to
    newest, status, asked, answer   \* the Soroban RPC client, see EventSource

Source == INSTANCE EventSource

client == <<newest, status, asked, answer>>
pool   == <<project, service, connecting, connected>>
local  == <<stage, height, method, retries, result>>
vars   == <<pool, local, client>>

TypeOK ==
    /\ project \in Projects
    /\ service \in {"none", "refused", "invalidUrl", "starting", "disconnected", "running"}
    /\ connecting \subseteq Endpoints
    /\ connected \subseteq Endpoints
    /\ stage \in [Callers -> {"idle", "trying", "waiting", "fulfilled", "rejected"}]
    /\ height \in [Callers -> Ledgers \union {None}]
    /\ method \in [Callers -> {"getEvents", "other"}]
    /\ retries \in [Callers -> 0..MaxRetries]
    /\ result \in [Callers -> [Events -> Nat]]

Init ==
    /\ project \in Projects
    /\ service = "none"
    /\ connecting = {} /\ connected = {}
    /\ stage = [c \in Callers |-> "idle"]
    /\ height = [c \in Callers |-> None]
    /\ method = [c \in Callers |-> "other"]
    /\ retries = [c \in Callers |-> 0]
    /\ result = [c \in Callers |-> Source!Nothing]
    /\ Source!Init

-----------------------------------------------------------------------------
(* create. *)

\* Only runtime data sources are looked at.
DsHasSorobanEventHandler(dataSources) ==
    \E ds \in dataSources : ds.kind = "Runtime" /\ "Event" \in ds.handlers

HasEventHandler == DsHasSorobanEventHandler(project.dataSources \union project.templates)

\* The endpoint of the command line comes in the place of that of the project.
HasSorobanEndpoint == project.argv \/ project.sorobanEndpoint

\* Handlers of Soroban events need the endpoint.
Refuse ==
    /\ service = "none"
    /\ HasEventHandler /\ ~HasSorobanEndpoint
    /\ service' = "refused"
    /\ UNCHANGED <<project, connecting, connected, local, client>>

\* new URL(sorobanEndpoint) throws when there is none.
ParseNothing ==
    /\ service = "none"
    /\ ~HasEventHandler /\ ~HasSorobanEndpoint
    /\ service' = "invalidUrl"
    /\ UNCHANGED <<project, connecting, connected, local, client>>

CreateConnections ==
    /\ service = "none"
    /\ HasSorobanEndpoint
    /\ service' = "starting"
    /\ connecting' = Endpoints
    /\ UNCHANGED <<project, connected, local, client>>

\* StellarApiConnection.create: the chain id arrives, the connection joins the pool.
Connect(e) ==
    /\ e \in connecting
    /\ connecting' = connecting \ {e}
    /\ connected' = connected \union {e}
    /\ service' = "running"
    /\ UNCHANGED <<project, local, client>>

ConnectFail(e) ==
    /\ e \in connecting
    /\ connecting' = connecting \ {e}
    /\ service' = IF connecting' = {} /\ service = "starting" THEN "disconnected" ELSE service
    /\ UNCHANGED <<project, connected, local, client>>

\* The pool drops a connection.  It cannot make it again: StellarApi.connect throws.
Disconnect(e) ==
    /\ e \in connected
    /\ connected' = connected \ {e}
    /\ UNCHANGED <<project, service, connecting, local, client>>

-----------------------------------------------------------------------------
(* safeApi. *)

\* A caller takes the safe API of height h and calls method m of it; without a
\* connection there is no API to take.
SafeApi(c, h, m) ==
    /\ service = "running"
    /\ stage[c] = "idle"
    /\ \/ /\ connected # {}
          /\ stage' = [stage EXCEPT ![c] = "trying"]
          /\ height' = [height EXCEPT ![c] = h]
          /\ method' = [method EXCEPT ![c] = m]
       \/ /\ connected = {}
          /\ stage' = [stage EXCEPT ![c] = "rejected"]
          /\ UNCHANGED <<height, method>>
    /\ UNCHANGED <<pool, retries, result, client>>

\* SafeStellarProvider.getEvents: whatever is asked for, the events of the height.
Attempt(c) ==
    /\ stage[c] = "trying"
    /\ method[c] = "getEvents"
    /\ Source!Ask(c, height[c])
    /\ stage' = [stage EXCEPT ![c] = "waiting"]
    /\ UNCHANGED <<pool, height, method, retries, result>>

\* Seeded fault: the loop allows one attempt too many.
FaultCatchLate(c) ==
    /\ \/ /\ connected = {}
          /\ stage' = [stage EXCEPT ![c] = "rejected"]
          /\ UNCHANGED retries
       \/ /\ connected # {}
          /\ retries' = [retries EXCEPT ![c] = @ + 1]
          /\ stage' = [stage EXCEPT ![c] = IF retries[c] < MaxRetries THEN "trying" ELSE "rejected"]
    /\ UNCHANGED <<pool, height, method, result>>

\* The catch clause takes another API, or throws when there is none, and counts.
Catch(c) ==
    /\ \/ /\ connected = {}
          /\ stage' = [stage EXCEPT ![c] = "rejected"]
          /\ UNCHANGED retries
       \/ /\ connected # {}
          /\ retries' = [retries EXCEPT ![c] = @ + 1]
          /\ stage' = [stage EXCEPT ![c] = IF retries[c] + 1 < MaxRetries THEN "trying" ELSE "rejected"]
    /\ UNCHANGED <<pool, height, method, result>>

\* A method that is not implemented throws, every time.
AttemptOther(c) ==
    /\ stage[c] = "trying"
    /\ method[c] = "other"
    /\ Catch(c)
    /\ UNCHANGED client

AttemptFails(c) ==
    /\ stage[c] = "waiting"
    /\ status[c] = "rejected"
    /\ Source!Return(c)
    /\ Catch(c)

\* Seeded fault: the answer is dropped, the call is not awaited.
FaultAttemptSucceeds(c) ==
    /\ stage[c] = "waiting"
    /\ status[c] = "fulfilled"
    /\ Source!Return(c)
    /\ stage' = [stage EXCEPT ![c] = "fulfilled"]
    /\ UNCHANGED <<pool, height, method, retries, result>>

AttemptSucceeds(c) ==
    /\ stage[c] = "waiting"
    /\ status[c] = "fulfilled"
    /\ result' = [result EXCEPT ![c] = answer[c]]
    /\ Source!Return(c)
    /\ stage' = [stage EXCEPT ![c] = "fulfilled"]
    /\ UNCHANGED <<pool, height, method, retries>>

\* The caller has its result or its error.
Done(c) ==
    /\ stage[c] \in {"fulfilled", "rejected"}
    /\ stage' = [stage EXCEPT ![c] = "idle"]
    /\ height' = [height EXCEPT ![c] = None]
    /\ method' = [method EXCEPT ![c] = "other"]
    /\ retries' = [retries EXCEPT ![c] = 0]
    /\ result' = [result EXCEPT ![c] = Source!Nothing]
    /\ UNCHANGED <<pool, client>>

ClientSettles(c) ==
    /\ Source!Answer(c) \/ Source!Fail(c)
    /\ UNCHANGED <<pool, local>>

LedgerCloses == Source!CloseLedger /\ UNCHANGED <<pool, local>>

-----------------------------------------------------------------------------

SafeStep(c) == Attempt(c) \/ AttemptOther(c) \/ AttemptFails(c) \/ AttemptSucceeds(c)

Next ==
    \/ Refuse \/ ParseNothing \/ CreateConnections
    \/ \E e \in Endpoints : Connect(e) \/ ConnectFail(e) \/ Disconnect(e)
    \/ \E c \in Callers :
          \/ \E h \in Ledgers, m \in {"getEvents", "other"} : SafeApi(c, h, m)
          \/ SafeStep(c) \/ Done(c) \/ ClientSettles(c)
    \/ LedgerCloses

Spec == Init /\ [][Next]_vars

\* The requests of the client are answered or fail, and the event loop goes on.
FairSpec == Spec /\ \A c \in Callers : WF_vars(SafeStep(c)) /\ WF_vars(ClientSettles(c))

-----------------------------------------------------------------------------
(* Properties. *)

\* A call through the safe API is one call: however many attempts it takes and
\* whatever the pool does meanwhile, it ends, with the events of the height of its
\* API, each once, or with an error (safeApi, SafeStellarProvider.getEvents).
Abstract == INSTANCE EventSource WITH
    status <- [c \in Callers |-> IF stage[c] \in {"trying", "waiting"} THEN "asked" ELSE stage[c]],
    asked  <- height,
    answer <- result
SafeCallsAreCalls == Abstract!Spec

\* A call gives up when there is no connection or after MaxRetries attempts, never
\* earlier, and never begins another attempt then (safeApi).
AllAttemptsMade ==
    [][\A c \in Callers : stage[c] \in {"trying", "waiting"} =>
          /\ stage'[c] = "trying" => retries'[c] < MaxRetries
          /\ stage'[c] = "rejected" => connected = {} \/ retries'[c] = MaxRetries]_vars

\* The endpoint of the Soroban RPC server is optional: a project without handlers of
\* Soroban events starts without it (create).
SorobanEndpointIsOptional ==
    service \in {"refused", "invalidUrl"} => HasEventHandler

=============================================================================
