------------------------- MODULE DictionaryService -------------------------
(***************************************************************************)
(* initDictionaries                                                        *)
(* (packages/node/src/indexer/dictionary/stellarDictionary.service.ts):    *)
(* the dictionaries of the project and of the registry are tried one after *)
(* the other, and those that do not answer are left out.  Servers come and *)
(* go while the loop is waiting for one of them.                           *)
(***************************************************************************)
EXTENDS ListFilter

CONSTANTS
    Endpoints,    \* URLs of dictionaries
    Own,          \* what network.dictionary may be: lists of URLs
    Registry      \* what resolveDictionary may find

VARIABLES
    project,       \* network.dictionary, a list; no dictionary: <<>>, one: <<url>>
    stage,         \* resolving, creating, initialised, rejected
    endpoints,     \* dictionaryEndpoints
    at,            \* how many of them have been tried
    dictionaries,  \* dictionariesV1, by their URLs
    up,            \* the servers that answer at the moment
    alwaysUp       \* those that have answered all the time

vars == <<project, stage, endpoints, at, dictionaries, up, alwaysUp>>

TypeOK ==
    /\ project \in Own
    /\ stage \in {"resolving", "creating", "initialised", "rejected"}
    /\ endpoints \in Seq(Endpoints)
    /\ at \in 0..Len(endpoints)
    /\ dictionaries \in Seq(Endpoints)
    /\ up \subseteq Endpoints
    /\ alwaysUp \subseteq up

Init ==
    /\ project \in Own
    /\ stage = "resolving"
    /\ endpoints = <<>>
    /\ at = 0
    /\ dictionaries = <<>>
    /\ up \in SUBSET Endpoints
    /\ alwaysUp = up

\* The registry answers.
ResolveDictionary ==
    /\ stage = "resolving"
    /\ \E registryDictionaries \in Registry : endpoints' = project \o registryDictionaries
    /\ stage' = "creating"
    /\ UNCHANGED <<project, at, dictionaries, up, alwaysUp>>

ResolveFails ==
    /\ stage = "resolving"
    /\ stage' = "rejected"
    /\ UNCHANGED <<project, endpoints, at, dictionaries, up, alwaysUp>>

\* StellarDictionaryV1.create asks the next server.
Create ==
    /\ stage = "creating"
    /\ at < Len(endpoints)
    /\ endpoints[at + 1] \in up
    /\ dictionaries' = Append(dictionaries, endpoints[at + 1])
    /\ at' = at + 1
    /\ UNCHANGED <<project, stage, endpoints, up, alwaysUp>>

\* Seeded fault: the loop ends with the first server that does not answer.
FaultSkip ==
    /\ stage = "creating"
    /\ at < Len(endpoints)
    /\ endpoints[at + 1] \notin up
    /\ at' = Len(endpoints)
    /\ UNCHANGED <<project, stage, endpoints, dictionaries, up, alwaysUp>>

\* Seeded fault: a server is tried until it answers.
FaultRetry ==
    /\ stage = "creating"
    /\ at < Len(endpoints)
    /\ endpoints[at + 1] \notin up
    /\ UNCHANGED vars

\* Seeded fault: the list is counted past its end.
FaultSkipTwo ==
    /\ stage = "creating"
    /\ at < Len(endpoints)
    /\ endpoints[at + 1] \notin up
    /\ at' = at + 2
    /\ UNCHANGED <<project, stage, endpoints, dictionaries, up, alwaysUp>>

\* The error is logged and the next one tried.
Skip ==
    /\ stage = "creating"
    /\ at < Len(endpoints)
    /\ endpoints[at + 1] \notin up
    /\ at' = at + 1
    /\ UNCHANGED <<project, stage, endpoints, dictionaries, up, alwaysUp>>

Initialise ==
    /\ stage = "creating"
    /\ at = Len(endpoints)
    /\ stage' = "initialised"
    /\ UNCHANGED <<project, endpoints, at, dictionaries, up, alwaysUp>>

\* A server starts or stops answering.
Switch(e) ==
    /\ up' = IF e \in up THEN up \ {e} ELSE up \union {e}
    /\ alwaysUp' = alwaysUp \ {e}
    /\ UNCHANGED <<project, stage, endpoints, at, dictionaries>>

Loop == ResolveDictionary \/ ResolveFails \/ Create \/ Skip \/ Initialise

-----------------------------------------------------------------------------
(* Properties. *)

\* One dictionary that does not answer costs no other: in the end each one that answered
\* all the time is there, once for every place it has in the lists, in the order of the
\* lists and the project's own before the registry's (initDictionaries).
GoodOnesAreKept ==
    stage = "initialised" =>
        LET Good(list) == Keep(list, alwaysUp)
        IN  /\ Good(dictionaries) = Good(endpoints)
            /\ IsPrefix(Good(project), Good(dictionaries))

=============================================================================
