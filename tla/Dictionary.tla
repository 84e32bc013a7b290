----------------------------- MODULE Dictionary -----------------------------
(***************************************************************************)
(* buildDictionaryQueryEntries                                             *)
(* (packages/node/src/indexer/dictionary/v1/stellarDictionaryV1.ts).       *)
(*                                                                         *)
(* With a dictionary the indexer does not fetch every block, only those    *)
(* the dictionary lists for its query entries.  A block that no entry      *)
(* matches is never looked at, so the entries have to match whatever a     *)
(* handler would be called for; the empty list of entries means that the   *)
(* dictionary cannot be used and every block is fetched.                   *)
(***************************************************************************)
EXTENDS DictionaryQuery

CONSTANT Projects   \* the lists of handlers, of all data sources in order

ASSUME ProjectsType == Projects \subseteq Seq(Handlers)

VARIABLES
    handlers,       \* the handlers of the project
    i,              \* the handler that is looked at
    queryEntries,   \* the entries so far, without the repetitions uniqBy removes
    pc              \* "loop" or "returned"

vars == <<handlers, i, queryEntries, pc>>

TypeOK ==
    /\ handlers \in Projects
    /\ i \in 1..Len(handlers) + 1
    /\ queryEntries \in SUBSET Entries
    /\ pc \in {"loop", "returned"}

Init ==
    /\ handlers \in Projects
    /\ i = 1
    /\ queryEntries = {}
    /\ pc = "loop"

-----------------------------------------------------------------------------
(* The loop over the handlers. *)

AddEntry ==
    /\ pc = "loop" /\ i <= Len(handlers)
    /\ handlers[i].filter # None
    /\ Usable(handlers[i])
    /\ queryEntries' = queryEntries \union {Entry(handlers[i])}
    /\ i' = i + 1
    /\ UNCHANGED <<handlers, pc>>

\* Seeded fault: a handler the dictionary knows nothing about is passed over.
FaultGiveUp ==
    /\ pc = "loop" /\ i <= Len(handlers)
    /\ GivesUp(handlers[i])
    /\ i' = i + 1
    /\ UNCHANGED <<handlers, queryEntries, pc>>

\* return [].
GiveUp ==
    /\ pc = "loop" /\ i <= Len(handlers)
    /\ GivesUp(handlers[i])
    /\ queryEntries' = {}
    /\ pc' = "returned"
    /\ UNCHANGED <<handlers, i>>

\* The default of the switch.
Ignore ==
    /\ pc = "loop" /\ i <= Len(handlers)
    /\ handlers[i].filter # None
    /\ handlers[i].kind \in IgnoredKinds
    /\ i' = i + 1
    /\ UNCHANGED <<handlers, queryEntries, pc>>

Return ==
    /\ pc = "loop" /\ i > Len(handlers)
    /\ pc' = "returned"
    /\ UNCHANGED <<handlers, i, queryEntries>>

Next == AddEntry \/ GiveUp \/ Ignore \/ Return

Spec == Init /\ [][Next]_vars

-----------------------------------------------------------------------------
(* Properties. *)

\* Nothing is skipped that a handler would have got: the filter in the query and the
\* filter at run time are two pieces of code in two files, with different rules for
\* case, for missing fields and for topics, and must agree.  It is stated for the
\* handlers the loop is through with, so that it can be proved by induction.
CoversHandler(h) ==
    \A d \in Data : Handles(h, d) => \E e \in queryEntries : Matches(e, d)

Coverage ==
    pc = "returned" /\ queryEntries # {} =>
        \A n \in 1..Len(handlers) : CoversHandler(handlers[n])

\* "should return an empty array when no filters are provided": with a handler that
\* restricts nothing the dictionary cannot be used, as every block has data for it.
RestrictsNothing(h) ==
    /\ h.address = None
    /\ h.filter = None \/ \A field \in DOMAIN h.filter : h.filter[field] = None

NoFiltersNoDictionary ==
    pc = "returned" /\ (\E n \in 1..Len(handlers) : RestrictsNothing(handlers[n]))
        => queryEntries = {}

\* The loop that ends early at one handler and ignores another leaves nothing behind:
\* it returns an entry for each handler it knows, or none at all.
BuildsQueryEntries ==
    pc = "returned" => queryEntries = QueryEntries(handlers)

=============================================================================
