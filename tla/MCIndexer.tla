----------------------------- MODULE MCIndexer -----------------------------
(* Manifests, ledgers and created data sources for TLC. *)
EXTENDS Indexer

MCStrings == {"a", "b", "B"}
MCLower   == [s \in MCStrings |-> IF s = "B" THEN "b" ELSE s]

Datum(entity, sequence, account, contractId, topics) ==
    [entity |-> entity, sequence |-> sequence, account |-> account, type |-> "a",
     invokes |-> entity = "transactions", contractId |-> contractId, topics |-> topics]

Block(h)           == Datum("blocks", h, "a", None, <<>>)
Event(h, contract) == Datum("events", h, "a", contract, <<"a">>)

\* The second ledger has nothing that filters ask for, but handlers on blocks.
MCChain ==
    <<<<Block(1), Event(1, "a"), Event(1, "B")>>,
      <<Block(2)>>,
      <<Block(3), Datum("transactions", 3, "b", None, <<>>), Event(3, "B")>>>>

MCData == UNION {Range(MCChain[h]) : h \in 1..3}

MCBaseHandlerKinds == [custom |-> "Transaction"]

-----------------------------------------------------------------------------
(* Data sources. *)

Handler(kind, filter) == [kind |-> kind, handler |-> "f", filter |-> filter]

Runtime(handlers, options) ==
    [kind |-> "stellar/Runtime", file |-> "x", handlers |-> handlers, options |-> options]

Custom ==
    [kind |-> "x/Custom", file |-> "x", handlers |-> <<Handler("custom", [account |-> "a"])>>,
     processor |-> [file |-> "x"]]

Events    == Runtime(<<Handler("Event", [topics |-> <<"a">>])>>, [address |-> "a"])
Blocks    == Runtime(<<Handler("Block", [modulo |-> 2]), Handler("SorobanTransaction", None)>>, None)
OfAccount == Runtime(<<Handler("Transaction", [account |-> "b"])>>, None)
\* Accepted: only the dictionary trips over the account, and nothing over the assets.
IllTypedAccount ==
    Merge([assets |-> IllTyped], Runtime(<<Handler("Transaction", [account |-> IllTyped])>>, None))

\* With a datasource processor and its assets.
Processed(assets) == Merge([assets |-> assets], Custom)

Named(ds, name) == Merge([name |-> name], ds)

\* A template with an address, and one of the same name that is never used.
EventTemplate == Named(Events, "T")
OtherTemplate == Named(Custom, "T")

MCCreations ==
    [templateName : {"T"}, args : {<<>>, [address |-> "b"], [address |-> IllTyped]}]
        \union {[templateName |-> "U", args |-> <<>>]}

-----------------------------------------------------------------------------
(* Manifests. *)

Manifest(dataSources, templates, dictionary) ==
    [specVersion |-> "1.0.0", name |-> "p", version |-> "1", schema |-> "x",
     network |-> [chainId |-> "c"],
     runner |-> [node |-> [name |-> "@subql/node-stellar"], query |-> [name |-> "q"]],
     dataSources |-> dataSources, templates |-> templates, dictionary |-> dictionary]

Plain == Manifest(<<Events>>, <<EventTemplate, OtherTemplate>>, <<"d", "e">>)

With(ds) == [Plain EXCEPT !.dataSources = <<ds>>]

AcceptedManifests ==
    {Plain,
     Manifest(<<OfAccount, Processed([abi |-> [file |-> "y"]])>>, <<OtherTemplate>>, <<"d">>),
     Manifest(<<Blocks, Events>>, <<>>, <<"d">>),
     [Plain EXCEPT !.dictionary = <<>>, !.network = [genesisHash |-> "c"]],
     With(IllTypedAccount),
     [Plain EXCEPT !.templates = <<Named(IllTypedAccount, "T")>>]}

RefusedManifests ==
    {[Plain EXCEPT !.specVersion = "0.2.0"],
     [Plain EXCEPT !.schema = IllTyped],
     [Plain EXCEPT !.network = <<>>],
     [Plain EXCEPT !.runner.node = [name |-> "@subql/node"]],
     [Plain EXCEPT !.templates = <<Events>>],
     With(Runtime(<<Handler("Event", None)>>, [address |-> IllTyped])),
     With(Runtime(<<Handler("Event", [contractId |-> IllTyped])>>, None)),
     With(Runtime(<<Handler("Event", [account |-> "a"])>>, None)),
     With(Runtime(<<Handler("Log", None)>>, None)),
     With(Runtime(<<[kind |-> "Block"]>>, None)),
     With([Custom EXCEPT !.processor = None]),
     With(Processed([abi |-> <<>>])),
     With(Merge([startBlock |-> IllTyped], Custom))}

MCManifests == AcceptedManifests \union RefusedManifests
MCRegistry  == {<<>>, <<"e">>}

=============================================================================
