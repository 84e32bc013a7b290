------------------------------ MODULE Manifest ------------------------------
(***************************************************************************)
(* The project manifest (packages/common-stellar/src/project): which ones  *)
(* are accepted, and what the node makes of them.                          *)
(*                                                                         *)
(* An object is a function of its keys, and a key that is not given is not *)
(* in its domain.  Values have the type their place asks for, or are       *)
(* IllTyped.  mapping.file and mapping.handlers are keys of a data source  *)
(* here.  A decorator of class-validator is a conjunct; what the decorators *)
(* of base classes outside the repository demand is left out, and so is    *)
(* the rest of a manifest that nothing in the node depends on.             *)
(***************************************************************************)
EXTENDS Filters

CONSTANT IllTyped   \* a number where a string or an object belongs, and the like

ASSUME IllTypedIsNoValue == IllTyped \notin Strings \union {None}

Get(o, key) == IF key \in DOMAIN o THEN o[key] ELSE None

\* @IsString, @IsObject, @IsArray, @IsNotEmpty
IsTyped(v) == v \notin {None, IllTyped}

\* The same with @IsOptional.
IsOptional(v) == v # IllTyped

AllOf(s, Valid(_)) == \A n \in 1..Len(s) : Valid(s[n])

-----------------------------------------------------------------------------
(* Handlers and data sources. *)

IsRuntimeDs(ds) == ds.kind = "stellar/Runtime"
IsCustomDs(ds)  == ~IsRuntimeDs(ds) /\ Get(ds, "processor") # None

\* @forbidNonWhitelisted; a filter on blocks may have any keys.
Whitelist ==
    [Transaction        |-> {"account"},
     SorobanTransaction |-> {"account"},
     Operation          |-> {"type", "sourceAccount"},
     Effects            |-> {"type", "account"},
     Event              |-> {"topics", "contractId"}]

\* Only the filter of an event handler is validated inside: the others have no
\* @ValidateNested, so that the decorators of their fields never run.
ValidFilter(kind, filter) ==
    filter # None =>
        /\ IsTyped(filter)
        /\ kind # "Block" => DOMAIN filter \subseteq Whitelist[kind]
        /\ kind = "Event" => \A key \in DOMAIN filter : IsOptional(filter[key])

\* The switch of StellarMapping throws for any other kind.
ValidHandler(h) ==
    /\ h.kind \in Kinds
    /\ IsTyped(Get(h, "handler"))
    /\ ValidFilter(h.kind, Get(h, "filter"))

ValidCustomHandler(h) ==
    /\ IsTyped(h.kind)
    /\ IsTyped(Get(h, "handler"))
    /\ IsOptional(Get(h, "filter"))

\* Seeded fault: the options are not validated inside.
FaultValidOptions(options) == IsOptional(options)

ValidOptions(options) ==
    options # None =>
        /\ IsTyped(options)
        /\ IsOptional(Get(options, "abi")) /\ IsOptional(Get(options, "address"))

ValidRuntimeDs(ds) ==
    /\ AllOf(ds.handlers, ValidHandler)
    /\ IsTyped(Get(ds, "file"))
    /\ ValidOptions(Get(ds, "options"))

\* Each asset is a reference to a file.
ValidAssets(assets) ==
    assets # None =>
        /\ IsTyped(assets)
        /\ \A key \in DOMAIN assets : IsTyped(Get(assets[key], "file"))

\* The options have no @Type, so that no field of theirs is typed; what class-validator
\* makes of an object of no class is left out.
ValidCustomDs(ds) ==
    /\ IsTyped(ds.kind)
    /\ AllOf(ds.handlers, ValidCustomHandler)
    /\ IsTyped(Get(ds, "file"))
    /\ IsOptional(Get(ds, "startBlock"))
    /\ ValidAssets(Get(ds, "assets"))
    /\ IsTyped(Get(ds, "processor"))
    /\ IsOptional(Get(ds, "options"))

\* The kind tells which class a data source is made of.
ValidDataSource(ds) == IF IsRuntimeDs(ds) THEN ValidRuntimeDs(ds) ELSE ValidCustomDs(ds)
ValidTemplate(t)    == ValidDataSource(t) /\ IsTyped(Get(t, "name"))

-----------------------------------------------------------------------------
(* The manifest. *)

SupportedVersions == {"1.0.0"}
NodeName          == "@subql/node-stellar"

\* The name of the node is set if none is given.
ValidRunner(runner) ==
    /\ IsTyped(runner)
    /\ IsTyped(Get(runner, "node")) /\ Get(runner.node, "name") \in {None, NodeName}
    /\ IsTyped(Get(runner, "query"))

\* The genesis hash is taken for the chain if there is no chainId.
ChainId(network) ==
    IF Get(network, "chainId") = None THEN Get(network, "genesisHash") ELSE network.chainId

ValidNetwork(network) ==
    /\ IsTyped(ChainId(network))
    /\ IsOptional(Get(network, "bypassBlocks"))

ValidDeployment(raw) ==
    /\ ValidNetwork(raw.network)
    /\ ValidRunner(Get(raw, "runner"))
    /\ AllOf(raw.dataSources, ValidDataSource)
    /\ AllOf(raw.templates, ValidTemplate)

ValidManifest(raw) ==
    /\ IsTyped(Get(raw, "name")) /\ IsTyped(Get(raw, "version"))
    /\ IsOptional(Get(raw, "schema"))
    /\ ValidRunner(Get(raw, "runner"))
    /\ AllOf(raw.templates, ValidTemplate)
    /\ IsOptional(Get(raw, "parent"))

\* parseStellarProjectManifest: the version decides on the class, which is validated,
\* and the deployment made of it as well; an error of any of them stops the node.
Accepted(raw) ==
    /\ raw.specVersion \in SupportedVersions
    /\ ValidDeployment(raw)
    /\ ValidManifest(raw)

-----------------------------------------------------------------------------
(* The handlers of a data source as Filters and DictionaryQuery see them. *)

FilterFields == {"account", "sourceAccount", "type", "contractId", "modulo", "topics"}

Filter(filter) ==
    IF filter = None THEN None ELSE [key \in FilterFields |-> Get(filter, key)]

Options(ds) == IF Get(ds, "options") = None THEN <<>> ELSE ds.options

HandlersOf(ds) ==
    [n \in 1..Len(ds.handlers) |->
        [kind |-> ds.handlers[n].kind, address |-> Get(Options(ds), "address"),
         filter |-> Filter(Get(ds.handlers[n], "filter"))]]

=============================================================================
