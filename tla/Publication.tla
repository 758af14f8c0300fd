---------------------------- MODULE Publication ----------------------------
(***************************************************************************)
(* What the program publishes of its verified pools, besides the per-source *)
(* export (VerifiedFeed): the discovery manifest of the sources go-ooo may *)
(* price from (lib/export.ts buildExportManifestV3), the asset classes and *)
(* the pairs that back them (lib/aliasGroups.ts, lib/aliasExport.ts), and  *)
(* the public catalogue with its priceable flags.                          *)
(*                                                                         *)
(* All of it is computed from the database when it is asked for.  Sources  *)
(* are paused and resumed by SourceHealth.  A canonical key is the set of  *)
(* the pool's two coin ids, as ordering it makes no difference.            *)
(***************************************************************************)
EXTENDS SourceHealth

CONSTANTS
    Pool, Token,
    SourceOf,   \* the source of each pool
    TokensOf,   \* its token0 and token1, a pair
    Reserve,    \* its liquidity as last ingested
    Symbol,     \* the symbol stored for each token
    CoinOf,     \* its CoinGecko coin id, or None
    AliasOf,    \* the asset class of a coin, or None (ALIAS_GROUPS)
    Family,     \* each source's subgraph schema family
    Transport,  \* its source type
    Floors,     \* liquidity floors the operator may set
    Tuned,      \* the floors the sources may start with
    DefaultFloor,   \* go-ooo's own
    MaxEdits,   \* bound: changes of the rows published
    None

ASSUME PoolsAssumption ==
    SourceOf \in [Pool -> Source] /\ TokensOf \in [Pool -> Token \X Token]
ASSUME FloorsAssumption ==
    Tuned \subseteq [Source -> Nat \cup {None}] /\ Floors \subseteq Nat

VARIABLES
    verified,   \* the pools of a verified status
    floor,      \* each source's Threshold.minLiquidityUsd, None without a row
    blank,      \* tokens whose coin id ingest overwrote with nothing
    edits

published == <<verified, floor, blank, edits>>

RowsInit ==
    /\ verified = Pool
    /\ floor \in Tuned
    /\ blank = {}
    /\ edits = 0

Edit == edits < MaxEdits /\ edits' = edits + 1

(* A pass, a rescan or the operator changes a pool's status.               *)
SetVerified(p) ==
    /\ Edit
    /\ verified' = IF p \in verified THEN verified \ {p} ELSE verified \cup {p}
    /\ UNCHANGED <<floor, blank>>

(* The operator tunes the floor of a source that has a row.                *)
SetFloor(s) ==
    /\ Edit
    /\ floor[s] # None
    /\ \E f \in Floors : floor' = [floor EXCEPT ![s] = f]
    /\ UNCHANGED <<verified, blank>>

(* Ingest finds no coin id where the identity pass had filled one in: the  *)
(* token loses it, its pools keep their keys until they are looked at.     *)
LoseCoinId(t) ==
    /\ Edit
    /\ blank' = blank \cup {t}
    /\ UNCHANGED <<verified, floor>>

Edits ==
    \/ \E p \in Pool : SetVerified(p)
    \/ \E s \in Source : SetFloor(s)
    \/ \E t \in Token : LoseCoinId(t)

CoinId(t) == IF t \in blank THEN None ELSE CoinOf[t]

canonicalKey(p) ==
    LET coins == {CoinOf[TokensOf[p][1]], CoinOf[TokensOf[p][2]]}
    IN  IF None \in coins THEN None ELSE coins

-----------------------------------------------------------------------------
(* Asset classes.                                                          *)

AliasSymbols == {AliasOf[c] : c \in DOMAIN AliasOf} \ {None}

(* A coin is in one class at most, or the module does not load.            *)
aliasForCgId(coin) == IF coin \in DOMAIN AliasOf THEN AliasOf[coin] ELSE None

(* The two classes a key links, or None.                                   *)
aliasPairForCanonicalKey(key) ==
    LET classes == {aliasForCgId(c) : c \in key}
    IN  IF None \in classes \/ Cardinality(classes) # 2 THEN None ELSE classes

aliasPairLabel(base, target) ==
    IF {base, target} \subseteq AliasSymbols THEN {base, target} ELSE None

(* The keys of verified pools that back each pair of classes.              *)
aliasPairs ==
    LET keys == {canonicalKey(p) : p \in verified} \ {None}
    IN  {[pair |-> aliasPairForCanonicalKey(k), key |-> k] :
            k \in {key \in keys : aliasPairForCanonicalKey(key) # None}}

-----------------------------------------------------------------------------
(* The gated feeds go-ooo reads.                                           *)

ModelledFamilies == {"univ2", "univ3", "univ3sqrt", "univ4", "messari"}
CosmosTransports == {"rest-sqs", "rest-astroport"}

supportedSources ==
    {[source |-> s, family |-> Family[s], sourceType |-> Transport[s],
      pairCount |-> Cardinality({p \in verified : SourceOf[p] = s})] : s \in Advertised}

exportOf(s) ==
    [minLiquidityUsd |-> IF floor[s] = None THEN 0 ELSE floor[s],
     pairs |-> {[pool |-> p, key |-> canonicalKey(p), reserveUsd |-> Reserve[p]] :
                    p \in {q \in verified : SourceOf[q] = s}}]

(* go-ooo: it builds a price source of a manifest entry whose family or    *)
(* transport it knows, reads that source's export, and passes over pools   *)
(* under the floor it was given, or under its own if it was given none.    *)
OraclePools ==
    UNION {LET e   == exportOf(m.source)
               min == IF e.minLiquidityUsd > 0 THEN e.minLiquidityUsd ELSE DefaultFloor
           IN  {r.pool : r \in {x \in e.pairs : x.reserveUsd >= min}} :
           m \in {x \in supportedSources :
                    x.family \in ModelledFamilies \/ x.sourceType \in CosmosTransports}}

-----------------------------------------------------------------------------
(* The public catalogue.                                                   *)

(* A fault: a source without a floor of its own passes every pool.         *)
priceableFloorNone(s) == IF floor[s] = None THEN 0 ELSE floor[s]

(* The floor go-ooo will apply to a source.                                *)
priceableFloor(s) == IF floor[s] \notin {None, 0} THEN floor[s] ELSE DefaultFloor

priceableSourceMeta ==
    {s \in Advertised : Family[s] \in ModelledFamilies \/ Transport[s] \in CosmosTransports}

poolIsPriceable(p) ==
    SourceOf[p] \in priceableSourceMeta /\ Reserve[p] >= priceableFloor(SourceOf[p])

(* Pools of one canonical key are one entry; those without, of one pair of *)
(* symbols.                                                                *)
GroupOf(p) ==
    IF canonicalKey(p) # None THEN [by |-> "key", of |-> canonicalKey(p)]
    ELSE [by |-> "symbols", of |-> {Symbol[TokensOf[p][1]], Symbol[TokensOf[p][2]]}]

CatalogueEntry(g) ==
    LET rows == {p \in verified : GroupOf(p) = g}
        priceableSources == {SourceOf[p] : p \in {q \in rows : poolIsPriceable(q)}}
    IN  [group |-> g, sources |-> Cardinality(rows), priceable |-> priceableSources # {},
         priceableSources |-> priceableSources]

Catalogue(priceableOnly) ==
    LET groups == {GroupOf(p) : p \in verified}
    IN  {e \in {CatalogueEntry(g) : g \in groups} : priceableOnly => e.priceable}

(* Whoever picks a pair marked priceable picks one go-ooo can fulfil, on   *)
(* the sources named, and no other: the catalogue's flags, computed from   *)
(* the registry and the thresholds, agree with what go-ooo makes of the    *)
(* manifest and the exports (lib/export.ts:255-259,281-305).               *)
CatalogueAgreesWithFeeds ==
    LET read   == OraclePools
        groups == {GroupOf(p) : p \in read}
    IN  {[group |-> e.group, on |-> e.priceableSources] : e \in Catalogue(TRUE)} =
        {[group |-> g, on |-> {SourceOf[p] : p \in {q \in read : GroupOf(q) = g}}] : g \in groups}
=============================================================================
