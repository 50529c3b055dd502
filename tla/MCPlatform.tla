----------------------------- MODULE MCPlatform ------------------------------
(***************************************************************************)
(* Small worlds for TLC: two widget packs, a handful of columns whose      *)
(* names hit, nearly hit and miss the catalog, and bundles that mix        *)
(* documents, entities with columns of their own and relations.            *)
(***************************************************************************)
EXTENDS Platform

CONSTANTS
    weight, length, extra,                  \* metrics
    colW, colL, colX,                       \* columns
    parts, bins,                            \* entities
    overview,                               \* a document
    tolerance,                              \* a benchmark
    widget, gadget,                         \* subtypes
    supplies,                               \* a specialised edge type
    holds,                                  \* a role
    rows, feed,                             \* items
    core, side, broken,                     \* packs
    c1, c2                                  \* processes

\* Names are the case-folded strings themselves.
MCName == {"weight", "lenght", "length", "xyzzy", "extra"}
MCNameOf == [c \in Column |-> IF c = colW THEN "weight" ELSE IF c = colL THEN "lenght" ELSE "xyzzy"]
MCLocalPart == [m \in Metric |-> IF m = weight THEN "weight"
                                 ELSE IF m = length THEN "length" ELSE "extra"]
\* difflib's ratios, to the percent, where they are near or above the threshold.
MCScore == [n \in MCName |-> [t \in MCName |->
    IF n = t THEN 100 ELSE IF {n, t} = {"lenght", "length"} THEN 83
    ELSE IF {n, t} = {"xyzzy", "weight"} THEN 0 ELSE 20]]
MCKeyRank == [m \in Metric |-> IF m = weight THEN 3 ELSE IF m = length THEN 2 ELSE 1]

MCNamespace == {"widgets", "shared", "other"}
MCNamespaceOf == [m \in Metric |-> IF m = extra THEN "shared" ELSE "widgets"]

CorePack == [namespaces |-> {"widgets", "shared"}, subtypes |-> {widget},
             edge_types |-> {supplies},
             metrics |-> <<[metric |-> weight, aliases |-> {"weight"}],
                           [metric |-> length, aliases |-> {}]>>,
             benchmarks |-> <<tolerance>>]
\* A second pack that allows another subtype and claims the same alias.
SidePack == [namespaces |-> {"other", "shared"}, subtypes |-> {gadget},
             edge_types |-> {},
             metrics |-> <<[metric |-> extra, aliases |-> {"weight"}]>>,
             benchmarks |-> <<>>]
\* A copy-paste mistake: a metric of another pack's namespace.
BrokenPack == [SidePack EXCEPT !.metrics = CorePack.metrics]
MCPackDef == [p \in Pack |-> IF p = core THEN CorePack
                             ELSE IF p = side THEN SidePack ELSE BrokenPack]

Column_(c, dict) == [column |-> c, has_dictionary |-> dict]

\* A dataset that is an entity with columns of its own, and a document on it.
RowsBundle ==
    [documents |-> <<[uri |-> overview, describes |-> <<parts>>, defines |-> <<weight>>]>>,
     columns |-> <<>>,
     entities |-> <<[uid |-> parts, candidate_labels |-> <<gadget, widget>>,
                     columns |-> <<Column_(colW, FALSE), Column_(colL, FALSE)>>]>>,
     relations |-> <<>>]
\* A feed of two datasets that share a column, related to each other.
FeedBundle ==
    [documents |-> <<>>,
     columns |-> <<Column_(colX, FALSE)>>,
     entities |-> <<[uid |-> bins, candidate_labels |-> <<widget>>,
                     columns |-> <<Column_(colL, TRUE)>>],
                    [uid |-> parts, candidate_labels |-> <<>>,
                     columns |-> <<Column_(colL, TRUE)>>]>>,
     relations |-> <<[subject |-> bins, object |-> parts, role |-> holds,
                      type |-> supplies],
                     [subject |-> parts, object |-> bins, role |-> holds,
                      type |-> "RELATED_TO"]>>]

MCBundle == [i \in Item |-> IF i = rows THEN RowsBundle ELSE FeedBundle]
BothItems == <<rows, feed>>

(***************************************************************************)
(* The same, smaller, for two processes: one column each way through the   *)
(* funnel, and a relation whose other end belongs to the other item.       *)
(***************************************************************************)
LeanRows ==
    [documents |-> <<[uri |-> overview, describes |-> <<parts>>, defines |-> <<>>]>>,
     columns |-> <<>>,
     entities |-> <<[uid |-> parts, candidate_labels |-> <<widget>>,
                     columns |-> <<Column_(colW, FALSE)>>]>>,
     relations |-> <<[subject |-> parts, object |-> parts, role |-> holds,
                      type |-> "RELATED_TO"]>>]
LeanFeed ==
    [documents |-> <<>>,
     columns |-> <<Column_(colL, FALSE)>>,
     entities |-> <<[uid |-> bins, candidate_labels |-> <<>>, columns |-> <<>>]>>,
     relations |-> <<[subject |-> bins, object |-> parts, role |-> holds,
                      type |-> supplies]>>]
LeanBundle == [i \in Item |-> IF i = rows THEN LeanRows ELSE LeanFeed]

\* One free-standing column in each item, and nothing else.
BareColumn(c) == [documents |-> <<>>, columns |-> <<Column_(c, FALSE)>>,
                  entities |-> <<>>, relations |-> <<>>]
BareBundle == [i \in Item |-> IF i = rows THEN BareColumn(colL) ELSE BareColumn(colX)]

LeanPackDef == [p \in Pack |-> [CorePack EXCEPT !.benchmarks = <<>>]]

Symmetry == Permutations(Client)
==============================================================================
