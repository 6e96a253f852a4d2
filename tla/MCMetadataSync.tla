--------------------------- MODULE MCMetadataSync ---------------------------
(***************************************************************************)
(* Five releases of a service: the first upgrade adds an entity set, so    *)
(* that a later sync meets one row more than find_rows returns; the next   *)
(* names one entity set twice, in two statements of the upsert; the next   *)
(* twice in one; the last keeps its types and its container in two         *)
(* schemas, so that the parser finds nothing in it.                        *)
(***************************************************************************)
EXTENDS MetadataSync, TLC

CONSTANTS r1, r2, r3, p1, p2, partner, order, journal, none

TwoSyncs == { r1, r2 }
ThreeSyncs == { r1, r2, r3 }
MCEntitySets == { partner, order, journal }
MCPaths == { p1, p2 }

Attribute(n, nullable) == [ name |-> n, nullable |-> nullable, filterable |-> none ]

Entity(n) ==
    [ name |-> n, key |-> << "Id" >>,
      properties |-> << Attribute("Id", "false"), Attribute("Text", none) >>,
      navigations |-> << [ name |-> "to_Item", relationship |-> "Items",
                           type |-> << "S", "Item" >>, collection |-> TRUE ] >> ]

Sets(names, ns) ==
    [ i \in 1..Len(names) |-> [ name |-> names[i], type |-> << ns, names[i] >> ] ]

Schema(ns, types, containers) ==
    [ namespace |-> ns, types |-> types, containers |-> containers ]

MCDocuments ==
    << [ root |-> "v2",
         schemas |-> << Schema("S", << Entity(partner), Entity(order) >>,
                               << Sets(<< partner, order >>, "S") >>) >> ],
       [ root |-> "v4",
         schemas |-> << Schema("S", << Entity(none), Entity(partner) >>,
                               << Sets(<< partner, order >>, "S"), Sets(<< journal >>, "S") >>) >> ],
       [ root |-> "v2",
         schemas |-> << Schema("S", << Entity(partner), Entity(order) >>,
                               << Sets(<< order >>, "S"), Sets(<< partner, order >>, "S") >>) >> ],
       [ root |-> "v2",
         schemas |-> << Schema("S", << Entity(order) >>,
                               << Sets(<< order >>, "S"), Sets(<< order >>, "S") >>) >> ],
       [ root |-> "v2",
         schemas |-> << Schema("Types", << Entity(partner) >>, << >>),
                        Schema("S", << >>, << Sets(<< partner >>, "Types") >>) >> ] >>

SyncSymmetry == Permutations(Syncs) \cup Permutations(MCPaths)
=============================================================================
