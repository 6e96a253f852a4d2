----------------------------- MODULE Introspect -----------------------------
(***************************************************************************)
(* What parse_metadata (introspect.py) takes from a $metadata document.    *)
(*                                                                         *)
(* A document is a root element of some namespace around schemas; a schema *)
(* has a namespace, entity types and containers of entity sets, each of    *)
(* which names its type, namespace and all.  None is an attribute that is  *)
(* not there.                                                              *)
(***************************************************************************)
EXTENDS Integers, Sequences, SequencesExt, FiniteSetsExt

CONSTANT None

\* The edmx namespaces the root may have, and the version each stands for.
EdmxVersions == { "v2", "v4" }

\* _find_first: the first Schema in document order, and only that one.
FirstSchema(doc) == doc.schemas[1]

\* parse_metadata does not raise IntrospectError.
Parses(doc) == doc.root \in EdmxVersions /\ doc.schemas # << >>

\* _bool_attr, _bool_sap_attr: absent is the default (true for all that are
\* read), present is true when it says so in letters.
BoolAttr(raw) == raw \in { None, "true" }

ParseProperty(p) ==
    [ name |-> p.name, nullable |-> BoolAttr(p.nullable), filterable |-> BoolAttr(p.filterable) ]

\* v2 refers to an association, v4 to the type itself, by its local name.
ParseNavigation(n, version) ==
    IF version = "v2" THEN [ name |-> n.name, relationship |-> n.relationship ]
    ELSE [ name |-> n.name, target |-> n.type[2],
           multiplicity |-> IF n.collection THEN "*" ELSE "0..1" ]

ParseType(t, version) ==
    [ key |-> t.key,
      properties |-> [ i \in 1..Len(t.properties) |-> ParseProperty(t.properties[i]) ],
      navigations |-> [ i \in 1..Len(t.navigations) |->
                          ParseNavigation(t.navigations[i], version) ] ]

\* _index_entity_types: by name, the last one of a name; those without are left
\* out.
IndexEntityTypes(schema, version) ==
    LET At(name) == { i \in 1..Len(schema.types) : schema.types[i].name = name }
        names == { schema.types[i].name : i \in 1..Len(schema.types) } \ {None}
    IN  [ name \in names |->
            ParseType(schema.types[CHOOSE i \in At(name) : \A j \in At(name) : j <= i], version) ]

\* A bug the runs must catch: the entity sets of the whole schema, once for each
\* of its containers.
CollectPerContainer(schema, index) ==
    LET sets == FlattenSeq([ c \in 1..Len(schema.containers) |->
                               FlattenSeq(schema.containers) ])
    IN  [ i \in 1..Len(sets) |->
            [ name |-> sets[i].name, type |-> sets[i].type,
              of |-> IF sets[i].type[2] \in DOMAIN index
                     THEN index[sets[i].type[2]] ELSE None ] ]

\* _collect_entity_sets: of every container of the schema, in order, with what
\* the index has under the local name of the type, nothing if it has none.
CollectEntitySets(schema, index) ==
    LET sets == FlattenSeq(schema.containers)
    IN  [ i \in 1..Len(sets) |->
            [ name |-> sets[i].name, type |-> sets[i].type,
              of |-> IF sets[i].type[2] \in DOMAIN index
                     THEN index[sets[i].type[2]] ELSE None ] ]

ParseMetadata(doc) ==
    CollectEntitySets(FirstSchema(doc), IndexEntityTypes(FirstSchema(doc), doc.root))

-----------------------------------------------------------------------------
(* What the document declares: entity sets, each with the type of the very *)
(* name it refers to, wherever in the document that is.                    *)

Resolve(doc, type) ==
    { t \in UNION { Range(doc.schemas[s].types) : s \in 1..Len(doc.schemas) } :
        \E s \in 1..Len(doc.schemas) :
            doc.schemas[s].namespace = type[1] /\ t \in Range(doc.schemas[s].types)
                /\ t.name = type[2] }

\* The entity sets of the one schema of a document, in its order.
DeclaredSets(doc) == FlattenSeq(doc.schemas[1].containers)

\* A schema that can stand alone: its entity sets have types of its own.
IsList(s) == s \in Seq(Range(s))
StandsAlone(schema) ==
    /\ IsList(schema.types)
    /\ \A t \in Range(schema.types) : IsList(t.properties) /\ IsList(t.navigations)
    /\ IsList(schema.containers)
    /\ \A c \in Range(schema.containers) :
          /\ IsList(c)
          /\ \A es \in Range(c) : es.type[1] = schema.namespace /\ es.type[2] # None

\* A parsed entity set says of a declared one what the document says.
Says(doc, parsed, es) ==
    /\ parsed.name = es.name
    /\ parsed.type = es.type
    /\ IF Resolve(doc, es.type) = {} THEN parsed.of = None
       ELSE \E t \in Resolve(doc, es.type) :
              /\ parsed.of.key = t.key
              /\ { p.name : p \in Range(parsed.of.properties) }
                    = { p.name : p \in Range(t.properties) }
              /\ { n.name : n \in Range(parsed.of.navigations) }
                    = { n.name : n \in Range(t.navigations) }
=============================================================================
