---------------------------- MODULE MetadataSync ----------------------------
(***************************************************************************)
(* POST /connections/{id}/sync (routes.py): fetch $metadata, parse it      *)
(* (Introspect), overwrite the schema_snapshot rows (snapshot_service.py,  *)
(* repository.py), then create or refresh the knowledge base "SAP Metadata *)
(* - <label>" (kb_seeder.py).                                              *)
(*                                                                         *)
(* One connection.  Each database or SDK call is a transaction of its own, *)
(* and syncs of the same connection may overlap: nothing locks them out.   *)
(* Any call may raise, and the worker process may die between two of them; *)
(* either way the request stops where it stands (GiveUp).  What a sync     *)
(* writes to last_health_status is in ConnectionRoutes (Stamp), beside the *)
(* connection test that writes it too.                                     *)
(***************************************************************************)
EXTENDS Introspect, FiniteSets

CONSTANTS
    Syncs,          \* requests, each one at most once
    MaxInFlight,    \* bound: requests in flight at a time
    EntitySets,     \* names of entity sets
    Releases,       \* bound: releases of the SAP service, 1 .. Releases
    Documents,      \* the $metadata of each release
    Paths,          \* service paths the base_url may have
    PageSize,       \* rows of one statement of the upsert (execute_values: 100)
    Columns,        \* Len(KB_COLUMNS)
    FindRowsLimit   \* FIND_ROWS_LIMIT

Parsed(n) == ParseMetadata(Documents[n])

\* The entity sets the parser finds in the $metadata of a release.
Exposes(n) == { es.name : es \in Range(Parsed(n)) }

ASSUME SyncConstants ==
    /\ IsFiniteSet(EntitySets)
    /\ MaxInFlight \in Nat
    /\ Releases \in Nat \ {0}
    /\ DOMAIN Documents = 1 .. Releases
    /\ \A n \in 1 .. Releases : Parses(Documents[n]) =>
          IsList(Parsed(n)) /\ Exposes(n) \subseteq EntitySets
    /\ PageSize \in Nat \ {0}
    /\ Columns \in Nat \ {0}
    /\ FindRowsLimit \in Nat
    /\ None \notin Nat

\* A document of one schema refers to no other.
ASSUME DocumentsStandAlone ==
    \A n \in 1 .. Releases :
        Parses(Documents[n]) /\ Len(Documents[n].schemas) = 1
            => StandsAlone(FirstSchema(Documents[n]))

VARIABLES
    release,      \* the release SAP serves now
    connection,   \* the row of integrations_sap.connections
    path,         \* _service_path_from_base_url of the row
    snapshot,     \* release each schema_snapshot row was last written from
    kbs,          \* knowledge bases of that name, in order of creation
    overlapped,   \* two syncs have been in flight together (history)
    repointed,    \* the base_url has been edited (history)
    truncated,    \* find_rows has met more rows than it may return (history)
    doubled,      \* a document that names a set twice has been stored (history)
    edited,       \* when a user has emptied a row of a knowledge base (history)
    \* and for each sync:
    stage,        \* the call it is about to make
    at,           \* the service path its connection row had
    got,          \* the release its $metadata came from
    kb,           \* its knowledge base, a position in kbs
    seen,         \* existing_by_name: the rows find_rows gave, name and position
    todo          \* positions of $metadata whose row is still to be updated

row == << connection, path >>
history == << overlapped, repointed, truncated, doubled, edited >>
local == << at, got, kb, seen, todo >>
vars == << release, row, snapshot, kbs, history, stage, local >>

InFlight == { "fetching", "persisting", "finding", "creating", "adding",
              "listing", "writing", "reporting" }
Stages == { "idle", "done", "gone" } \cup InFlight

\* A knowledge base: its columns, and for each name the releases its rows were
\* last written from (one row per name is what it should have), None when a row
\* has lost its name since.
KnowledgeBase ==
    [ columns : 0 .. Columns, rows : [ EntitySets -> Seq(1 .. Releases \cup {None}) ] ]
NoRows == [ e \in EntitySets |-> << >> ]
Named(b, e) == { i \in DOMAIN b.rows[e] : b.rows[e][i] # None }

\* What add_column, update_row and insert_batch make of one.
WithColumn(b) == [ columns |-> b.columns + 1, rows |-> b.rows ]
WithValue(b, e, i, n) == [ columns |-> b.columns, rows |-> [ b.rows EXCEPT ![e][i] = n ] ]
WithRows(b, times, n) ==
    [ columns |-> b.columns,
      rows    |-> [ e \in EntitySets |-> b.rows[e] \o [ k \in 1 .. times[e] |-> n ] ] ]

NothingSeen == {}

Init ==
    /\ release = 1
    /\ connection = "live"
    /\ path \in Paths
    /\ snapshot = [ p \in Paths |-> [ e \in EntitySets |-> None ] ]
    /\ kbs = << >>
    /\ overlapped = FALSE
    /\ repointed = FALSE
    /\ truncated = FALSE
    /\ doubled = FALSE
    /\ edited = "never"
    /\ stage = [ r \in Syncs |-> "idle" ]
    /\ at = [ r \in Syncs |-> None ]
    /\ got = [ r \in Syncs |-> None ]
    /\ kb = [ r \in Syncs |-> None ]
    /\ seen = [ r \in Syncs |-> NothingSeen ]
    /\ todo = [ r \in Syncs |-> {} ]

Move(r, from, to) ==
    /\ stage[r] = from
    /\ stage' = [ stage EXCEPT ![r] = to ]

\* The request is over, and with it what it had in hand.
Over(r, end) ==
    /\ stage' = [ stage EXCEPT ![r] = end ]
    /\ at' = [ at EXCEPT ![r] = None ]
    /\ got' = [ got EXCEPT ![r] = None ]
    /\ kb' = [ kb EXCEPT ![r] = None ]
    /\ seen' = [ seen EXCEPT ![r] = NothingSeen ]
    /\ todo' = [ todo EXCEPT ![r] = {} ]

-----------------------------------------------------------------------------
(* The request.                                                            *)

\* resolve_for_connection_id finds the row and its credentials.
Start(r) ==
    /\ connection = "live"
    /\ Cardinality({ other \in Syncs : stage[other] \in InFlight }) < MaxInFlight
    /\ Move(r, "idle", "fetching")
    /\ overlapped' = (overlapped \/ \E other \in Syncs : stage[other] \in InFlight)
    /\ at' = [ at EXCEPT ![r] = path ]
    /\ UNCHANGED << release, row, snapshot, kbs, repointed, truncated, doubled, edited,
                    got, kb, seen, todo >>

\* A bug the runs must catch: a cache answers with an earlier $metadata.
FetchCached(r) ==
    /\ Move(r, "fetching", "persisting")
    /\ Parses(Documents[release])
    /\ \E past \in 1 .. release : got' = [ got EXCEPT ![r] = past ]
    /\ UNCHANGED << release, row, snapshot, kbs, history, at, kb, seen, todo >>

\* $metadata arrives and parses (else: GiveUp).
Fetch(r) ==
    /\ Move(r, "fetching", "persisting")
    /\ Parses(Documents[release])
    /\ got' = [ got EXCEPT ![r] = release ]
    /\ UNCHANGED << release, row, snapshot, kbs, history, at, kb, seen, todo >>

\* The statement a row of the upsert goes with.
Page(i) == (i - 1) \div PageSize

\* No two positions of the $metadata of a release (and of one statement) name
\* the same entity set.
NamedOnce(n) ==
    \A i, j \in DOMAIN Parsed(n) : Parsed(n)[i].name = Parsed(n)[j].name => i = j
Storable(n) ==
    \A i, j \in DOMAIN Parsed(n) :
        Parsed(n)[i].name = Parsed(n)[j].name /\ Page(i) = Page(j) => i = j

\* The upsert: one transaction for all entity sets, none when there are none.
\* Its foreign key needs the connection, and ON CONFLICT no statement that
\* would write one row twice (else: GiveUp); further apart, the later one wins.
Persist(r) ==
    /\ Move(r, "persisting", "finding")
    /\ connection = "live" \/ Exposes(got[r]) = {}
    /\ Storable(got[r])
    /\ snapshot' = [ snapshot EXCEPT ![at[r]] =
                       [ e \in EntitySets |-> IF e \in Exposes(got[r]) THEN got[r] ELSE @[e] ] ]
    /\ doubled' = (doubled \/ ~NamedOnce(got[r]))
    /\ UNCHANGED << release, row, kbs, overlapped, repointed, truncated, edited, local >>

\* find_kb by name: if there are several, whichever the core returns.
FindKb(r) ==
    /\ \/ /\ Move(r, "finding", "creating")
          /\ kbs = << >>
          /\ UNCHANGED kb
       \/ /\ Move(r, "finding", "listing")
          /\ \E i \in DOMAIN kbs : kb' = [ kb EXCEPT ![r] = i ]
    /\ UNCHANGED << release, row, snapshot, kbs, history,
                    at, got, seen, todo >>

CreateKb(r) ==
    /\ Move(r, "creating", "adding")
    /\ kbs' = Append(kbs, [ columns |-> 0, rows |-> NoRows ])
    /\ kb' = [ kb EXCEPT ![r] = Len(kbs) + 1 ]
    /\ UNCHANGED << release, row, snapshot, history, at, got, seen, todo >>

\* A bug the runs must catch: one column too many.
AddColumnOnceMore(r) ==
    /\ \/ Move(r, "adding", "adding") /\ kbs[kb[r]].columns < Columns
       \/ Move(r, "adding", "writing") /\ kbs[kb[r]].columns = Columns
    /\ kbs' = [ kbs EXCEPT ![kb[r]] = WithColumn(@) ]
    /\ UNCHANGED << release, row, snapshot, history, local >>

\* One add_column; after the last one existing_by_name is empty.
AddColumn(r) ==
    /\ \/ Move(r, "adding", "adding") /\ kbs[kb[r]].columns + 1 < Columns
       \/ Move(r, "adding", "writing") /\ kbs[kb[r]].columns + 1 = Columns
    /\ kbs' = [ kbs EXCEPT ![kb[r]] = WithColumn(@) ]
    /\ UNCHANGED << release, row, snapshot, history, local >>

\* A bug the runs must catch: the rows that are there are not looked up.
ListRowsBlindly(r) ==
    /\ Move(r, "listing", "writing")
    /\ UNCHANGED << release, row, snapshot, kbs, history, local >>

\* The rows of a knowledge base, by name and position.
RowsOf(b) == UNION { {e} \X DOMAIN b.rows[e] : e \in EntitySets }

\* find_rows returns so many of them and no more, in no order it promises.
FindRows(b) ==
    kSubset(IF Cardinality(RowsOf(b)) < FindRowsLimit THEN Cardinality(RowsOf(b))
            ELSE FindRowsLimit, RowsOf(b))

\* Of the rows returned those that still have a name go into existing_by_name, the
\* last one of each name.
ByName(b, view) ==
    LET named == { x \in view : x[2] \in Named(b, x[1]) }
    IN  { byName \in SUBSET named :
            /\ \A x \in named : \E y \in byName : y[1] = x[1]
            /\ \A x, y \in byName : x[1] = y[1] => x = y }

ListRows(r) ==
    LET b == kbs[kb[r]]
    IN  /\ Move(r, "listing", "writing")
        /\ \E view \in FindRows(b) : \E byName \in ByName(b, view) :
              /\ seen' = [ seen EXCEPT ![r] = byName ]
              /\ todo' = [ todo EXCEPT ![r] =
                             { i \in DOMAIN Parsed(got[r]) :
                                 \E x \in byName : x[1] = Parsed(got[r])[i].name } ]
        /\ truncated' = (truncated \/ Cardinality(RowsOf(b)) > FindRowsLimit)
        /\ UNCHANGED << release, row, snapshot, kbs, overlapped, repointed, doubled, edited,
                        at, got, kb >>

\* A bug the runs must catch: rows that exist are skipped.
UpdateRowSkipped(r) ==
    /\ Move(r, "writing", "writing")
    /\ \E i \in todo[r] : todo' = [ todo EXCEPT ![r] = @ \ {i} ]
    /\ UNCHANGED << release, row, snapshot, kbs, history, at, got, kb, seen >>

\* The loop, in the order of $metadata: one update_row per entity set that has a
\* row. It gives the row its name back, should it have lost it.
UpdateRow(r) ==
    /\ Move(r, "writing", "writing")
    /\ \E i \in todo[r], x \in seen[r] :
          /\ \A j \in todo[r] : i <= j
          /\ x[1] = Parsed(got[r])[i].name
          /\ kbs' = [ kbs EXCEPT ![kb[r]] = WithValue(@, x[1], x[2], got[r]) ]
          /\ todo' = [ todo EXCEPT ![r] = @ \ {i} ]
    /\ UNCHANGED << release, row, snapshot, history, at, got, kb, seen >>

\* A bug the runs must catch: only a fresh knowledge base is filled.
NewIfFresh(r) == { i \in DOMAIN Parsed(got[r]) : seen[r] = NothingSeen }

\* to_insert: the positions of $metadata that had no row.
New(r) == { i \in DOMAIN Parsed(got[r]) : \A x \in seen[r] : x[1] # Parsed(got[r])[i].name }

\* How many of them there are of each name.
Times(r) ==
    [ e \in EntitySets |-> Cardinality({ i \in New(r) : Parsed(got[r])[i].name = e }) ]

\* insert_batch, one call, a row for each of them.
InsertBatch(r) ==
    /\ Move(r, "writing", "reporting")
    /\ todo[r] = {}
    /\ kbs' = [ kbs EXCEPT ![kb[r]] = WithRows(@, Times(r), got[r]) ]
    /\ UNCHANGED << release, row, snapshot, history, local >>

\* The answer (and set_connection_health: ConnectionRoutes).
Report(r) ==
    /\ stage[r] = "reporting"
    /\ Over(r, "done")
    /\ UNCHANGED << release, row, snapshot, kbs, history >>

\* SAP is unreachable, a call raises, or the process dies.
GiveUp(r) ==
    /\ stage[r] \in InFlight
    /\ Over(r, "gone")
    /\ UNCHANGED << release, row, snapshot, kbs, history >>

-----------------------------------------------------------------------------
(* What goes on around it.                                                 *)

\* DELETE /connections/{id}: ON DELETE CASCADE; the knowledge base stays.
DeleteConnection ==
    /\ connection = "live"
    /\ connection' = "deleted"
    /\ snapshot' = [ p \in Paths |-> [ e \in EntitySets |-> None ] ]
    /\ UNCHANGED << release, path, kbs, history, stage, local >>

\* PATCH /connections/{id} with another base_url; the snapshot stays. (Bound:
\* one edit.)
Repoint ==
    /\ connection = "live"
    /\ ~repointed
    /\ path' \in Paths \ {path}
    /\ repointed' = TRUE
    /\ UNCHANGED << release, connection, snapshot, kbs, overlapped, truncated, doubled, edited,
                    stage, local >>

\* SAP is upgraded.
NewRelease ==
    /\ release < Releases
    /\ release' = release + 1
    /\ UNCHANGED << row, snapshot, kbs, history, stage, local >>

\* A user of the host empties a row of the knowledge base, name and all: find_rows
\* returns it still. (Bound: one edit, with a sync in flight or with none.)
EmptyRow ==
    /\ edited = "never"
    /\ edited' = IF \E r \in Syncs : stage[r] \in InFlight THEN "during" ELSE "between"
    /\ \E i \in DOMAIN kbs : \E e \in EntitySets : \E j \in Named(kbs[i], e) :
          kbs' = [ kbs EXCEPT ![i] = WithValue(@, e, j, None) ]
    /\ UNCHANGED << release, row, snapshot, overlapped, repointed, truncated, doubled,
                    stage, local >>

SyncNext(r) ==
    \/ Start(r)
    \/ Fetch(r)
    \/ Persist(r)
    \/ FindKb(r)
    \/ CreateKb(r)
    \/ AddColumn(r)
    \/ ListRows(r)
    \/ UpdateRow(r)
    \/ InsertBatch(r)
    \/ Report(r)
    \/ GiveUp(r)

Next ==
    \/ \E r \in Syncs : SyncNext(r)
    \/ DeleteConnection
    \/ Repoint
    \/ NewRelease
    \/ EmptyRow

Spec == Init /\ [][Next]_vars

-----------------------------------------------------------------------------
(* Properties.                                                             *)

\* The type invariant.
TypeOK ==
    /\ release \in 1 .. Releases
    /\ connection \in { "live", "deleted" }
    /\ path \in Paths
    /\ snapshot \in [ Paths -> [ EntitySets -> 1 .. Releases \cup {None} ] ]
    /\ kbs \in Seq(KnowledgeBase)
    /\ << overlapped, repointed, truncated, doubled >>
          \in BOOLEAN \X BOOLEAN \X BOOLEAN \X BOOLEAN
    /\ edited \in { "never", "between", "during" }
    /\ stage \in [ Syncs -> Stages ]
    /\ at \in [ Syncs -> Paths \cup {None} ]
    /\ got \in [ Syncs -> 1 .. Releases \cup {None} ]
    /\ kb \in [ Syncs -> Nat \cup {None} ]
    /\ seen \in [ Syncs -> SUBSET (EntitySets \X Nat) ]
    /\ todo \in [ Syncs -> SUBSET Nat ]

\* A document of one schema is taken in whole: each entity set it declares, in
\* whichever container, exactly as often as it declares it, in its order, with
\* the key, properties and navigations of its type.  (Of a document of several
\* schemas only the first is read, and nothing is claimed here.)
ParsedWhole ==
    \A r \in Syncs : stage[r] = "persisting" /\ Len(Documents[got[r]].schemas) = 1 =>
        LET declared == DeclaredSets(Documents[got[r]])
        IN  /\ Len(Parsed(got[r])) = Len(declared)
            /\ \A i \in DOMAIN declared :
                  Says(Documents[got[r]], Parsed(got[r])[i], declared[i])

\* However syncs overlap, fail or race an edit or a deletion, one that gets as
\* far as its report leaves a row in its knowledge base for all it fetched
\* (unless a user emptied a row meanwhile), and a snapshot row too; of a deleted
\* connection no snapshot row is left, whatever a sync in flight still writes;
\* and once one sync has succeeded, the $metadata of some release stays entirely
\* in the snapshot and in one knowledge base for as long as the connection lives,
\* whatever later syncs leave half done.
Covered ==
    /\ \A r \in Syncs : stage[r] = "reporting" =>
           \A e \in Exposes(got[r]) :
               /\ edited # "during" => Named(kbs[kb[r]], e) # {}
               /\ connection = "live" => snapshot[at[r]][e] # None
    /\ connection = "deleted" => \A p \in Paths, e \in EntitySets : snapshot[p][e] = None
    /\ connection = "live" /\ edited = "never" /\ (\E r \in Syncs : stage[r] = "done") =>
           \E past \in 1 .. release, i \in DOMAIN kbs, p \in Paths :
               /\ Parses(Documents[past])
               /\ \A e \in Exposes(past) :
                     snapshot[p][e] # None /\ Named(kbs[i], e) # {}

\* Re-syncing is idempotent, failed attempts and emptied rows included, as long as
\* no two syncs overlap, find_rows can return every row and no document names an
\* entity set twice: one knowledge base, one row per entity set.
OneOfEach ==
    /\ Len(kbs) <= 1
    /\ \A i \in DOMAIN kbs : \A e \in EntitySets :
          \A j, k \in Named(kbs[i], e) : j = k
IdempotentAlone == ~overlapped /\ ~truncated /\ ~doubled => OneOfEach

\* get_snapshot_entry asks for a name, not for a service path: what
\* sap_describe_entity may be answered from.
Described(e) == { snapshot[p][e] : p \in Paths } \ {None}

\* ... and the cache then holds exactly what was fetched: one row with the name,
\* and that one up to date (unless a user emptied a row meanwhile); an entity is
\* described as it was fetched, unless the connection has had another URL.
RefreshedAlone ==
    ~overlapped => \A r \in Syncs : stage[r] = "reporting" =>
        \A e \in Exposes(got[r]) :
            /\ ~truncated /\ ~doubled /\ edited # "during" =>
                  LET b == kbs[kb[r]]
                  IN  \E i \in Named(b, e) : Named(b, e) = {i} /\ b.rows[e][i] = got[r]
            /\ connection = "live" => snapshot[at[r]][e] = got[r]
            /\ connection = "live" /\ ~repointed => Described(e) = { got[r] }

\* ... and never goes back to an older release.
ForwardAlone ==
    [][ ~overlapped' =>
          /\ \A p \in Paths, e \in EntitySets :
                snapshot[p][e] # None /\ snapshot'[p][e] # None
                    => snapshot'[p][e] >= snapshot[p][e]
          /\ \A i \in DOMAIN kbs, e \in EntitySets : \A j \in Named(kbs[i], e) :
                j \in Named(kbs'[i], e) => kbs'[i].rows[e][j] >= kbs[i].rows[e][j] ]_vars

-----------------------------------------------------------------------------
(* What the documentation says, and the code does not do.                  *)

\* Every sync that reports has the columns of its knowledge base in place.
ColumnsComplete ==
    (\A r \in Syncs : stage[r] # "adding") =>
        \A r \in Syncs : stage[r] = "reporting" => kbs[kb[r]].columns = Columns

\* kb_seeder.py:76-78: create-or-update the knowledge base, idempotent, safe to
\* call after every re-sync.  The weakest reading, which one behaviour refutes in
\* both its parts: as long as no document names an entity set twice, there is one
\* knowledge base with one row of each name, or at least its columns are there.
SafeToCallAfterEverySync == doubled \/ OneOfEach \/ ColumnsComplete

=============================================================================
