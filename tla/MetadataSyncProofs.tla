------------------------- MODULE MetadataSyncProofs -------------------------
(***************************************************************************)
(* What holds of MetadataSync for any syncs, entity sets, documents and    *)
(* paths, however many syncs are in flight and wherever they give up.      *)
(***************************************************************************)
EXTENDS MetadataSync, FiniteSetTheorems, SequenceTheorems, WellFoundedInduction, TLAPS

-----------------------------------------------------------------------------
(* The inductive invariant.                                                *)

Fetched == InFlight \ { "fetching" }
Persisted == Fetched \ { "persisting" }

\* What a row may hold.
Cells == 1 .. Releases \cup {None}

\* What a sync has in hand: a path, a document that parsed, its knowledge base
\* and the rows it has under their names, which are rows of it, one of a name,
\* and have it still unless a user emptied one meanwhile.
InHand(r) ==
    /\ stage[r] \in InFlight => at[r] \in Paths
    /\ stage[r] \in Fetched => got[r] \in 1 .. release /\ Parses(Documents[got[r]])
    /\ stage[r] \in Persisted /\ ~doubled => NamedOnce(got[r])
    /\ stage[r] \in { "adding", "listing", "writing", "reporting" } =>
          kb[r] \in 1 .. Len(kbs)
    /\ stage[r] \notin { "writing", "reporting" } => seen[r] = {}
    /\ stage[r] = "writing" =>
          /\ \A x \in seen[r] : x[2] \in 1 .. Len(kbs[kb[r]].rows[x[1]])
          /\ \A x, y \in seen[r] : x[1] = y[1] => x = y
          /\ edited # "during" => \A x \in seen[r] : x[2] \in Named(kbs[kb[r]], x[1])

\* What it has left behind on its way.
LeftBehind(r) ==
    /\ stage[r] \in Persisted /\ connection = "live" =>
          \A e \in Exposes(got[r]) : snapshot[at[r]][e] # None
    /\ stage[r] = "reporting" /\ edited # "during" =>
          \A e \in Exposes(got[r]) : Named(kbs[kb[r]], e) # {}

\* The last two parts of Covered.
NothingLeft ==
    connection = "deleted" => \A p \in Paths, e \in EntitySets : snapshot[p][e] = None
SyncedIsCovered ==
    connection = "live" /\ edited = "never" /\ (\E r \in Syncs : stage[r] = "done") =>
        \E past \in 1 .. release, i \in DOMAIN kbs, p \in Paths :
            /\ Parses(Documents[past])
            /\ \A e \in Exposes(past) :
                  snapshot[p][e] # None /\ Named(kbs[i], e) # {}

\* Until the URL is edited everything goes to one path.
OnePath ==
    ~repointed =>
        /\ \A p \in Paths \ {path}, e \in EntitySets : snapshot[p][e] = None
        /\ \A r \in Syncs : stage[r] \in InFlight => at[r] = path

\* Every row of a name can be told from the others.
Distinct == ~truncated /\ ~doubled

\* A sync that nobody overlaps finds what it has written as it has written it;
\* and while rows are distinct it knows every row with a name there is.
Undisturbed(r) ==
    /\ \A q \in Syncs : stage[r] \in InFlight /\ stage[q] \in InFlight => q = r
    /\ stage[r] = "creating" => kbs = << >>
    /\ stage[r] = "adding" => \A e \in EntitySets : Named(kbs[kb[r]], e) = {}
    /\ stage[r] \in Persisted /\ connection = "live" =>
          \A e \in Exposes(got[r]) : snapshot[at[r]][e] = got[r]
    /\ stage[r] = "writing" /\ Distinct =>
          \A e \in EntitySets : \A j \in Named(kbs[kb[r]], e) : << e, j >> \in seen[r]
    /\ stage[r] = "writing" /\ edited # "during" =>
          \A i \in DOMAIN Parsed(got[r]) \ todo[r], x \in seen[r] :
              x[1] = Parsed(got[r])[i].name => kbs[kb[r]].rows[x[1]][x[2]] = got[r]
    /\ stage[r] = "reporting" /\ Distinct /\ edited # "during" =>
          \A e \in Exposes(got[r]) : \E j \in Named(kbs[kb[r]], e) :
              Named(kbs[kb[r]], e) = {j} /\ kbs[kb[r]].rows[e][j] = got[r]

\* What is stored is from no later release than what anybody brings.
NotAhead(n) ==
    /\ \A p \in Paths, e \in EntitySets : snapshot[p][e] # None => snapshot[p][e] <= n
    /\ \A i \in DOMAIN kbs, e \in EntitySets :
          \A j \in Named(kbs[i], e) : kbs[i].rows[e][j] <= n

NoneAhead ==
    /\ NotAhead(release)
    /\ \A r \in Syncs : stage[r] \in Fetched => NotAhead(got[r])

\* One knowledge base, and no second row of a name while rows are distinct.
AtMostOne ==
    /\ Len(kbs) <= 1
    /\ Distinct =>
          \A i \in DOMAIN kbs : \A e \in EntitySets :
              \A j, k \in Named(kbs[i], e) : j = k

Alone == ~overlapped => (\A r \in Syncs : Undisturbed(r)) /\ NoneAhead /\ AtMostOne

IInv ==
    /\ TypeOK
    /\ \A r \in Syncs : InHand(r) /\ LeftBehind(r)
    /\ NothingLeft /\ SyncedIsCovered /\ OnePath
    /\ Alone

-----------------------------------------------------------------------------
(* The operators on knowledge bases, and the rows find_rows has to give.   *)

\* A knowledge base stays one: with a column more,
LEMMA WithColumnKeeps ==
    ASSUME NEW b \in KnowledgeBase, b.columns + 1 <= Columns
    PROVE  WithColumn(b) \in KnowledgeBase /\ WithColumn(b).rows = b.rows
  BY SyncConstants DEF WithColumn, KnowledgeBase

\* with a row overwritten, and no other row but that,
LEMMA WithValueKeeps ==
    ASSUME NEW b \in KnowledgeBase, NEW e \in EntitySets,
           NEW i \in 1 .. Len(b.rows[e]), NEW n \in Cells
    PROVE  /\ WithValue(b, e, i, n) \in KnowledgeBase
           /\ \A f \in EntitySets : Len(WithValue(b, e, i, n).rows[f]) = Len(b.rows[f])
           /\ \A f \in EntitySets : \A j \in 1 .. Len(b.rows[f]) :
                 WithValue(b, e, i, n).rows[f][j] = IF f = e /\ j = i THEN n ELSE b.rows[f][j]
<1>1. b.columns \in 0 .. Columns /\ b.rows \in [ EntitySets -> Seq(Cells) ]
  BY DEF KnowledgeBase, Cells
<1> DEFINE s == [ b.rows[e] EXCEPT ![i] = n ]
<1>2. /\ s \in Seq(Cells) /\ Len(s) = Len(b.rows[e])
      /\ \A j \in 1 .. Len(b.rows[e]) : s[j] = IF j = i THEN n ELSE b.rows[e][j]
  BY <1>1
<1>3. WithValue(b, e, i, n).rows = [ b.rows EXCEPT ![e] = s ]
  BY DEF WithValue
<1>4. WithValue(b, e, i, n).columns = b.columns
      /\ WithValue(b, e, i, n) = [ columns |-> b.columns, rows |-> [ b.rows EXCEPT ![e] = s ] ]
  BY DEF WithValue
<1> HIDE DEF s
<1>5. [ b.rows EXCEPT ![e] = s ] \in [ EntitySets -> Seq(Cells) ]
  BY <1>1, <1>2
<1>6. WithValue(b, e, i, n) \in KnowledgeBase
  BY <1>1, <1>4, <1>5 DEF KnowledgeBase, Cells
<1>7. \A f \in EntitySets :
        WithValue(b, e, i, n).rows[f] = IF f = e THEN s ELSE b.rows[f]
  BY <1>1, <1>3
<1> QED BY <1>2, <1>6, <1>7

\* and with rows more for each name.
Copies(m, n) == [ k \in 1 .. m |-> n ]

LEMMA Extended ==
    ASSUME NEW s \in Seq(Cells), NEW m \in Nat, NEW n \in Cells
    PROVE  /\ s \o Copies(m, n) \in Seq(Cells) /\ Len(s \o Copies(m, n)) = Len(s) + m
           /\ \A j \in 1 .. Len(s) + m :
                 (s \o Copies(m, n))[j] = IF j <= Len(s) THEN s[j] ELSE n
<1> DEFINE more == Copies(m, n)
<1>1. more \in Seq(Cells) /\ Len(more) = m /\ \A k \in 1 .. m : more[k] = n
  BY DEF Copies
<1>2. Len(s) \in Nat
  OBVIOUS
<1> HIDE DEF more
<1>3. /\ s \o more \in Seq(Cells) /\ Len(s \o more) = Len(s) + Len(more)
      /\ \A j \in 1 .. Len(s) + Len(more) :
            (s \o more)[j] = IF j <= Len(s) THEN s[j] ELSE more[j - Len(s)]
  BY <1>1, ConcatProperties
<1>4. \A j \in 1 .. Len(s) + m : ~ (j <= Len(s)) => j - Len(s) \in 1 .. m
  BY <1>2
<1>5. \A j \in 1 .. Len(s) + m : (s \o more)[j] = IF j <= Len(s) THEN s[j] ELSE n
  BY <1>1, <1>3, <1>4
<1> QED BY <1>1, <1>3, <1>5 DEF more

LEMMA WithRowsKeeps ==
    ASSUME NEW b \in KnowledgeBase, NEW times \in [ EntitySets -> Nat ], NEW n \in Cells
    PROVE  /\ WithRows(b, times, n) \in KnowledgeBase
           /\ \A f \in EntitySets :
                 /\ Len(WithRows(b, times, n).rows[f]) = Len(b.rows[f]) + times[f]
                 /\ \A j \in 1 .. Len(b.rows[f]) + times[f] :
                       WithRows(b, times, n).rows[f][j]
                          = IF j <= Len(b.rows[f]) THEN b.rows[f][j] ELSE n
<1> DEFINE grown == [ e \in EntitySets |-> b.rows[e] \o [ k \in 1 .. times[e] |-> n ] ]
<1>1. b.columns \in 0 .. Columns /\ b.rows \in [ EntitySets -> Seq(Cells) ]
  BY DEF KnowledgeBase, Cells
<1>2. ASSUME NEW e \in EntitySets
      PROVE  /\ grown[e] \in Seq(Cells) /\ Len(grown[e]) = Len(b.rows[e]) + times[e]
             /\ \A j \in 1 .. Len(b.rows[e]) + times[e] :
                   grown[e][j] = IF j <= Len(b.rows[e]) THEN b.rows[e][j] ELSE n
  <2>1. b.rows[e] \in Seq(Cells) /\ times[e] \in Nat
    BY <1>1
  <2>2. grown[e] = b.rows[e] \o Copies(times[e], n)
    BY DEF Copies
  <2> DEFINE old == b.rows[e]
             m == times[e]
  <2> HIDE DEF grown, old, m
  <2>3. old \in Seq(Cells) /\ m \in Nat
    BY <2>1 DEF old, m
  <2>4. /\ old \o Copies(m, n) \in Seq(Cells) /\ Len(old \o Copies(m, n)) = Len(old) + m
        /\ \A j \in 1 .. Len(old) + m :
              (old \o Copies(m, n))[j] = IF j <= Len(old) THEN old[j] ELSE n
    BY <2>3, Extended
  <2> QED BY <2>2, <2>4 DEF old, m
<1>3. grown \in [ EntitySets -> Seq(Cells) ]
  <2>1. DOMAIN grown = EntitySets
    OBVIOUS
  <2>2. grown = [ e \in EntitySets |-> grown[e] ]
    OBVIOUS
  <2> HIDE DEF grown
  <2> QED BY <1>2, <2>2
<1>4. WithRows(b, times, n) = [ columns |-> b.columns, rows |-> grown ]
  BY DEF WithRows
<1> HIDE DEF grown
<1> QED BY <1>1, <1>2, <1>3, <1>4 DEF KnowledgeBase, Cells

\* There are finitely many rows; when find_rows may return as many as there are,
\* it returns every one.
LEMMA RowsOfFinite ==
    ASSUME NEW b \in KnowledgeBase
    PROVE  IsFiniteSet(RowsOf(b)) /\ Cardinality(RowsOf(b)) \in Nat
<1>1. b.rows \in [ EntitySets -> Seq(Cells) ]
  BY DEF KnowledgeBase, Cells
<1> DEFINE f == [ e \in EntitySets |-> {e} \X DOMAIN b.rows[e] ]
           family == { {e} \X DOMAIN b.rows[e] : e \in EntitySets }
<1>2. f \in Surjection(EntitySets, family)
  BY DEF Surjection
<1>3. IsFiniteSet(EntitySets)
  BY SyncConstants
<1>4. IsFiniteSet(family)
  BY <1>2, <1>3, FS_Surjection, Zenon
<1>5. ASSUME NEW T \in family PROVE IsFiniteSet(T)
  <2>1. PICK e \in EntitySets : T = {e} \X DOMAIN b.rows[e]
    OBVIOUS
  <2>2. DOMAIN b.rows[e] = 1 .. Len(b.rows[e]) /\ Len(b.rows[e]) \in Nat
    BY <1>1
  <2>3. IsFiniteSet(DOMAIN b.rows[e])
    BY <2>2, FS_Interval
  <2>4. IsFiniteSet({e})
    BY FS_Singleton
  <2> QED BY <2>1, <2>3, <2>4, FS_Product
<1>6. RowsOf(b) = UNION family
  BY DEF RowsOf
<1> HIDE DEF family
<1>7. IsFiniteSet(RowsOf(b))
  BY <1>4, <1>5, <1>6, FS_UNION
<1> QED BY <1>7, FS_CardinalityType

\* What find_rows can give is a row of the knowledge base.
LEMMA RowOf ==
    ASSUME NEW b \in KnowledgeBase, NEW x \in RowsOf(b)
    PROVE  /\ x \in EntitySets \X Nat
           /\ x[1] \in EntitySets /\ x[2] \in 1 .. Len(b.rows[x[1]])
<1>1. b.rows \in [ EntitySets -> Seq(Cells) ]
  BY DEF KnowledgeBase, Cells
<1>2. PICK e \in EntitySets : x \in {e} \X DOMAIN b.rows[e]
  BY DEF RowsOf
<1>3. x = << x[1], x[2] >> /\ x[1] = e /\ x[2] \in DOMAIN b.rows[e]
  BY <1>2
<1>4. DOMAIN b.rows[e] = 1 .. Len(b.rows[e]) /\ Len(b.rows[e]) \in Nat
  BY <1>1
<1> QED BY <1>3, <1>4

\* Below its limit find_rows gives them all.
LEMMA WholeView ==
    ASSUME NEW b \in KnowledgeBase, Cardinality(RowsOf(b)) <= FindRowsLimit,
           NEW view \in FindRows(b)
    PROVE  view = RowsOf(b)
<1>1. FindRowsLimit \in Nat
  BY SyncConstants
<1>2. view \in SUBSET RowsOf(b) /\ Cardinality(view) = Cardinality(RowsOf(b))
  BY <1>1, RowsOfFinite DEF FindRows, kSubset
<1> QED BY <1>2, RowsOfFinite, FS_Subset

\* A row with a name is among them.
LEMMA HasRow ==
    ASSUME NEW b \in KnowledgeBase, NEW e \in EntitySets, NEW j \in Named(b, e)
    PROVE  << e, j >> \in RowsOf(b)
<1>1. << e, j >> \in {e} \X DOMAIN b.rows[e]
  BY DEF Named
<1> QED BY <1>1 DEF RowsOf

\* The rows with a name are at positions, and have been written from a release.
LEMMA NamedOf ==
    ASSUME NEW b \in KnowledgeBase, NEW e \in EntitySets
    PROVE  /\ Named(b, e) = { j \in 1 .. Len(b.rows[e]) : b.rows[e][j] # None }
           /\ Len(b.rows[e]) \in Nat
           /\ \A j \in Named(b, e) : b.rows[e][j] \in 1 .. Releases
<1>1. b.rows[e] \in Seq(Cells)
  BY DEF KnowledgeBase, Cells
<1>2. DOMAIN b.rows[e] = 1 .. Len(b.rows[e]) /\ Len(b.rows[e]) \in Nat
  BY <1>1
<1>3. \A j \in 1 .. Len(b.rows[e]) : b.rows[e][j] \in Cells
  BY <1>1, ElementOfSeq
<1> QED BY <1>2, <1>3 DEF Named, Cells

\* Which rows have a name once one is overwritten with a release,
LEMMA WithValueNames ==
    ASSUME NEW b \in KnowledgeBase, NEW e \in EntitySets,
           NEW i \in 1 .. Len(b.rows[e]), NEW n \in 1 .. Releases, NEW f \in EntitySets
    PROVE  /\ f = e => Named(WithValue(b, e, i, n), f) = Named(b, f) \cup {i}
           /\ f # e => Named(WithValue(b, e, i, n), f) = Named(b, f)
<1> DEFINE v == WithValue(b, e, i, n)
<1>1. n \in Cells /\ n # None
  BY SyncConstants DEF Cells
<1>2. /\ v \in KnowledgeBase /\ Len(v.rows[f]) = Len(b.rows[f])
      /\ \A j \in 1 .. Len(b.rows[f]) :
            v.rows[f][j] = IF f = e /\ j = i THEN n ELSE b.rows[f][j]
  BY <1>1, WithValueKeeps
<1> HIDE DEF v
<1>3. /\ Named(v, f) = { j \in 1 .. Len(v.rows[f]) : v.rows[f][j] # None }
      /\ Named(b, f) = { j \in 1 .. Len(b.rows[f]) : b.rows[f][j] # None }
  BY <1>2, NamedOf
<1> QED BY <1>1, <1>2, <1>3 DEF v

\* once one is emptied,
LEMMA EmptiedNames ==
    ASSUME NEW b \in KnowledgeBase, NEW e \in EntitySets,
           NEW i \in 1 .. Len(b.rows[e]), NEW f \in EntitySets
    PROVE  Named(WithValue(b, e, i, None), f) \subseteq Named(b, f)
<1> DEFINE v == WithValue(b, e, i, None)
<1>1. None \in Cells
  BY DEF Cells
<1>2. /\ v \in KnowledgeBase /\ Len(v.rows[f]) = Len(b.rows[f])
      /\ \A j \in 1 .. Len(b.rows[f]) :
            v.rows[f][j] = IF f = e /\ j = i THEN None ELSE b.rows[f][j]
  BY <1>1, WithValueKeeps
<1> HIDE DEF v
<1>3. /\ Named(v, f) = { j \in 1 .. Len(v.rows[f]) : v.rows[f][j] # None }
      /\ Named(b, f) = { j \in 1 .. Len(b.rows[f]) : b.rows[f][j] # None }
  BY <1>2, NamedOf
<1> QED BY <1>2, <1>3 DEF v

\* and once rows are added.
LEMMA WithRowsNames ==
    ASSUME NEW b \in KnowledgeBase, NEW times \in [ EntitySets -> Nat ],
           NEW n \in 1 .. Releases, NEW f \in EntitySets
    PROVE  Named(WithRows(b, times, n), f)
              = Named(b, f) \cup (Len(b.rows[f]) + 1 .. Len(b.rows[f]) + times[f])
<1> DEFINE v == WithRows(b, times, n)
<1>1. n \in Cells /\ n # None /\ times[f] \in Nat
  BY SyncConstants DEF Cells
<1>2. /\ v \in KnowledgeBase /\ Len(v.rows[f]) = Len(b.rows[f]) + times[f]
      /\ \A j \in 1 .. Len(b.rows[f]) + times[f] :
            v.rows[f][j] = IF j <= Len(b.rows[f]) THEN b.rows[f][j] ELSE n
  <2>1. /\ v \in KnowledgeBase
        /\ \A g \in EntitySets :
              /\ Len(v.rows[g]) = Len(b.rows[g]) + times[g]
              /\ \A j \in 1 .. Len(b.rows[g]) + times[g] :
                    v.rows[g][j] = IF j <= Len(b.rows[g]) THEN b.rows[g][j] ELSE n
    BY <1>1, WithRowsKeeps
  <2> HIDE DEF v
  <2> QED BY <2>1
<1> HIDE DEF v
<1>3. /\ Named(v, f) = { j \in 1 .. Len(v.rows[f]) : v.rows[f][j] # None }
      /\ Named(b, f) = { j \in 1 .. Len(b.rows[f]) : b.rows[f][j] # None }
      /\ Len(b.rows[f]) \in Nat
  BY <1>2, NamedOf
<1>4. PICK m, t : m = Len(b.rows[f]) /\ t = times[f]
  OBVIOUS
<1>5. m \in Nat /\ t \in Nat /\ Named(b, f) \subseteq 1 .. m /\ Named(v, f) \subseteq 1 .. m + t
  BY <1>1, <1>2, <1>3, <1>4
<1>6. \A j \in 1 .. m : j \in Named(v, f) <=> j \in Named(b, f)
  BY <1>1, <1>2, <1>3, <1>4, SMTT(40)
<1>7. \A j \in m + 1 .. m + t : j \in Named(v, f) /\ j \notin 1 .. m
  BY <1>1, <1>2, <1>3, <1>4
<1>8. \A j \in 1 .. m + t : j \in 1 .. m \/ j \in m + 1 .. m + t
  BY <1>5
<1>9. Named(v, f) = Named(b, f) \cup (m + 1 .. m + t)
  BY <1>5, <1>6, <1>7, <1>8
<1> QED BY <1>4, <1>9 DEF v

\* Whatever parses, at the release it was fetched from, names known entity sets.
LEMMA ExposesKnown ==
    ASSUME NEW n \in 1 .. Releases, Parses(Documents[n])
    PROVE  Exposes(n) \subseteq EntitySets
  BY SyncConstants

\* What it exposes is what is named at its positions.
LEMMA ParsedList ==
    ASSUME NEW n \in 1 .. Releases, Parses(Documents[n])
    PROVE  /\ Len(Parsed(n)) \in Nat /\ DOMAIN Parsed(n) = 1 .. Len(Parsed(n))
           /\ Exposes(n) = { Parsed(n)[i].name : i \in DOMAIN Parsed(n) }
<1>1. Parsed(n) \in Seq(Range(Parsed(n)))
  BY SyncConstants DEF IsList
<1>2. Len(Parsed(n)) \in Nat /\ DOMAIN Parsed(n) = 1 .. Len(Parsed(n))
  BY <1>1
<1> QED BY <1>2 DEF Exposes, Range

-----------------------------------------------------------------------------
(* What a step leaves as it is, and what only grows.                       *)

\* A sync that takes no part in the step.
Bystander(q) ==
    /\ stage'[q] = stage[q] /\ at'[q] = at[q] /\ got'[q] = got[q]
    /\ kb'[q] = kb[q] /\ seen'[q] = seen[q] /\ todo'[q] = todo[q]

\* But for the row a user empties, knowledge bases and their rows are there for
\* good, with their names; as long as the connection lives so are its snapshot
\* rows.
Grown ==
    /\ release' >= release
    /\ edited' = edited
    /\ doubled => doubled'
    /\ Len(kbs') >= Len(kbs)
    /\ \A i \in 1 .. Len(kbs), e \in EntitySets :
          /\ Len(kbs'[i].rows[e]) >= Len(kbs[i].rows[e])
          /\ Named(kbs[i], e) \subseteq Named(kbs'[i], e)
    /\ connection' = "live" =>
          /\ connection = "live"
          /\ \A p \in Paths, e \in EntitySets : snapshot[p][e] # None => snapshot'[p][e] # None

\* A step of one sync has no other taking part.
LEMMA Bystanders ==
    ASSUME NEW r \in Syncs, TypeOK, SyncNext(r), NEW q \in Syncs, q # r
    PROVE  Bystander(q)
<1> USE DEF Bystander, TypeOK, Move
<1>1. CASE Start(r) BY <1>1 DEF Start
<1>2. CASE Fetch(r) BY <1>2 DEF Fetch
<1>3. CASE Persist(r) BY <1>3 DEF Persist, local
<1>4. CASE FindKb(r) BY <1>4 DEF FindKb
<1>5. CASE CreateKb(r) BY <1>5 DEF CreateKb
<1>6. CASE AddColumn(r) BY <1>6 DEF AddColumn, local
<1>7. CASE ListRows(r) BY <1>7 DEF ListRows
<1>8. CASE UpdateRow(r) BY <1>8 DEF UpdateRow
<1>9. CASE InsertBatch(r) BY <1>9 DEF InsertBatch, local
<1>10. CASE Report(r) BY <1>10 DEF Report, Over
<1>11. CASE GiveUp(r) BY <1>11 DEF GiveUp, Over
<1> QED BY <1>1, <1>2, <1>3, <1>4, <1>5, <1>6, <1>7, <1>8, <1>9, <1>10, <1>11 DEF SyncNext

LEMMA KbsType ==
    ASSUME NEW K \in Seq(KnowledgeBase)
    PROVE  /\ Len(K) \in Nat /\ DOMAIN K = 1 .. Len(K)
           /\ \A i \in 1 .. Len(K) :
                 /\ K[i] \in KnowledgeBase
                 /\ K[i].columns \in 0 .. Columns
                 /\ \A e \in EntitySets :
                       /\ Len(K[i].rows[e]) \in Nat
                       /\ Named(K[i], e) = { j \in 1 .. Len(K[i].rows[e]) :
                                                K[i].rows[e][j] # None }
                       /\ \A j \in Named(K[i], e) : K[i].rows[e][j] \in 1 .. Releases
<1>1. Len(K) \in Nat /\ DOMAIN K = 1 .. Len(K) /\ \A i \in 1 .. Len(K) : K[i] \in KnowledgeBase
  OBVIOUS
<1>2. \A b \in KnowledgeBase : b.columns \in 0 .. Columns
  BY DEF KnowledgeBase
<1> QED BY <1>1, <1>2, NamedOf

LEMMA KbType ==
    ASSUME TypeOK
    PROVE  /\ Len(kbs) \in Nat /\ DOMAIN kbs = 1 .. Len(kbs)
           /\ \A i \in 1 .. Len(kbs) :
                 /\ kbs[i] \in KnowledgeBase
                 /\ kbs[i].columns \in 0 .. Columns
                 /\ \A e \in EntitySets :
                       /\ Len(kbs[i].rows[e]) \in Nat
                       /\ Named(kbs[i], e) = { j \in 1 .. Len(kbs[i].rows[e]) :
                                                  kbs[i].rows[e][j] # None }
                       /\ \A j \in Named(kbs[i], e) : kbs[i].rows[e][j] \in 1 .. Releases
<1>1. kbs \in Seq(KnowledgeBase)
  BY DEF TypeOK
<1> QED BY <1>1, KbsType

\* What is in hand of the types.
LEMMA FetchedType ==
    ASSUME NEW r \in Syncs, TypeOK, InHand(r), stage[r] \in Fetched
    PROVE  /\ at[r] \in Paths /\ got[r] \in 1 .. Releases /\ got[r] \in 1 .. release
           /\ got[r] \in Nat
           /\ Exposes(got[r]) \subseteq EntitySets
           /\ Len(Parsed(got[r])) \in Nat /\ DOMAIN Parsed(got[r]) = 1 .. Len(Parsed(got[r]))
           /\ Exposes(got[r]) = { Parsed(got[r])[i].name : i \in DOMAIN Parsed(got[r]) }
<1>1. at[r] \in Paths /\ got[r] \in 1 .. release /\ Parses(Documents[got[r]])
  BY DEF InHand, Fetched
<1>2. release \in 1 .. Releases /\ Releases \in Nat
  BY SyncConstants DEF TypeOK
<1>3. got[r] \in 1 .. Releases /\ got[r] \in Nat
  BY <1>1, <1>2
<1> QED BY <1>1, <1>3, ExposesKnown, ParsedList

\* What insert_batch adds: rows for the names that were not seen, one of each
\* when no name is there twice.
LEMMA TimesType ==
    ASSUME NEW r \in Syncs, TypeOK, InHand(r), stage[r] = "writing"
    PROVE  /\ Times(r) \in [ EntitySets -> Nat ]
           /\ \A e \in EntitySets :
                 /\ Times(r)[e] >= 1 <=>
                       e \in Exposes(got[r]) /\ \A x \in seen[r] : x[1] # e
                 /\ ~doubled => Times(r)[e] <= 1
<1>1. stage[r] \in Fetched /\ stage[r] \in Persisted
  BY DEF Fetched, Persisted, InFlight
<1>2. /\ Len(Parsed(got[r])) \in Nat /\ DOMAIN Parsed(got[r]) = 1 .. Len(Parsed(got[r]))
      /\ Exposes(got[r]) = { Parsed(got[r])[i].name : i \in DOMAIN Parsed(got[r]) }
  BY <1>1, FetchedType
<1> DEFINE At(e) == { i \in New(r) : Parsed(got[r])[i].name = e }
<1>3. ASSUME NEW e \in EntitySets
      PROVE  /\ Cardinality(At(e)) \in Nat
             /\ Cardinality(At(e)) >= 1 <=> At(e) # {}
             /\ ~doubled => Cardinality(At(e)) <= 1
  <2>1. At(e) \in SUBSET (1 .. Len(Parsed(got[r])))
    BY <1>2 DEF New
  <2>2. IsFiniteSet(1 .. Len(Parsed(got[r])))
    <3>1. PICK n \in Nat : n = Len(Parsed(got[r]))
      BY <1>2
    <3>2. IsFiniteSet(1 .. n)
      BY FS_Interval
    <3> QED BY <3>1, <3>2
  <2>3. ~doubled => \A i, j \in At(e) : i = j
    BY <1>1 DEF InHand, NamedOnce, New
  <2> HIDE DEF At
  <2>4. IsFiniteSet(At(e))
    BY <2>1, <2>2, FS_Subset
  <2>5. Cardinality(At(e)) \in Nat /\ (Cardinality(At(e)) = 0 <=> At(e) = {})
    BY <2>4, FS_CardinalityType, FS_EmptySet
  <2>6. ASSUME ~doubled, At(e) # {} PROVE Cardinality(At(e)) = 1
    <3>1. PICK i \in At(e) : At(e) = {i}
      BY <2>3, <2>6
    <3> QED BY <3>1, FS_Singleton
  <2> QED BY <2>5, <2>6
<1>4. \A e \in EntitySets : At(e) # {} <=>
          e \in Exposes(got[r]) /\ \A x \in seen[r] : x[1] # e
  BY <1>2 DEF New
<1>5. Times(r) = [ e \in EntitySets |-> Cardinality(At(e)) ]
  BY DEF Times
<1> HIDE DEF At
<1> QED BY <1>3, <1>4, <1>5

-----------------------------------------------------------------------------
(* Every step keeps the types and what only grows.                         *)

\* A knowledge base is replaced by one that has what it had.
LEMMA Replaced ==
    ASSUME NEW i \in 1 .. Len(kbs), NEW b \in KnowledgeBase, TypeOK,
           kbs' = [ kbs EXCEPT ![i] = b ],
           \A e \in EntitySets : /\ Len(b.rows[e]) >= Len(kbs[i].rows[e])
                                 /\ Named(kbs[i], e) \subseteq Named(b, e)
    PROVE  /\ kbs' \in Seq(KnowledgeBase) /\ Len(kbs') = Len(kbs)
           /\ kbs'[i] = b
           /\ \A j \in 1 .. Len(kbs) : j # i => kbs'[j] = kbs[j]
           /\ \A j \in 1 .. Len(kbs), e \in EntitySets :
                 /\ Len(kbs'[j].rows[e]) >= Len(kbs[j].rows[e])
                 /\ Named(kbs[j], e) \subseteq Named(kbs'[j], e)
<1>1. /\ kbs' \in Seq(KnowledgeBase) /\ Len(kbs') = Len(kbs)
      /\ kbs'[i] = b
      /\ \A j \in 1 .. Len(kbs) : j # i => kbs'[j] = kbs[j]
  BY DEF TypeOK
<1> QED BY <1>1, KbType

\* Each step of a sync in turn.
LEMMA StartType ==
    ASSUME NEW r \in Syncs, TypeOK, Start(r) PROVE TypeOK' /\ Grown
<1>1. TypeOK'
  BY DEF TypeOK, Start, Move, row, Stages, InFlight
<1> QED BY <1>1, KbType, SyncConstants DEF TypeOK, Start, Grown, row, history

LEMMA FetchType ==
    ASSUME NEW r \in Syncs, TypeOK, Fetch(r) PROVE TypeOK' /\ Grown
<1>1. TypeOK'
  BY DEF TypeOK, Fetch, Move, row, history, Stages, InFlight
<1> QED BY <1>1, KbType, SyncConstants DEF TypeOK, Fetch, Grown, row, history

LEMMA PersistType ==
    ASSUME NEW r \in Syncs, TypeOK, InHand(r), Persist(r) PROVE TypeOK' /\ Grown
<1>1. stage[r] \in Fetched
  BY DEF Persist, Move, Fetched, InFlight
<1>2. at[r] \in Paths /\ got[r] \in 1 .. Releases /\ got[r] \in Nat /\ Exposes(got[r]) \subseteq EntitySets
  BY <1>1, FetchedType
<1> DEFINE new == [ e \in EntitySets |-> IF e \in Exposes(got[r]) THEN got[r]
                                         ELSE snapshot[at[r]][e] ]
<1>3. snapshot' = [ snapshot EXCEPT ![at[r]] = new ]
  BY DEF Persist
<1>4. new \in [ EntitySets -> 1 .. Releases \cup {None} ]
  BY <1>2 DEF TypeOK
<1>5. snapshot' \in [ Paths -> [ EntitySets -> 1 .. Releases \cup {None} ] ]
  BY <1>3, <1>4 DEF TypeOK
<1>6. TypeOK'
  <2>1. doubled' \in BOOLEAN
    BY DEF TypeOK, Persist
  <2> QED BY <1>5, <2>1 DEF TypeOK, Persist, Move, row, local, Stages, InFlight
<1>7. \A e \in EntitySets : snapshot[at[r]][e] # None => new[e] # None
  BY <1>2, SyncConstants
<1>8. \A p \in Paths, e \in EntitySets : snapshot[p][e] # None => snapshot'[p][e] # None
  BY <1>2, <1>3, <1>7 DEF TypeOK
<1> QED BY <1>6, <1>8, KbType, SyncConstants DEF TypeOK, Persist, Grown, row, history

LEMMA FindKbType ==
    ASSUME NEW r \in Syncs, TypeOK, FindKb(r) PROVE TypeOK' /\ Grown
<1>1. DOMAIN kbs \subseteq Nat
  BY KbType
<1>2. TypeOK'
  BY <1>1 DEF TypeOK, FindKb, Move, row, history, Stages, InFlight
<1> QED BY <1>2, KbType, SyncConstants DEF TypeOK, FindKb, Grown, row, history

LEMMA CreateKbType ==
    ASSUME NEW r \in Syncs, TypeOK, CreateKb(r) PROVE TypeOK' /\ Grown
<1> DEFINE new == [ columns |-> 0, rows |-> NoRows ]
<1>1. new \in KnowledgeBase
  BY SyncConstants DEF KnowledgeBase, NoRows
<1>2. kbs' = Append(kbs, new)
  BY DEF CreateKb
<1> HIDE DEF new
<1>3. /\ kbs' \in Seq(KnowledgeBase) /\ Len(kbs') = Len(kbs) + 1 /\ Len(kbs) \in Nat
      /\ \A i \in 1 .. Len(kbs) : kbs'[i] = kbs[i]
  BY <1>1, <1>2 DEF TypeOK
<1>4. kb' \in [ Syncs -> Nat \cup {None} ]
  BY <1>3 DEF TypeOK, CreateKb
<1>5. TypeOK'
  BY <1>3, <1>4 DEF TypeOK, CreateKb, Move, row, history, Stages, InFlight
<1>6. \A i \in 1 .. Len(kbs) : kbs'[i] = kbs[i]
  BY <1>3
<1> QED BY <1>3, <1>5, <1>6, KbType, SyncConstants DEF TypeOK, CreateKb, Grown, row, history

LEMMA AddColumnType ==
    ASSUME NEW r \in Syncs, TypeOK, InHand(r), AddColumn(r) PROVE TypeOK' /\ Grown
<1> DEFINE i == kb[r]
           b == kbs[i]
<1>1. i \in 1 .. Len(kbs)
  BY DEF AddColumn, Move, InHand
<1>2. b \in KnowledgeBase /\ b.columns \in Nat
  BY <1>1, KbType, SyncConstants
<1>3. b.columns + 1 <= Columns
  BY <1>2, SyncConstants DEF AddColumn
<1>4. WithColumn(b) \in KnowledgeBase /\ WithColumn(b).rows = b.rows
  BY <1>2, <1>3, WithColumnKeeps
<1>5. kbs' = [ kbs EXCEPT ![i] = WithColumn(b) ]
  BY DEF AddColumn
<1>6. \A e \in EntitySets : /\ Len(WithColumn(b).rows[e]) >= Len(b.rows[e])
                            /\ Named(b, e) \subseteq Named(WithColumn(b), e)
  BY <1>1, <1>4, KbType DEF Named
<1>7. /\ kbs' \in Seq(KnowledgeBase) /\ Len(kbs') = Len(kbs)
      /\ \A j \in 1 .. Len(kbs), e \in EntitySets :
            /\ Len(kbs'[j].rows[e]) >= Len(kbs[j].rows[e])
            /\ Named(kbs[j], e) \subseteq Named(kbs'[j], e)
  BY <1>1, <1>4, <1>5, <1>6, Replaced
<1>8. TypeOK'
  BY <1>7 DEF TypeOK, AddColumn, Move, row, history, local, Stages, InFlight
<1> QED BY <1>7, <1>8, KbType, SyncConstants DEF TypeOK, AddColumn, Grown, row, history

LEMMA ListRowsType ==
    ASSUME NEW r \in Syncs, TypeOK, InHand(r), ListRows(r) PROVE TypeOK' /\ Grown
<1>1. kbs[kb[r]] \in KnowledgeBase
  BY KbType DEF ListRows, Move, InHand
<1>2. stage[r] \in Fetched
  BY DEF ListRows, Move, Fetched, InFlight
<1>3. DOMAIN Parsed(got[r]) \subseteq Nat
  BY <1>2, FetchedType
<1>4. PICK byName \in SUBSET RowsOf(kbs[kb[r]]) :
        /\ seen' = [ seen EXCEPT ![r] = byName ]
        /\ todo' = [ todo EXCEPT ![r] = { i \in DOMAIN Parsed(got[r]) :
                                            \E x \in byName : x[1] = Parsed(got[r])[i].name } ]
  <2>0. PICK view \in FindRows(kbs[kb[r]]) : \E byName \in ByName(kbs[kb[r]], view) :
          /\ seen' = [ seen EXCEPT ![r] = byName ]
          /\ todo' = [ todo EXCEPT ![r] = { i \in DOMAIN Parsed(got[r]) :
                                          \E x \in byName : x[1] = Parsed(got[r])[i].name } ]
    BY DEF ListRows
  <2>1. PICK byName \in ByName(kbs[kb[r]], view) :
          /\ seen' = [ seen EXCEPT ![r] = byName ]
          /\ todo' = [ todo EXCEPT ![r] = { i \in DOMAIN Parsed(got[r]) :
                                          \E x \in byName : x[1] = Parsed(got[r])[i].name } ]
    BY <2>0
  <2>2. byName \in SUBSET RowsOf(kbs[kb[r]])
    BY <2>0, <2>1 DEF FindRows, ByName, kSubset
  <2> QED BY <2>1, <2>2
<1>5. byName \in SUBSET (EntitySets \X Nat)
  BY <1>1, RowOf
<1>6. seen' \in [ Syncs -> SUBSET (EntitySets \X Nat) ] /\ todo' \in [ Syncs -> SUBSET Nat ]
  BY <1>3, <1>4, <1>5 DEF TypeOK
<1>7. truncated' \in BOOLEAN
  BY DEF ListRows, TypeOK
<1>8. TypeOK'
  BY <1>6, <1>7 DEF TypeOK, ListRows, Move, row, Stages, InFlight
<1> QED BY <1>8, KbType, SyncConstants DEF TypeOK, ListRows, Grown, row

LEMMA UpdateRowType ==
    ASSUME NEW r \in Syncs, TypeOK, InHand(r), UpdateRow(r) PROVE TypeOK' /\ Grown
<1> DEFINE i == kb[r]
           b == kbs[i]
<1>1. i \in 1 .. Len(kbs) /\ b \in KnowledgeBase
  BY KbType DEF UpdateRow, Move, InHand
<1>2. stage[r] \in Fetched
  BY DEF UpdateRow, Move, Fetched, InFlight
<1>3. got[r] \in 1 .. Releases
  BY <1>2, FetchedType
<1>4. PICK p \in todo[r], x \in seen[r] :
        /\ kbs' = [ kbs EXCEPT ![i] = WithValue(b, x[1], x[2], got[r]) ]
        /\ todo' = [ todo EXCEPT ![r] = @ \ {p} ]
  BY DEF UpdateRow
<1>5. x[1] \in EntitySets /\ x[2] \in 1 .. Len(b.rows[x[1]])
  BY DEF UpdateRow, Move, InHand, TypeOK
<1>6. /\ WithValue(b, x[1], x[2], got[r]) \in KnowledgeBase
      /\ \A e \in EntitySets :
            /\ Len(WithValue(b, x[1], x[2], got[r]).rows[e]) = Len(b.rows[e])
            /\ Named(b, e) \subseteq Named(WithValue(b, x[1], x[2], got[r]), e)
  <2>1. \A f \in EntitySets : \A j \in 1 .. Len(b.rows[f]) :
           /\ WithValue(b, f, j, got[r]) \in KnowledgeBase
           /\ \A e \in EntitySets :
                 /\ Len(WithValue(b, f, j, got[r]).rows[e]) = Len(b.rows[e])
                 /\ Named(b, e) \subseteq Named(WithValue(b, f, j, got[r]), e)
    <3>1. got[r] \in Cells
      BY <1>3 DEF Cells
    <3> HIDE DEF b
    <3>2. \A f \in EntitySets : \A j \in 1 .. Len(b.rows[f]) :
             /\ WithValue(b, f, j, got[r]) \in KnowledgeBase
             /\ \A e \in EntitySets :
                   Len(WithValue(b, f, j, got[r]).rows[e]) = Len(b.rows[e])
      BY <1>1, <3>1, WithValueKeeps
    <3>3. \A f, e \in EntitySets : \A j \in 1 .. Len(b.rows[f]) :
             /\ e = f => Named(WithValue(b, f, j, got[r]), e) = Named(b, e) \cup {j}
             /\ e # f => Named(WithValue(b, f, j, got[r]), e) = Named(b, e)
      BY <1>1, <1>3, WithValueNames
    <3>4. \A f, e \in EntitySets : \A j \in 1 .. Len(b.rows[f]) :
             Named(b, e) \subseteq Named(WithValue(b, f, j, got[r]), e)
      BY <3>3
    <3> QED BY <3>2, <3>4
  <2> QED BY <1>5, <2>1
<1>7. /\ kbs' \in Seq(KnowledgeBase) /\ Len(kbs') = Len(kbs)
      /\ \A j \in 1 .. Len(kbs), e \in EntitySets :
            /\ Len(kbs'[j].rows[e]) >= Len(kbs[j].rows[e])
            /\ Named(kbs[j], e) \subseteq Named(kbs'[j], e)
  <2>1. \A e \in EntitySets :
          Len(WithValue(b, x[1], x[2], got[r]).rows[e]) >= Len(b.rows[e])
    BY <1>1, <1>6, KbType
  <2> QED BY <1>1, <1>4, <1>6, <2>1, Replaced
<1>8. todo' \in [ Syncs -> SUBSET Nat ]
  BY <1>4 DEF TypeOK
<1>9. TypeOK'
  BY <1>7, <1>8 DEF TypeOK, UpdateRow, Move, row, history, Stages, InFlight
<1>10. UNCHANGED << release, connection, snapshot, edited, doubled >> /\ release \in Nat /\ Len(kbs) \in Nat
  BY KbType, SyncConstants DEF UpdateRow, row, history, TypeOK
<1> HIDE DEF i, b
<1>11. Len(kbs') >= Len(kbs) /\ release' >= release
  BY <1>7, <1>10
<1> QED BY <1>7, <1>9, <1>10, <1>11 DEF Grown

LEMMA InsertBatchType ==
    ASSUME NEW r \in Syncs, TypeOK, InHand(r), InsertBatch(r) PROVE TypeOK' /\ Grown
<1> DEFINE i == kb[r]
           b == kbs[i]
<1>1. i \in 1 .. Len(kbs) /\ b \in KnowledgeBase
  BY KbType DEF InsertBatch, Move, InHand
<1>2. stage[r] \in Fetched
  BY DEF InsertBatch, Move, Fetched, InFlight
<1>3. got[r] \in 1 .. Releases /\ Times(r) \in [ EntitySets -> Nat ]
  BY <1>2, FetchedType, TimesType DEF InsertBatch, Move
<1> DEFINE v == WithRows(b, Times(r), got[r])
<1>4. kbs' = [ kbs EXCEPT ![i] = v ]
  BY DEF InsertBatch
<1>5. v \in KnowledgeBase
      /\ \A e \in EntitySets : /\ Len(v.rows[e]) = Len(b.rows[e]) + Times(r)[e]
                               /\ Named(b, e) \subseteq Named(v, e)
  <2>1. got[r] \in Cells
    BY <1>3 DEF Cells
  <2> HIDE DEF b
  <2> QED BY <1>1, <1>3, <2>1, WithRowsKeeps, WithRowsNames
<1>6. \A e \in EntitySets : Len(v.rows[e]) >= Len(b.rows[e])
  <2>1. \A e \in EntitySets : Len(b.rows[e]) \in Nat /\ Times(r)[e] \in Nat
    BY <1>1, <1>3, KbType
  <2> HIDE DEF v, b
  <2> QED BY <1>5, <2>1
<1>7. /\ kbs' \in Seq(KnowledgeBase) /\ Len(kbs') = Len(kbs)
      /\ \A j \in 1 .. Len(kbs), e \in EntitySets :
            /\ Len(kbs'[j].rows[e]) >= Len(kbs[j].rows[e])
            /\ Named(kbs[j], e) \subseteq Named(kbs'[j], e)
  <2> HIDE DEF v
  <2> QED BY <1>1, <1>4, <1>5, <1>6, Replaced
<1>8. TypeOK'
  BY <1>7 DEF TypeOK, InsertBatch, Move, row, history, local, Stages, InFlight
<1> QED BY <1>7, <1>8, KbType, SyncConstants DEF TypeOK, InsertBatch, Grown, row, history

LEMMA OverType ==
    ASSUME NEW r \in Syncs, TypeOK, Report(r) \/ GiveUp(r) PROVE TypeOK' /\ Grown
<1>1. TypeOK'
  BY DEF TypeOK, Report, GiveUp, Over, NothingSeen, row, history, Stages
<1>2. UNCHANGED << release, row, snapshot, kbs, history >>
  BY DEF Report, GiveUp
<1>3. release \in Nat /\ Len(kbs) \in Nat
      /\ \A i \in 1 .. Len(kbs), e \in EntitySets : Len(kbs[i].rows[e]) \in Nat
  BY KbType, SyncConstants DEF TypeOK
<1> QED BY <1>1, <1>2, <1>3 DEF Grown, row, history

LEMMA WorldType ==
    ASSUME TypeOK, DeleteConnection \/ Repoint \/ NewRelease PROVE TypeOK' /\ Grown
<1>1. CASE DeleteConnection
  <2>1. snapshot' \in [ Paths -> [ EntitySets -> 1 .. Releases \cup {None} ] ]
    BY <1>1 DEF DeleteConnection
  <2>2. connection' = "deleted" /\ UNCHANGED << release, path, kbs, history, stage, local >>
    BY <1>1 DEF DeleteConnection
  <2>3. TypeOK'
    BY <2>1, <2>2 DEF TypeOK, history, local
  <2>4. release \in Nat /\ Len(kbs) \in Nat
    BY KbType, SyncConstants DEF TypeOK
  <2> QED BY <2>2, <2>3, <2>4, KbType DEF Grown, history
<1>2. CASE Repoint
  <2>1. /\ UNCHANGED << release, connection, snapshot, kbs, overlapped, truncated, doubled,
                        edited, stage, local >>
        /\ path' \in Paths /\ repointed' = TRUE
    BY <1>2 DEF Repoint
  <2>2. TypeOK'
    BY <2>1 DEF TypeOK, local
  <2>3. release \in Nat /\ Len(kbs) \in Nat
    BY KbType, SyncConstants DEF TypeOK
  <2> QED BY <2>1, <2>2, <2>3, KbType DEF Grown, history
<1>3. CASE NewRelease
  BY <1>3, KbType, SyncConstants DEF TypeOK, NewRelease, Grown, row, history, local
<1> QED BY <1>1, <1>2, <1>3

LEMMA SyncType ==
    ASSUME NEW r \in Syncs, TypeOK, InHand(r), SyncNext(r) PROVE TypeOK' /\ Grown
  BY StartType, FetchType, PersistType, FindKbType, CreateKbType, AddColumnType,
     ListRowsType, UpdateRowType, InsertBatchType, OverType DEF SyncNext

-----------------------------------------------------------------------------
(* What a sync has in hand and has left behind.                            *)

LEMMA BystanderKeeps ==
    ASSUME NEW q \in Syncs, TypeOK, TypeOK', Grown, Bystander(q), InHand(q), LeftBehind(q)
    PROVE  InHand(q)' /\ LeftBehind(q)'
<1>1. release \in Nat /\ release' \in Nat /\ Len(kbs) \in Nat /\ Len(kbs') \in Nat
  BY SyncConstants, KbType DEF TypeOK
<1>2. \A i \in 1 .. Len(kbs), e \in EntitySets :
        1 .. Len(kbs[i].rows[e]) \subseteq 1 .. Len(kbs'[i].rows[e])
  <2>1. ASSUME NEW i \in 1 .. Len(kbs), NEW e \in EntitySets
        PROVE  Len(kbs[i].rows[e]) \in Nat /\ Len(kbs'[i].rows[e]) \in Nat
               /\ Len(kbs'[i].rows[e]) >= Len(kbs[i].rows[e])
    <3>1. i \in 1 .. Len(kbs')
      BY <1>1 DEF Grown
    <3>2. kbs' \in Seq(KnowledgeBase)
      BY DEF TypeOK
    <3> QED BY <3>1, <3>2, KbType, KbsType DEF Grown
  <2> QED BY <2>1
<1>3. \A i \in 1 .. Len(kbs), e \in EntitySets : Named(kbs[i], e) \subseteq Named(kbs'[i], e)
  BY DEF Grown
<1>4. edited' = edited /\ (~doubled' => ~doubled)
  BY DEF Grown
<1>5. \A x \in seen[q] : x[1] \in EntitySets
  BY DEF TypeOK
<1>6. stage[q] \in Fetched => Exposes(got[q]) \subseteq EntitySets
  BY FetchedType
<1>7. 1 .. Len(kbs) \subseteq 1 .. Len(kbs') /\ 1 .. release \subseteq 1 .. release'
  BY <1>1 DEF Grown
<1>8. InHand(q)'
  BY <1>2, <1>3, <1>4, <1>5, <1>7 DEF InHand, Bystander, NamedOnce
<1>9. stage[q] = "reporting" => stage[q] \in Fetched /\ kb[q] \in 1 .. Len(kbs)
  BY DEF Fetched, InFlight, InHand
<1>10. stage[q] \in Persisted => stage[q] \in Fetched /\ at[q] \in Paths
  BY DEF Fetched, Persisted, InHand
<1>11. LeftBehind(q)'
  BY <1>3, <1>4, <1>6, <1>9, <1>10 DEF LeftBehind, Bystander, Grown
<1> QED BY <1>8, <1>11

\* Emptying a row takes no other's name away, and while a sync is in flight it is
\* on record.
LEMMA EmptyRowStep ==
    ASSUME TypeOK, EmptyRow
    PROVE  /\ TypeOK' /\ DOMAIN kbs' = DOMAIN kbs /\ Len(kbs') = Len(kbs)
           /\ edited' # "never" /\ (edited' # "during" => \A r \in Syncs : stage[r] \notin InFlight)
           /\ UNCHANGED << release, row, snapshot, overlapped, repointed, truncated, doubled,
                           stage, at, got, kb, seen, todo >>
           /\ \A i \in 1 .. Len(kbs), e \in EntitySets :
                 /\ Len(kbs'[i].rows[e]) = Len(kbs[i].rows[e])
                 /\ Named(kbs'[i], e) \subseteq Named(kbs[i], e)
                 /\ \A j \in Named(kbs'[i], e) : kbs'[i].rows[e][j] = kbs[i].rows[e][j]
<1>1. /\ edited' \in { "during", "between" }
      /\ edited' # "during" => \A r \in Syncs : stage[r] \notin InFlight
      /\ UNCHANGED << release, row, snapshot, overlapped, repointed, truncated, doubled,
                      stage, at, got, kb, seen, todo >>
  BY DEF EmptyRow, local
<1>2. PICK i \in 1 .. Len(kbs) : \E e \in EntitySets : \E j \in Named(kbs[i], e) :
         kbs' = [ kbs EXCEPT ![i] = WithValue(kbs[i], e, j, None) ]
  BY KbType DEF EmptyRow
<1>3. PICK e \in EntitySets : \E j \in Named(kbs[i], e) :
         kbs' = [ kbs EXCEPT ![i] = WithValue(kbs[i], e, j, None) ]
  BY <1>2
<1>4. PICK j \in Named(kbs[i], e) : kbs' = [ kbs EXCEPT ![i] = WithValue(kbs[i], e, j, None) ]
  BY <1>3
<1> DEFINE b == kbs[i]
           v == WithValue(b, e, j, None)
<1>5. b \in KnowledgeBase /\ j \in 1 .. Len(b.rows[e]) /\ None \in Cells
  BY KbType DEF Cells
<1> HIDE DEF b
<1>6. /\ v \in KnowledgeBase
      /\ \A f \in EntitySets : Len(v.rows[f]) = Len(b.rows[f])
      /\ \A f \in EntitySets : \A k \in 1 .. Len(b.rows[f]) :
            v.rows[f][k] = IF f = e /\ k = j THEN None ELSE b.rows[f][k]
  BY <1>5, WithValueKeeps
<1>7. \A f \in EntitySets : Named(v, f) \subseteq Named(b, f)
  BY <1>5, EmptiedNames
<1> HIDE DEF v
<1>8. ASSUME NEW f \in EntitySets, NEW k \in Named(v, f) PROVE v.rows[f][k] = b.rows[f][k]
  <2>1. k \in 1 .. Len(b.rows[f]) /\ v.rows[f][k] # None
    BY <1>6, NamedOf
  <2> QED BY <1>6, <2>1
<1>9. kbs' = [ kbs EXCEPT ![i] = v ]
  BY <1>4 DEF v, b
<1>10. /\ kbs' \in Seq(KnowledgeBase) /\ Len(kbs') = Len(kbs) /\ DOMAIN kbs' = DOMAIN kbs
       /\ kbs'[i] = v
       /\ \A k \in 1 .. Len(kbs) : k # i => kbs'[k] = kbs[k]
  BY <1>6, <1>9 DEF TypeOK
<1>11. TypeOK'
  BY <1>1, <1>10 DEF TypeOK, row
<1>12. ASSUME NEW k \in 1 .. Len(kbs), NEW f \in EntitySets
       PROVE  /\ Len(kbs'[k].rows[f]) = Len(kbs[k].rows[f])
              /\ Named(kbs'[k], f) \subseteq Named(kbs[k], f)
              /\ \A l \in Named(kbs'[k], f) : kbs'[k].rows[f][l] = kbs[k].rows[f][l]
  <2>1. CASE k = i
    BY <1>6, <1>7, <1>8, <1>10, <2>1 DEF b
  <2>2. CASE k # i
    <3>1. kbs'[k] = kbs[k]
      BY <1>10, <2>2
    <3> QED BY <3>1
  <2> QED BY <2>1, <2>2
<1> QED BY <1>1, <1>10, <1>11, <1>12

LEMMA EmptyRowKeeps ==
    ASSUME TypeOK, EmptyRow, NEW q \in Syncs, InHand(q), LeftBehind(q)
    PROVE  InHand(q)' /\ LeftBehind(q)'
<1>1. /\ Len(kbs') = Len(kbs)
      /\ edited' # "during" => stage[q] \notin InFlight
      /\ UNCHANGED << release, connection, snapshot, doubled, stage, at, got, kb, seen, todo >>
  BY EmptyRowStep DEF row
<1>2. \A i \in 1 .. Len(kbs), e \in EntitySets : Len(kbs'[i].rows[e]) = Len(kbs[i].rows[e])
  BY EmptyRowStep
<1>3. \A x \in seen[q] : x[1] \in EntitySets
  BY DEF TypeOK
<1>4. stage[q] = "writing" => edited' = "during" /\ kb[q] \in 1 .. Len(kbs)
  BY <1>1 DEF InFlight, InHand
<1>5. InHand(q)'
  BY <1>1, <1>2, <1>3, <1>4 DEF InHand, NamedOnce
<1>6. stage[q] = "reporting" => edited' = "during"
  BY <1>1 DEF InFlight
<1>7. LeftBehind(q)'
  BY <1>1, <1>6 DEF LeftBehind
<1> QED BY <1>5, <1>7

LEMMA StartKeeps ==
    ASSUME NEW r \in Syncs, TypeOK, InHand(r), Start(r)
    PROVE  InHand(r)' /\ LeftBehind(r)'
<1>1. /\ stage[r] = "idle" /\ stage'[r] = "fetching" /\ at'[r] = path /\ path \in Paths
      /\ seen'[r] = seen[r]
  BY DEF TypeOK, Start, Move
<1> QED BY <1>1 DEF InHand, LeftBehind, InFlight, Fetched, Persisted

LEMMA FetchKeeps ==
    ASSUME NEW r \in Syncs, TypeOK, InHand(r), Fetch(r)
    PROVE  InHand(r)' /\ LeftBehind(r)'
<1>1. /\ stage[r] = "fetching" /\ stage'[r] = "persisting" /\ at'[r] = at[r]
      /\ got'[r] = release /\ release' = release /\ Parses(Documents[release])
      /\ release \in 1 .. release /\ seen'[r] = seen[r]
  BY SyncConstants DEF TypeOK, Fetch, Move
<1> QED BY <1>1 DEF InHand, LeftBehind, InFlight, Fetched, Persisted

LEMMA PersistKeeps ==
    ASSUME NEW r \in Syncs, TypeOK, InHand(r), Persist(r)
    PROVE  InHand(r)' /\ LeftBehind(r)'
<1>1. /\ stage[r] = "persisting" /\ stage'[r] = "finding" /\ at'[r] = at[r]
      /\ got'[r] = got[r] /\ release' = release /\ seen'[r] = seen[r]
  BY DEF TypeOK, Persist, Move, local
<1>2. /\ at[r] \in Paths /\ got[r] \in Nat /\ got[r] \in 1 .. release
      /\ Exposes(got[r]) \subseteq EntitySets /\ Parses(Documents[got[r]])
  BY <1>1, FetchedType DEF InHand, Fetched, InFlight
<1>3. \A e \in Exposes(got[r]) : snapshot'[at[r]][e] = got[r]
  BY <1>2 DEF Persist, TypeOK
<1>4. got[r] # None
  BY <1>2, SyncConstants
<1>5. ~doubled' => NamedOnce(got[r])
  BY DEF Persist
<1>6. NamedOnce(got[r]) => NamedOnce(got'[r])
  BY <1>1
<1> QED BY <1>1, <1>2, <1>3, <1>4, <1>5, <1>6 DEF InHand, LeftBehind, InFlight, Fetched, Persisted

LEMMA FindKbKeeps ==
    ASSUME NEW r \in Syncs, TypeOK, InHand(r), LeftBehind(r), FindKb(r)
    PROVE  InHand(r)' /\ LeftBehind(r)'
<1>1. /\ stage[r] = "finding" /\ at'[r] = at[r]
      /\ got'[r] = got[r] /\ release' = release /\ seen'[r] = seen[r]
      /\ snapshot' = snapshot /\ connection' = connection
      /\ edited' = edited /\ doubled' = doubled /\ kbs' = kbs
      /\ \/ stage'[r] = "creating"
         \/ stage'[r] = "listing" /\ kb'[r] \in DOMAIN kbs
  BY DEF TypeOK, FindKb, Move, row, history
<1>2. DOMAIN kbs = 1 .. Len(kbs)
  BY KbType
<1> QED BY <1>1, <1>2 DEF InHand, LeftBehind, NamedOnce, InFlight, Fetched, Persisted

LEMMA CreateKbKeeps ==
    ASSUME NEW r \in Syncs, TypeOK, InHand(r), LeftBehind(r), CreateKb(r)
    PROVE  InHand(r)' /\ LeftBehind(r)'
<1>1. /\ stage[r] = "creating" /\ stage'[r] = "adding" /\ at'[r] = at[r]
      /\ got'[r] = got[r] /\ release' = release /\ seen'[r] = seen[r]
      /\ snapshot' = snapshot /\ connection' = connection
      /\ edited' = edited /\ doubled' = doubled
      /\ kb'[r] = Len(kbs) + 1
  BY DEF TypeOK, CreateKb, Move, row, history
<1>2. Len(kbs) \in Nat /\ Len(kbs') = Len(kbs) + 1
  BY KbType DEF CreateKb, TypeOK
<1> QED BY <1>1, <1>2 DEF InHand, LeftBehind, NamedOnce, InFlight, Fetched, Persisted

LEMMA AddColumnKeeps ==
    ASSUME NEW r \in Syncs, TypeOK, InHand(r), LeftBehind(r), AddColumn(r), Grown, TypeOK'
    PROVE  InHand(r)' /\ LeftBehind(r)'
<1>1. /\ stage[r] = "adding" /\ stage'[r] \in { "adding", "writing" } /\ at'[r] = at[r]
      /\ got'[r] = got[r] /\ release' = release /\ seen'[r] = seen[r]
      /\ snapshot' = snapshot /\ connection' = connection
      /\ edited' = edited /\ doubled' = doubled
      /\ kb'[r] = kb[r]
  BY DEF TypeOK, AddColumn, Move, row, local, history
<1>2. Len(kbs) \in Nat /\ Len(kbs') = Len(kbs)
  BY KbType DEF AddColumn, TypeOK
<1> QED BY <1>1, <1>2 DEF InHand, LeftBehind, NamedOnce, InFlight, Fetched, Persisted

LEMMA ListRowsKeeps ==
    ASSUME NEW r \in Syncs, TypeOK, InHand(r), LeftBehind(r), ListRows(r)
    PROVE  InHand(r)' /\ LeftBehind(r)'
<1> DEFINE b == kbs[kb[r]]
<1>1. /\ stage[r] = "listing" /\ stage'[r] = "writing" /\ at'[r] = at[r]
      /\ got'[r] = got[r] /\ release' = release
      /\ snapshot' = snapshot /\ connection' = connection /\ kbs' = kbs
      /\ kb'[r] = kb[r] /\ edited' = edited /\ doubled' = doubled
  BY DEF TypeOK, ListRows, Move, row
<1>2. /\ seen'[r] \in SUBSET { x \in RowsOf(b) : x[2] \in Named(b, x[1]) }
      /\ \A x, y \in seen'[r] : x[1] = y[1] => x = y
  <2>0. PICK view \in FindRows(b) :
          \E byName \in ByName(b, view) : seen' = [ seen EXCEPT ![r] = byName ]
    BY DEF ListRows
  <2>1. PICK byName \in ByName(b, view) : seen' = [ seen EXCEPT ![r] = byName ]
    BY <2>0
  <2>2. seen'[r] = byName
    BY <2>1 DEF TypeOK
  <2>3. view \in SUBSET RowsOf(b)
    BY <2>0 DEF FindRows, kSubset
  <2> QED BY <2>1, <2>2, <2>3 DEF ByName
<1>3. kb[r] \in 1 .. Len(kbs) /\ b \in KnowledgeBase
  BY <1>1, KbType DEF InHand
<1>4. \A x \in seen'[r] : x[2] \in 1 .. Len(b.rows[x[1]]) /\ x[2] \in Named(b, x[1])
  BY <1>2, <1>3, RowOf
<1> QED BY <1>1, <1>2, <1>3, <1>4 DEF InHand, LeftBehind, NamedOnce, InFlight, Fetched, Persisted

LEMMA UpdateRowKeeps ==
    ASSUME NEW r \in Syncs, TypeOK, InHand(r), LeftBehind(r), UpdateRow(r), Grown, TypeOK'
    PROVE  InHand(r)' /\ LeftBehind(r)'
<1>1. /\ stage[r] = "writing" /\ stage'[r] = "writing" /\ at'[r] = at[r]
      /\ got'[r] = got[r] /\ release' = release
      /\ snapshot' = snapshot /\ connection' = connection
      /\ kb'[r] = kb[r] /\ seen'[r] = seen[r] /\ edited' = edited /\ doubled' = doubled
  BY DEF TypeOK, UpdateRow, Move, row, history
<1>2. Len(kbs) \in Nat /\ Len(kbs') = Len(kbs)
  BY KbType DEF UpdateRow, TypeOK
<1>3. kb[r] \in 1 .. Len(kbs) /\ kb[r] \in 1 .. Len(kbs')
  BY <1>1, <1>2 DEF InHand
<1>4. ASSUME NEW x \in seen[r]
      PROVE  /\ x[2] \in 1 .. Len(kbs'[kb[r]].rows[x[1]])
             /\ edited # "during" => x[2] \in Named(kbs'[kb[r]], x[1])
  <2>1. x[1] \in EntitySets /\ x[2] \in 1 .. Len(kbs[kb[r]].rows[x[1]])
    BY <1>1 DEF InHand, TypeOK
  <2>2. Len(kbs[kb[r]].rows[x[1]]) \in Nat
    BY <1>3, <2>1, KbType
  <2>3. Len(kbs'[kb[r]].rows[x[1]]) \in Nat
    <3>1. kbs' \in Seq(KnowledgeBase)
      BY DEF TypeOK
    <3> QED BY <1>3, <2>1, <3>1, KbsType
  <2>4. Len(kbs'[kb[r]].rows[x[1]]) >= Len(kbs[kb[r]].rows[x[1]])
    BY <1>3, <2>1 DEF Grown
  <2> DEFINE before == Len(kbs[kb[r]].rows[x[1]])
             after == Len(kbs'[kb[r]].rows[x[1]])
  <2>5. x[2] \in 1 .. before /\ before \in Nat /\ after \in Nat /\ after >= before
    BY <2>1, <2>2, <2>3, <2>4
  <2> HIDE DEF before, after
  <2>6. x[2] \in 1 .. after
    BY <2>5
  <2>7. edited # "during" => x[2] \in Named(kbs'[kb[r]], x[1])
    BY <1>1, <1>3, <2>1 DEF InHand, Grown
  <2> QED BY <2>6, <2>7 DEF after
<1>5. \A x, y \in seen[r] : x[1] = y[1] => x = y
  BY <1>1 DEF InHand
<1>6. InHand(r)'
  BY <1>1, <1>3, <1>4, <1>5 DEF InHand, NamedOnce, InFlight, Fetched, Persisted
<1> QED BY <1>1, <1>6 DEF InHand, LeftBehind, NamedOnce, InFlight, Fetched, Persisted

\* insert_batch: what had a row keeps it, what had none gets one.
LEMMA InsertBatchKeeps ==
    ASSUME NEW r \in Syncs, TypeOK, InHand(r), LeftBehind(r), InsertBatch(r), Grown, TypeOK'
    PROVE  InHand(r)' /\ LeftBehind(r)'
<1>1. /\ stage[r] = "writing" /\ stage'[r] = "reporting" /\ at'[r] = at[r]
      /\ got'[r] = got[r] /\ release' = release
      /\ snapshot' = snapshot /\ connection' = connection
      /\ kb'[r] = kb[r] /\ seen'[r] = seen[r] /\ edited' = edited /\ doubled' = doubled
  BY DEF TypeOK, InsertBatch, Move, row, local, history
<1>2. Len(kbs) \in Nat /\ Len(kbs') = Len(kbs)
  BY KbType DEF InsertBatch, TypeOK
<1>3. kb[r] \in 1 .. Len(kbs) /\ kb[r] \in 1 .. Len(kbs') /\ kbs[kb[r]] \in KnowledgeBase
  BY <1>1, <1>2, KbType DEF InHand
<1>4. got[r] \in 1 .. Releases /\ Exposes(got[r]) \subseteq EntitySets
  BY <1>1, FetchedType DEF Fetched, InFlight
<1>5. ASSUME edited # "during", NEW e \in Exposes(got[r]) PROVE Named(kbs'[kb[r]], e) # {}
  <2> DEFINE b == kbs[kb[r]]
  <2>1. kbs'[kb[r]] = WithRows(b, Times(r), got[r])
    BY <1>3 DEF InsertBatch, TypeOK
  <2>2. /\ Times(r) \in [ EntitySets -> Nat ]
        /\ Times(r)[e] >= 1 <=> \A x \in seen[r] : x[1] # e
    BY <1>1, <1>4, TimesType
  <2>3. Len(b.rows[e]) \in Nat
    BY <1>3, <1>4, KbType
  <2>4. Named(kbs'[kb[r]], e)
           = Named(b, e) \cup (Len(b.rows[e]) + 1 .. Len(b.rows[e]) + Times(r)[e])
    <3>1. b \in KnowledgeBase /\ e \in EntitySets
      BY <1>3, <1>4
    <3> HIDE DEF b
    <3>2. Named(WithRows(b, Times(r), got[r]), e)
             = Named(b, e) \cup (Len(b.rows[e]) + 1 .. Len(b.rows[e]) + Times(r)[e])
      BY <1>4, <2>2, <3>1, WithRowsNames
    <3> QED BY <2>1, <3>2
  <2>5. CASE \A x \in seen[r] : x[1] # e
    <3>1. Times(r)[e] \in Nat /\ Times(r)[e] >= 1
      BY <1>4, <2>2, <2>5
    <3>2. Len(b.rows[e]) + 1 \in Len(b.rows[e]) + 1 .. Len(b.rows[e]) + Times(r)[e]
      BY <2>3, <3>1
    <3> QED BY <2>4, <3>2
  <2>6. CASE \E x \in seen[r] : x[1] = e
    <3>1. Named(b, e) # {}
      BY <1>1, <1>5, <2>6 DEF InHand
    <3> QED BY <2>4, <3>1
  <2> QED BY <2>5, <2>6
<1> QED BY <1>1, <1>3, <1>5 DEF InHand, LeftBehind, NamedOnce, InFlight, Fetched, Persisted

LEMMA OverKeeps ==
    ASSUME NEW r \in Syncs, TypeOK, Report(r) \/ GiveUp(r)
    PROVE  InHand(r)' /\ LeftBehind(r)'
<1>1. stage'[r] \in { "done", "gone" } /\ seen'[r] = {}
  BY DEF TypeOK, Report, GiveUp, Over, NothingSeen
<1> QED BY <1>1 DEF InHand, LeftBehind, InFlight, Fetched, Persisted

LEMMA SyncKeeps ==
    ASSUME NEW r \in Syncs, TypeOK, TypeOK', Grown, SyncNext(r),
           \A q \in Syncs : InHand(q) /\ LeftBehind(q)
    PROVE  \A q \in Syncs : InHand(q)' /\ LeftBehind(q)'
<1>1. InHand(r)' /\ LeftBehind(r)'
  BY StartKeeps, FetchKeeps, PersistKeeps, FindKbKeeps, CreateKbKeeps, AddColumnKeeps,
     ListRowsKeeps, UpdateRowKeeps, InsertBatchKeeps, OverKeeps DEF SyncNext
<1>2. \A q \in Syncs : q # r => InHand(q)' /\ LeftBehind(q)'
  BY Bystanders, BystanderKeeps
<1> QED BY <1>1, <1>2

-----------------------------------------------------------------------------
(* A deleted connection, a synced one, and one whose URL was never edited. *)

LEMMA NothingLeftKeeps ==
    ASSUME TypeOK, \A r \in Syncs : InHand(r), NothingLeft, Next
    PROVE  NothingLeft'
<1>1. CASE connection' = connection /\ snapshot' = snapshot
  BY <1>1 DEF NothingLeft
<1>2. ASSUME NEW r \in Syncs, Persist(r) PROVE NothingLeft'
  <2>1. connection' = connection /\ at[r] \in Paths
    <3>1. stage[r] \in Fetched
      BY <1>2 DEF Persist, Move, Fetched, InFlight
    <3> QED BY <1>2, <3>1, FetchedType DEF Persist, row
  <2>2. CASE connection = "deleted"
    <3>1. \A e \in EntitySets : e \notin Exposes(got[r])
      BY <1>2, <2>2 DEF Persist
    <3>2. \A p \in Paths, e \in EntitySets : snapshot'[p][e] = snapshot[p][e]
      BY <1>2, <2>1, <3>1 DEF Persist, TypeOK
    <3> QED BY <2>1, <3>2 DEF NothingLeft
  <2> QED BY <2>1, <2>2 DEF NothingLeft
<1>3. CASE DeleteConnection
  BY <1>3 DEF DeleteConnection, NothingLeft
<1> QED BY <1>1, <1>2, <1>3 DEF Next, SyncNext, Start, Fetch, FindKb, CreateKb, AddColumn,
        ListRows, UpdateRow, InsertBatch, Report, GiveUp, Repoint, NewRelease, EmptyRow, row, NothingLeft

\* A report finds everything in place, and it stays.
LEMMA SyncedIsCoveredKeeps ==
    ASSUME TypeOK, TypeOK', Grown \/ EmptyRow, \A r \in Syncs : InHand(r) /\ LeftBehind(r),
           SyncedIsCovered, Next
    PROVE  SyncedIsCovered'
<1> SUFFICES ASSUME connection' = "live", edited' = "never", NEW r \in Syncs, stage'[r] = "done"
             PROVE  \E past \in 1 .. release', i \in DOMAIN kbs', p \in Paths :
                      /\ Parses(Documents[past])
                      /\ \A e \in Exposes(past) :
                            snapshot'[p][e] # None /\ Named(kbs'[i], e) # {}
  BY DEF SyncedIsCovered
<1>1. Grown
  BY EmptyRowStep
<1>2. release \in Nat /\ release' \in Nat /\ Len(kbs) \in Nat /\ Len(kbs') \in Nat
      /\ DOMAIN kbs = 1 .. Len(kbs) /\ DOMAIN kbs' = 1 .. Len(kbs')
      /\ 1 .. release \subseteq 1 .. Releases
  <2>1. kbs' \in Seq(KnowledgeBase)
    BY DEF TypeOK
  <2>2. release \in 1 .. Releases /\ release' \in 1 .. Releases /\ Releases \in Nat
    BY SyncConstants DEF TypeOK
  <2> QED BY <2>1, <2>2, KbType, KbsType
<1>3. 1 .. Len(kbs) \subseteq 1 .. Len(kbs') /\ 1 .. release \subseteq 1 .. release'
  BY <1>1, <1>2 DEF Grown
<1>4. connection = "live" /\ edited = "never"
  BY <1>1 DEF Grown
<1>5. CASE stage[r] = "done"
  <2>1. PICK past \in 1 .. release, i \in DOMAIN kbs, p \in Paths :
           /\ Parses(Documents[past])
           /\ \A e \in Exposes(past) :
                 snapshot[p][e] # None /\ Named(kbs[i], e) # {}
    BY <1>4, <1>5 DEF SyncedIsCovered
  <2>2. Exposes(past) \subseteq EntitySets
    BY <1>2, <2>1, ExposesKnown
  <2>3. past \in 1 .. release' /\ i \in DOMAIN kbs'
    BY <1>2, <1>3
  <2>4. \A e \in Exposes(past) : snapshot'[p][e] # None /\ Named(kbs'[i], e) # {}
    BY <1>1, <1>2, <2>1, <2>2 DEF Grown
  <2> QED BY <2>1, <2>3, <2>4
<1>6. CASE stage[r] # "done"
  <2>1. stage[r] = "reporting" /\ UNCHANGED << release, connection, snapshot, kbs >>
    <3>1. PICK q \in Syncs : SyncNext(q)
      BY <1>6 DEF Next, DeleteConnection, Repoint, NewRelease, EmptyRow
    <3>2. q = r
      BY <1>6, <3>1, Bystanders DEF Bystander
    <3>3. Report(r)
      BY <1>6, <3>1, <3>2 DEF SyncNext, Start, Fetch, Persist, FindKb, CreateKb, AddColumn, ListRows,
             UpdateRow, InsertBatch, GiveUp, Move, Over, TypeOK
    <3> QED BY <3>3 DEF Report, row
  <2>2. /\ got[r] \in 1 .. release /\ at[r] \in Paths /\ kb[r] \in DOMAIN kbs
        /\ Parses(Documents[got[r]])
    BY <1>2, <2>1 DEF InHand, InFlight, Fetched
  <2>3. \A e \in Exposes(got[r]) :
          snapshot[at[r]][e] # None /\ Named(kbs[kb[r]], e) # {}
    BY <1>4, <2>1 DEF LeftBehind, Persisted, InFlight, Fetched
  <2>4. PICK past, i, p : past = got[r] /\ i = kb[r] /\ p = at[r]
    OBVIOUS
  <2>5. /\ past \in 1 .. release' /\ i \in DOMAIN kbs' /\ p \in Paths
        /\ Parses(Documents[past])
    BY <2>1, <2>2, <2>4
  <2>6. \A e \in Exposes(past) : snapshot'[p][e] # None /\ Named(kbs'[i], e) # {}
    BY <2>1, <2>3, <2>4
  <2> QED BY <2>5, <2>6
<1> QED BY <1>5, <1>6

LEMMA OnePathKeeps ==
    ASSUME TypeOK, \A r \in Syncs : InHand(r), OnePath, Next
    PROVE  OnePath'
<1>1. ASSUME NEW r \in Syncs, SyncNext(r), snapshot' = snapshot, ~Start(r)
      PROVE  OnePath'
  <2>1. path' = path /\ repointed' = repointed
    BY <1>1 DEF SyncNext, Fetch, Persist, FindKb, CreateKb, AddColumn, ListRows, UpdateRow,
           InsertBatch, Report, GiveUp, row, history
  <2>2. at'[r] = at[r] \/ stage'[r] \notin InFlight
    BY <1>1 DEF SyncNext, Fetch, Persist, FindKb, CreateKb, AddColumn, ListRows, UpdateRow,
           InsertBatch, Report, GiveUp, Over, TypeOK, local, InFlight
  <2>3. stage'[r] \in InFlight => stage[r] \in InFlight
    BY <1>1 DEF SyncNext, Fetch, Persist, FindKb, CreateKb, AddColumn, ListRows, UpdateRow,
           InsertBatch, Report, GiveUp, Over, TypeOK, Move, InFlight
  <2>4. \A q \in Syncs : q # r => stage'[q] = stage[q] /\ at'[q] = at[q]
    BY <1>1, Bystanders DEF Bystander
  <2> QED BY <1>1, <2>1, <2>2, <2>3, <2>4 DEF OnePath
<1>2. ASSUME NEW r \in Syncs, Start(r) PROVE OnePath'
  <2>1. path' = path /\ repointed' = repointed /\ snapshot' = snapshot /\ at'[r] = path
    BY <1>2 DEF Start, row, TypeOK
  <2>2. \A q \in Syncs : q # r => stage'[q] = stage[q] /\ at'[q] = at[q]
    BY <1>2, Bystanders DEF Bystander, SyncNext
  <2> QED BY <2>1, <2>2 DEF OnePath
<1>3. ASSUME NEW r \in Syncs, Persist(r) PROVE OnePath'
  <2>1. path' = path /\ repointed' = repointed /\ at' = at
    BY <1>3 DEF Persist, row, history, local
  <2>2. stage[r] \in InFlight /\ at[r] \in Paths
    BY <1>3 DEF Persist, Move, InHand, InFlight
  <2>3. \A q \in Syncs : q # r => stage'[q] = stage[q]
    BY <1>3, Bystanders DEF Bystander, SyncNext
  <2>4. \A p \in Paths : p # at[r] => snapshot'[p] = snapshot[p]
    BY <1>3, <2>2 DEF Persist, TypeOK
  <2> QED BY <2>1, <2>2, <2>3, <2>4 DEF OnePath
<1>4. CASE DeleteConnection
  <2>1. path' = path /\ repointed' = repointed /\ at' = at /\ stage' = stage
    BY <1>4 DEF DeleteConnection, local, history
  <2>2. \A p \in Paths, e \in EntitySets : snapshot'[p][e] = None
    BY <1>4 DEF DeleteConnection
  <2> QED BY <2>1, <2>2 DEF OnePath
<1>5. CASE Repoint
  BY <1>5 DEF Repoint, OnePath
<1>6. CASE NewRelease
  BY <1>6 DEF NewRelease, OnePath, row, local, history
<1>8. CASE EmptyRow
  BY <1>8 DEF EmptyRow, OnePath, row, local
<1>7. \A r \in Syncs : SyncNext(r) /\ ~Persist(r) => snapshot' = snapshot
  BY DEF SyncNext, Start, Fetch, FindKb, CreateKb, AddColumn, ListRows, UpdateRow, InsertBatch,
         Report, GiveUp
<1> QED BY <1>1, <1>2, <1>3, <1>4, <1>5, <1>6, <1>7, <1>8 DEF Next

-----------------------------------------------------------------------------
(* A sync that nobody overlaps.                                            *)

\* Once syncs have overlapped, that is on record for good.
LEMMA StaysAlone ==
    ASSUME TypeOK, Next, ~overlapped' PROVE ~overlapped
  BY DEF TypeOK, Next, SyncNext, Start, Fetch, Persist, FindKb, CreateKb, AddColumn, ListRows,
         UpdateRow, InsertBatch, Report, GiveUp, DeleteConnection, Repoint, NewRelease, EmptyRow, history

\* While nobody overlaps, no second sync is in flight.
LEMMA Solo ==
    ASSUME NEW r \in Syncs, SyncNext(r), ~overlapped', TypeOK, Undisturbed(r)
    PROVE  \A q \in Syncs : q # r => stage[q] \notin InFlight /\ stage'[q] \notin InFlight
<1>1. \A q \in Syncs : q # r => stage'[q] = stage[q]
  BY Bystanders DEF Bystander
<1>2. CASE Start(r)
  BY <1>1, <1>2 DEF Start
<1>3. CASE ~Start(r)
  <2>1. stage[r] \in InFlight
    BY <1>3 DEF SyncNext, Fetch, Persist, FindKb, CreateKb, AddColumn, ListRows, UpdateRow,
           InsertBatch, Report, GiveUp, Move, InFlight
  <2> QED BY <1>1, <2>1 DEF Undisturbed
<1> QED BY <1>2, <1>3

\* What update_row does to the knowledge base: the row x under the name at i is
\* written.
UpdatedBy(r, i, x, v) ==
    /\ kbs' = [ kbs EXCEPT ![kb[r]] = v ] /\ kbs'[kb[r]] = v
    /\ todo'[r] = todo[r] \ {i}
    /\ x[1] \in EntitySets /\ x[2] \in 1 .. Len(kbs[kb[r]].rows[x[1]])
    /\ x[1] = Parsed(got[r])[i].name
    /\ v.rows[x[1]][x[2]] = got[r]
    /\ \A f \in EntitySets : \A j \in 1 .. Len(kbs[kb[r]].rows[f]) :
          f # x[1] \/ j # x[2] => v.rows[f][j] = kbs[kb[r]].rows[f][j]
    /\ \A f \in EntitySets :
          /\ f = x[1] => Named(v, f) = Named(kbs[kb[r]], f) \cup {x[2]}
          /\ f # x[1] => Named(v, f) = Named(kbs[kb[r]], f)

LEMMA Updated ==
    ASSUME NEW r \in Syncs, TypeOK, InHand(r), UpdateRow(r)
    PROVE  \E i \in todo[r], x \in seen[r], v \in KnowledgeBase : UpdatedBy(r, i, x, v)
<1>1. kb[r] \in 1 .. Len(kbs) /\ kbs[kb[r]] \in KnowledgeBase
  BY KbType DEF UpdateRow, Move, InHand
<1>2. got[r] \in 1 .. Releases /\ got[r] \in Cells
  BY FetchedType DEF UpdateRow, Move, Fetched, InFlight, Cells
<1>3. PICK i \in todo[r], x \in seen[r] :
        /\ x[1] = Parsed(got[r])[i].name
        /\ kbs' = [ kbs EXCEPT ![kb[r]] = WithValue(kbs[kb[r]], x[1], x[2], got[r]) ]
        /\ todo' = [ todo EXCEPT ![r] = @ \ {i} ]
  BY DEF UpdateRow
<1>4. x[1] \in EntitySets /\ x[2] \in 1 .. Len(kbs[kb[r]].rows[x[1]])
  BY DEF UpdateRow, Move, InHand, TypeOK
<1>5. PICK b \in KnowledgeBase : b = kbs[kb[r]]
  BY <1>1
<1>6. PICK e \in EntitySets : e = x[1]
  BY <1>4
<1>7. PICK k \in 1 .. Len(b.rows[e]) : k = x[2]
  BY <1>4, <1>5, <1>6
<1> DEFINE w == WithValue(b, e, k, got[r])
<1>17. b \in KnowledgeBase /\ e \in EntitySets /\ k \in 1 .. Len(b.rows[e])
  BY <1>5, <1>6, <1>7
<1>8. w \in KnowledgeBase
      /\ \A f \in EntitySets : \A j \in 1 .. Len(b.rows[f]) :
            w.rows[f][j] = IF f = e /\ j = k THEN got[r] ELSE b.rows[f][j]
  BY <1>2, <1>17, WithValueKeeps
<1>9. \A f \in EntitySets : /\ f = e => Named(w, f) = Named(b, f) \cup {k}
                            /\ f # e => Named(w, f) = Named(b, f)
  BY <1>2, <1>17, WithValueNames
<1>10. kbs' = [ kbs EXCEPT ![kb[r]] = w ] /\ kbs'[kb[r]] = w /\ todo'[r] = todo[r] \ {i}
  BY <1>1, <1>3, <1>5, <1>6, <1>7 DEF TypeOK
<1> HIDE DEF w
<1>11. PICK v \in KnowledgeBase : v = w
  BY <1>8
<1>12. /\ kbs' = [ kbs EXCEPT ![kb[r]] = v ] /\ kbs'[kb[r]] = v
       /\ todo'[r] = todo[r] \ {i} /\ x[1] = Parsed(got[r])[i].name
       /\ x[1] \in EntitySets /\ x[2] \in 1 .. Len(kbs[kb[r]].rows[x[1]])
  BY <1>3, <1>4, <1>10, <1>11
<1>13. v.rows[e][k] = got[r]
       /\ \A f \in EntitySets : \A j \in 1 .. Len(b.rows[f]) :
             f # e \/ j # k => v.rows[f][j] = b.rows[f][j]
  BY <1>8, <1>11
<1>14. \A f \in EntitySets : /\ f = e => Named(v, f) = Named(b, f) \cup {k}
                             /\ f # e => Named(v, f) = Named(b, f)
  BY <1>9, <1>11
<1>15. v.rows[x[1]][x[2]] = got[r]
       /\ \A f \in EntitySets : \A j \in 1 .. Len(kbs[kb[r]].rows[f]) :
             f # x[1] \/ j # x[2] => v.rows[f][j] = kbs[kb[r]].rows[f][j]
  BY <1>5, <1>6, <1>7, <1>13
<1>16. ASSUME NEW f \in EntitySets
       PROVE  /\ f = x[1] => Named(v, f) = Named(kbs[kb[r]], f) \cup {x[2]}
              /\ f # x[1] => Named(v, f) = Named(kbs[kb[r]], f)
  <2>1. Named(b, f) = Named(kbs[kb[r]], f)
    BY <1>5
  <2>2. /\ f = e => Named(v, f) = Named(b, f) \cup {k}
        /\ f # e => Named(v, f) = Named(b, f)
    BY <1>14
  <2> QED BY <1>6, <1>7, <2>1, <2>2
<1>18. UpdatedBy(r, i, x, v)
  BY <1>12, <1>15, <1>16 DEF UpdatedBy
<1> QED BY <1>3, <1>11, <1>18

\* What insert_batch does to it: rows with what was fetched, for names that had
\* none that was seen.
InsertedBy(r, v) ==
    /\ kbs' = [ kbs EXCEPT ![kb[r]] = v ] /\ kbs'[kb[r]] = v
    /\ \A f \in EntitySets :
          /\ \A j \in Named(kbs[kb[r]], f) : v.rows[f][j] = kbs[kb[r]].rows[f][j]
          /\ Named(kbs[kb[r]], f) \subseteq Named(v, f)
          /\ \A j \in Named(v, f) \ Named(kbs[kb[r]], f) : v.rows[f][j] = got[r]
          /\ (f \notin Exposes(got[r]) \/ \E x \in seen[r] : x[1] = f) =>
                Named(v, f) = Named(kbs[kb[r]], f)
          /\ f \in Exposes(got[r]) /\ (\A x \in seen[r] : x[1] # f) /\ ~doubled =>
                \E j \in Nat : Named(v, f) = Named(kbs[kb[r]], f) \cup {j}

LEMMA Inserted ==
    ASSUME NEW r \in Syncs, TypeOK, InHand(r), InsertBatch(r)
    PROVE  \E v \in KnowledgeBase : InsertedBy(r, v)
<1> DEFINE b == kbs[kb[r]]
           v == WithRows(b, Times(r), got[r])
<1>1. kb[r] \in 1 .. Len(kbs) /\ b \in KnowledgeBase
  BY KbType DEF InsertBatch, Move, InHand
<1>2. got[r] \in 1 .. Releases /\ got[r] \in Cells
  BY FetchedType DEF InsertBatch, Move, Fetched, InFlight, Cells
<1>3. kbs' = [ kbs EXCEPT ![kb[r]] = v ] /\ kbs'[kb[r]] = v
  BY <1>1 DEF InsertBatch, TypeOK
<1>4. /\ Times(r) \in [ EntitySets -> Nat ]
      /\ \A e \in EntitySets :
            /\ Times(r)[e] >= 1 <=>
                  e \in Exposes(got[r]) /\ \A x \in seen[r] : x[1] # e
            /\ ~doubled => Times(r)[e] <= 1
  BY TimesType DEF InsertBatch, Move
<1> HIDE DEF b
<1>5. /\ v \in KnowledgeBase
      /\ \A f \in EntitySets : \A j \in 1 .. Len(b.rows[f]) + Times(r)[f] :
            v.rows[f][j] = IF j <= Len(b.rows[f]) THEN b.rows[f][j] ELSE got[r]
  <2>1. /\ v \in KnowledgeBase
        /\ \A f \in EntitySets :
              /\ Len(v.rows[f]) = Len(b.rows[f]) + Times(r)[f]
              /\ \A j \in 1 .. Len(b.rows[f]) + Times(r)[f] :
                    v.rows[f][j] = IF j <= Len(b.rows[f]) THEN b.rows[f][j] ELSE got[r]
    BY <1>1, <1>2, <1>4, WithRowsKeeps, SMTT(40)
  <2> HIDE DEF v
  <2> QED BY <2>1
<1>6. \A f \in EntitySets :
        Named(v, f) = Named(b, f) \cup (Len(b.rows[f]) + 1 .. Len(b.rows[f]) + Times(r)[f])
  BY <1>1, <1>2, <1>4, WithRowsNames
<1>7. \A f \in EntitySets : Len(b.rows[f]) \in Nat /\ Named(b, f) \subseteq 1 .. Len(b.rows[f])
  BY <1>1, NamedOf
<1> HIDE DEF v
<1>8. ASSUME NEW f \in EntitySets
      PROVE  /\ \A j \in Named(b, f) : v.rows[f][j] = b.rows[f][j]
             /\ Named(b, f) \subseteq Named(v, f)
             /\ \A j \in Named(v, f) \ Named(b, f) : v.rows[f][j] = got[r]
             /\ (f \notin Exposes(got[r]) \/ \E x \in seen[r] : x[1] = f) =>
                   Named(v, f) = Named(b, f)
             /\ f \in Exposes(got[r]) /\ (\A x \in seen[r] : x[1] # f) /\ ~doubled =>
                   \E j \in Nat : Named(v, f) = Named(b, f) \cup {j}
  <2> DEFINE l == Len(b.rows[f])
             t == Times(r)[f]
             new == l + 1 .. l + t
  <2>1. l \in Nat /\ t \in Nat /\ Named(b, f) \subseteq 1 .. l
    BY <1>4, <1>7
  <2>2. /\ Named(v, f) = Named(b, f) \cup new
        /\ \A j \in 1 .. l + t : v.rows[f][j] = IF j <= l THEN b.rows[f][j] ELSE got[r]
    BY <1>5, <1>6
  <2>3. /\ t >= 1 <=> f \in Exposes(got[r]) /\ \A x \in seen[r] : x[1] # f
        /\ ~doubled => t <= 1
    BY <1>4
  <2> HIDE DEF l, t
  <2>4. \A j \in Named(b, f) : v.rows[f][j] = b.rows[f][j]
    BY <2>1, <2>2
  <2>5. \A j \in new : v.rows[f][j] = got[r]
    BY <2>1, <2>2
  <2>6. t = 0 => new = {}
    BY <2>1
  <2>7. t = 1 => new = {l + 1} /\ l + 1 \in Nat
    BY <2>1
  <2>8. t = 0 \/ t >= 1
    BY <2>1
  <2>9. ~doubled => t = 0 \/ t = 1
    BY <2>1, <2>3
  <2> HIDE DEF new
  <2>10. (f \notin Exposes(got[r]) \/ \E x \in seen[r] : x[1] = f) => Named(v, f) = Named(b, f)
    BY <2>2, <2>3, <2>6, <2>8
  <2>11. ASSUME f \in Exposes(got[r]), \A x \in seen[r] : x[1] # f, ~doubled
         PROVE  \E j \in Nat : Named(v, f) = Named(b, f) \cup {j}
    <3>1. t = 1
      BY <2>1, <2>3, <2>11
    <3> QED BY <2>2, <2>7, <3>1
  <2> QED BY <2>2, <2>4, <2>5, <2>10, <2>11
<1>9. InsertedBy(r, v)
  BY <1>3, <1>8 DEF b, InsertedBy
<1> QED BY <1>5, <1>9

\* Whatever a sync writes, it writes the release it fetched.
LEMMA WritesWhatItFetched ==
    ASSUME NEW r \in Syncs, TypeOK, InHand(r), SyncNext(r), NEW n \in Nat, NotAhead(n),
           stage[r] \in Fetched => got[r] <= n
    PROVE  NotAhead(n)'
<1> DEFINE Old(b) == \A e \in EntitySets : \A j \in Named(b, e) : b.rows[e][j] <= n
<1>1. CASE snapshot' = snapshot /\ kbs' = kbs
  BY <1>1 DEF NotAhead
<1>2. CASE Persist(r)
  <2>1. stage[r] \in Fetched /\ kbs' = kbs
    BY <1>2 DEF Persist, Move, Fetched, InFlight
  <2>2. at[r] \in Paths /\ got[r] <= n
    BY <2>1, FetchedType
  <2>3. \A p \in Paths, e \in EntitySets :
          snapshot'[p][e] = snapshot[p][e] \/ snapshot'[p][e] = got[r]
    BY <1>2, <2>2 DEF Persist, TypeOK
  <2> QED BY <2>1, <2>2, <2>3 DEF NotAhead
<1>3. CASE CreateKb(r)
  <2>1. snapshot' = snapshot /\ kbs' = Append(kbs, [ columns |-> 0, rows |-> NoRows ])
    BY <1>3 DEF CreateKb
  <2>2. Len(kbs) \in Nat /\ DOMAIN kbs = 1 .. Len(kbs)
        /\ DOMAIN kbs' = 1 .. Len(kbs) + 1
        /\ kbs'[Len(kbs) + 1].rows = NoRows
        /\ \A i \in 1 .. Len(kbs) : kbs'[i] = kbs[i]
    BY <2>1 DEF TypeOK
  <2>3. \A e \in EntitySets : Named(kbs'[Len(kbs) + 1], e) = {}
    BY <2>2 DEF NoRows, Named
  <2>4. ASSUME NEW i \in DOMAIN kbs', NEW e \in EntitySets, NEW j \in Named(kbs'[i], e)
        PROVE  kbs'[i].rows[e][j] <= n
    <3>1. CASE i \in DOMAIN kbs
      BY <2>2, <2>4, <3>1 DEF NotAhead
    <3>2. CASE i = Len(kbs) + 1
      BY <2>3, <2>4, <3>2
    <3> QED BY <2>2, <3>1, <3>2
  <2> QED BY <2>1, <2>4 DEF NotAhead
<1>4. ASSUME NEW b \in KnowledgeBase, kb[r] \in 1 .. Len(kbs), snapshot' = snapshot,
             kbs' = [ kbs EXCEPT ![kb[r]] = b ], Old(b)
      PROVE  NotAhead(n)'
  <2>1. DOMAIN kbs' = DOMAIN kbs /\ DOMAIN kbs = 1 .. Len(kbs)
        /\ \A i \in DOMAIN kbs : kbs'[i] = IF i = kb[r] THEN b ELSE kbs[i]
    BY <1>4, KbType DEF TypeOK
  <2>2. ASSUME NEW i \in DOMAIN kbs', NEW e \in EntitySets, NEW j \in Named(kbs'[i], e)
        PROVE  kbs'[i].rows[e][j] <= n
    <3>1. CASE i = kb[r]
      BY <1>4, <2>1, <2>2, <3>1
    <3>2. CASE i # kb[r]
      BY <2>1, <2>2, <3>2 DEF NotAhead
    <3> QED BY <3>1, <3>2
  <2> QED BY <1>4, <2>2 DEF NotAhead
<1>5. ASSUME stage[r] \in { "adding", "writing" }
      PROVE  /\ kb[r] \in 1 .. Len(kbs) /\ kbs[kb[r]] \in KnowledgeBase
             /\ Old(kbs[kb[r]]) /\ got[r] <= n
  <2>1. stage[r] \in Fetched
    BY <1>5 DEF Fetched, InFlight
  <2>2. kb[r] \in 1 .. Len(kbs)
    BY <1>5 DEF InHand
  <2> QED BY <2>1, <2>2, KbType DEF NotAhead
<1>6. CASE AddColumn(r)
  <2>1. stage[r] = "adding" /\ snapshot' = snapshot
    BY <1>6 DEF AddColumn, Move
  <2>2. kbs[kb[r]].columns + 1 <= Columns
    BY <1>5, <1>6, <2>1, KbType, SyncConstants DEF AddColumn
  <2>3. WithColumn(kbs[kb[r]]) \in KnowledgeBase
        /\ WithColumn(kbs[kb[r]]).rows = kbs[kb[r]].rows
    BY <1>5, <2>1, <2>2, WithColumnKeeps
  <2>4. kbs' = [ kbs EXCEPT ![kb[r]] = WithColumn(kbs[kb[r]]) ]
    BY <1>6 DEF AddColumn
  <2>5. Old(WithColumn(kbs[kb[r]]))
    BY <1>5, <2>1, <2>3 DEF Named
  <2> QED BY <1>4, <1>5, <2>1, <2>3, <2>4, <2>5
<1>7. CASE UpdateRow(r)
  <2>1. stage[r] = "writing" /\ snapshot' = snapshot
    BY <1>7 DEF UpdateRow, Move
  <2> DEFINE b == kbs[kb[r]]
  <2>0. PICK i \in todo[r], x \in seen[r], v \in KnowledgeBase : UpdatedBy(r, i, x, v)
    BY <1>7, Updated
  <2>2. /\ kbs' = [ kbs EXCEPT ![kb[r]] = v ] /\ x[1] \in EntitySets
        /\ v.rows[x[1]][x[2]] = got[r]
        /\ \A f \in EntitySets : \A j \in 1 .. Len(b.rows[f]) :
              f # x[1] \/ j # x[2] => v.rows[f][j] = b.rows[f][j]
        /\ \A f \in EntitySets :
              /\ f = x[1] => Named(v, f) = Named(b, f) \cup {x[2]}
              /\ f # x[1] => Named(v, f) = Named(b, f)
    BY <2>0 DEF UpdatedBy
  <2>3. \A f \in EntitySets : Named(b, f) \subseteq 1 .. Len(b.rows[f])
    BY <1>5, <2>1, NamedOf
  <2> HIDE DEF b
  <2>4. ASSUME NEW f \in EntitySets, NEW j \in Named(v, f) PROVE v.rows[f][j] <= n
    <3>1. CASE f = x[1] /\ j = x[2]
      BY <1>5, <2>1, <2>2, <3>1
    <3>2. CASE f # x[1] \/ j # x[2]
      <4>1. j \in Named(b, f)
        BY <2>2, <2>4, <3>2
      <4> QED BY <1>5, <2>1, <2>2, <2>3, <3>2, <4>1 DEF b
    <3> QED BY <3>1, <3>2
  <2> QED BY <1>4, <1>5, <2>1, <2>2, <2>4
<1>8. CASE InsertBatch(r)
  <2>1. stage[r] = "writing" /\ snapshot' = snapshot
    BY <1>8 DEF InsertBatch, Move
  <2> DEFINE b == kbs[kb[r]]
  <2>0. PICK v \in KnowledgeBase : InsertedBy(r, v)
    BY <1>8, Inserted
  <2>2. /\ kbs' = [ kbs EXCEPT ![kb[r]] = v ]
        /\ \A f \in EntitySets :
              /\ \A j \in Named(b, f) : v.rows[f][j] = b.rows[f][j]
              /\ \A j \in Named(v, f) \ Named(b, f) : v.rows[f][j] = got[r]
    BY <2>0 DEF InsertedBy
  <2> HIDE DEF b
  <2>3. ASSUME NEW f \in EntitySets, NEW j \in Named(v, f) PROVE v.rows[f][j] <= n
    <3>1. CASE j \in Named(b, f)
      BY <1>5, <2>1, <2>2, <3>1 DEF b
    <3>2. CASE j \notin Named(b, f)
      BY <1>5, <2>1, <2>2, <2>3, <3>2
    <3> QED BY <3>1, <3>2
  <2> QED BY <1>4, <1>5, <2>1, <2>2, <2>3
<1> QED BY <1>1, <1>2, <1>3, <1>6, <1>7, <1>8
        DEF SyncNext, Start, Fetch, FindKb, ListRows, Report, GiveUp

LEMMA NoneAheadKeeps ==
    ASSUME TypeOK, \A r \in Syncs : InHand(r), \A r \in Syncs : Undisturbed(r), NoneAhead,
           Next, ~overlapped'
    PROVE  NoneAhead'
<1>1. release \in Nat /\ \A r \in Syncs : stage[r] \in Fetched => got[r] \in Nat /\ got[r] <= release
  <2>1. release \in Nat
    BY SyncConstants DEF TypeOK
  <2> QED BY <2>1, FetchedType
<1>2. ASSUME NEW r \in Syncs, SyncNext(r) PROVE NoneAhead'
  <2>1. release' = release
    BY <1>2 DEF SyncNext, Start, Fetch, Persist, FindKb, CreateKb, AddColumn, ListRows, UpdateRow,
           InsertBatch, Report, GiveUp
  <2>2. \A n \in Nat : NotAhead(n) /\ (stage[r] \in Fetched => got[r] <= n) => NotAhead(n)'
    BY <1>2, WritesWhatItFetched
  <2>3. NotAhead(release)'
    BY <1>1, <2>1, <2>2 DEF NoneAhead, NotAhead
  <2>4. \A q \in Syncs : q # r => stage'[q] \notin Fetched
    BY <1>2, Solo DEF Fetched
  <2>5. CASE Fetch(r)
    <3>1. got'[r] = release'
      BY <2>1, <2>5 DEF Fetch, TypeOK
    <3> QED BY <2>3, <2>4, <3>1 DEF NoneAhead, NotAhead
  <2>6. CASE ~Fetch(r)
    <3>1. stage'[r] \in Fetched => stage[r] \in Fetched /\ got'[r] = got[r]
      BY <1>2, <2>6 DEF SyncNext, Start, Persist, FindKb, CreateKb, AddColumn, ListRows, UpdateRow,
             InsertBatch, Report, GiveUp, Move, Over, TypeOK, local, Fetched, InFlight
    <3>2. stage[r] \in Fetched => NotAhead(got[r])
      BY DEF NoneAhead
    <3>3. got[r] \in Nat /\ NotAhead(got[r]) /\ got'[r] = got[r] => NotAhead(got[r])'
      BY <2>2, <1>1 DEF NotAhead
    <3> QED BY <1>1, <2>3, <2>4, <3>1, <3>2, <3>3 DEF NoneAhead
  <2> QED BY <2>5, <2>6
<1>3. CASE DeleteConnection
  <2>1. \A p \in Paths, e \in EntitySets : snapshot'[p][e] = None
    BY <1>3 DEF DeleteConnection
  <2>2. UNCHANGED << release, kbs, stage, got >>
    BY <1>3 DEF DeleteConnection, local
  <2> QED BY <2>1, <2>2 DEF NoneAhead, NotAhead
<1>4. CASE Repoint
  <2>1. UNCHANGED << release, snapshot, kbs, stage, got >>
    BY <1>4 DEF Repoint, local
  <2> QED BY <2>1 DEF NoneAhead, NotAhead
<1>5. CASE NewRelease
  <2>1. release' = release + 1 /\ UNCHANGED << snapshot, kbs, stage, got >>
    BY <1>5 DEF NewRelease, local
  <2>2. NotAhead(release)'
    <3>1. \A p \in Paths, e \in EntitySets :
            snapshot[p][e] # None => snapshot[p][e] \in Nat /\ snapshot[p][e] <= release + 1
      BY <1>1, SyncConstants DEF NoneAhead, NotAhead, TypeOK
    <3>2. \A i \in DOMAIN kbs, e \in EntitySets :
            \A j \in Named(kbs[i], e) : kbs[i].rows[e][j] <= release + 1
      <4>1. \A i \in DOMAIN kbs, e \in EntitySets :
              \A j \in Named(kbs[i], e) : kbs[i].rows[e][j] \in Nat
        BY KbType, SyncConstants
      <4> QED BY <1>1, <4>1 DEF NoneAhead, NotAhead
    <3> QED BY <2>1, <3>1, <3>2 DEF NotAhead
  <2> QED BY <2>1, <2>2 DEF NoneAhead, NotAhead
<1>6. CASE EmptyRow
  <2>1. /\ UNCHANGED << release, snapshot, stage, got >> /\ DOMAIN kbs' = DOMAIN kbs
        /\ \A i \in DOMAIN kbs, e \in EntitySets :
              /\ Named(kbs'[i], e) \subseteq Named(kbs[i], e)
              /\ \A j \in Named(kbs'[i], e) : kbs'[i].rows[e][j] = kbs[i].rows[e][j]
    BY <1>6, KbType, EmptyRowStep
  <2>2. \A n : NotAhead(n) => NotAhead(n)'
    BY <2>1 DEF NotAhead
  <2>3. NotAhead(release)'
    BY <2>1, <2>2 DEF NoneAhead, NotAhead
  <2>4. ASSUME NEW r \in Syncs, stage'[r] \in Fetched PROVE NotAhead(got[r])'
    <3>1. NotAhead(got[r])
      BY <2>1, <2>4 DEF NoneAhead
    <3> QED BY <2>1, <3>1 DEF NotAhead
  <2> QED BY <2>3, <2>4 DEF NoneAhead
<1> QED BY <1>2, <1>3, <1>4, <1>5, <1>6 DEF Next

LEMMA AtMostOneKeeps ==
    ASSUME TypeOK, \A r \in Syncs : InHand(r), \A r \in Syncs : Undisturbed(r), AtMostOne, Next
    PROVE  AtMostOne'
<1>1. Distinct' => Distinct
  BY DEF Distinct, TypeOK, Next, SyncNext, Start, Fetch, Persist, FindKb, CreateKb, AddColumn,
       ListRows, UpdateRow, InsertBatch, Report, GiveUp, DeleteConnection, Repoint, NewRelease,
       EmptyRow, history
<1>2. CASE kbs' = kbs
  BY <1>1, <1>2 DEF AtMostOne
<1>3. ASSUME NEW r \in Syncs, CreateKb(r) PROVE AtMostOne'
  <2>1. kbs = << >> /\ kbs' = Append(kbs, [ columns |-> 0, rows |-> NoRows ])
    BY <1>3 DEF CreateKb, Move, Undisturbed
  <2>2. kbs' = << [ columns |-> 0, rows |-> NoRows ] >>
    BY <2>1
  <2>3. Len(kbs') = 1 /\ DOMAIN kbs' = {1} /\ kbs'[1].rows = NoRows
    BY <2>2
  <2>4. \A e \in EntitySets : Named(kbs'[1], e) = {}
    BY <2>3 DEF NoRows, Named
  <2> QED BY <2>3, <2>4 DEF AtMostOne
<1>4. ASSUME NEW i \in 1 .. Len(kbs), NEW b \in KnowledgeBase, kbs' = [ kbs EXCEPT ![i] = b ],
             Distinct => \A e \in EntitySets : \A j, k \in Named(b, e) : j = k
      PROVE  AtMostOne'
  <2>1. /\ DOMAIN kbs' = DOMAIN kbs /\ Len(kbs') = Len(kbs)
        /\ kbs'[i] = b /\ \A l \in DOMAIN kbs : l # i => kbs'[l] = kbs[l]
    BY <1>4 DEF TypeOK
  <2>2. ASSUME Distinct, NEW l \in DOMAIN kbs, NEW e \in EntitySets
        PROVE  \A j, k \in Named(kbs'[l], e) : j = k
    <3>1. CASE l = i
      BY <1>4, <2>1, <2>2, <3>1
    <3>2. CASE l # i
      BY <2>1, <2>2, <3>2 DEF AtMostOne
    <3> QED BY <3>1, <3>2
  <2> QED BY <1>1, <2>1, <2>2 DEF AtMostOne
<1>5. ASSUME NEW r \in Syncs, stage[r] \in { "adding", "writing" }
      PROVE  /\ kb[r] \in 1 .. Len(kbs) /\ kbs[kb[r]] \in KnowledgeBase
             /\ Distinct => \A e \in EntitySets : \A j, k \in Named(kbs[kb[r]], e) : j = k
  <2>1. kb[r] \in 1 .. Len(kbs) /\ kb[r] \in DOMAIN kbs
    BY <1>5, KbType DEF InHand
  <2> QED BY <2>1, KbType DEF AtMostOne
<1>6. ASSUME NEW r \in Syncs, AddColumn(r) PROVE AtMostOne'
  <2>1. stage[r] = "adding"
    BY <1>6 DEF AddColumn, Move
  <2>2. kbs[kb[r]].columns + 1 <= Columns
    BY <1>5, <1>6, <2>1, KbType, SyncConstants DEF AddColumn
  <2>3. WithColumn(kbs[kb[r]]) \in KnowledgeBase
        /\ WithColumn(kbs[kb[r]]).rows = kbs[kb[r]].rows
    BY <1>5, <2>1, <2>2, WithColumnKeeps
  <2>4. kbs' = [ kbs EXCEPT ![kb[r]] = WithColumn(kbs[kb[r]]) ]
    BY <1>6 DEF AddColumn
  <2>5. \A e \in EntitySets : Named(WithColumn(kbs[kb[r]]), e) = Named(kbs[kb[r]], e)
    BY <2>3 DEF Named
  <2>6. Distinct => \A e \in EntitySets : \A j, k \in Named(WithColumn(kbs[kb[r]]), e) : j = k
    BY <1>5, <2>1, <2>5
  <2>7. kb[r] \in 1 .. Len(kbs)
    BY <1>5, <2>1
  <2> QED BY <1>4, <2>3, <2>4, <2>6, <2>7
<1>7. ASSUME NEW r \in Syncs, UpdateRow(r) PROVE AtMostOne'
  <2>1. stage[r] = "writing"
    BY <1>7 DEF UpdateRow, Move
  <2> DEFINE b == kbs[kb[r]]
  <2>0. PICK i \in todo[r], x \in seen[r], v \in KnowledgeBase : UpdatedBy(r, i, x, v)
    BY <1>7, Updated
  <2>2. /\ kbs' = [ kbs EXCEPT ![kb[r]] = v ] /\ x[1] \in EntitySets
        /\ v.rows[x[1]][x[2]] = got[r]
        /\ \A f \in EntitySets : \A j \in 1 .. Len(b.rows[f]) :
              f # x[1] \/ j # x[2] => v.rows[f][j] = b.rows[f][j]
        /\ \A f \in EntitySets :
              /\ f = x[1] => Named(v, f) = Named(b, f) \cup {x[2]}
              /\ f # x[1] => Named(v, f) = Named(b, f)
    BY <2>0 DEF UpdatedBy
  <2>3. Distinct => Named(b, x[1]) \subseteq {x[2]}
    <3>1. Distinct => \A j \in Named(b, x[1]) : << x[1], j >> \in seen[r]
      BY <2>1, <2>2 DEF Undisturbed
    <3>2. \A y \in seen[r] : y[1] = x[1] => y = x
      BY <2>1 DEF InHand
    <3> HIDE DEF b
    <3>3. \A j : << x[1], j >>[1] = x[1] /\ << x[1], j >>[2] = j
      OBVIOUS
    <3> QED BY <3>1, <3>2, <3>3
  <2>4. Distinct => \A e \in EntitySets : \A j, k \in Named(b, e) : j = k
    BY <1>5, <2>1
  <2> HIDE DEF b
  <2>5. ASSUME Distinct, NEW e \in EntitySets PROVE \A j, k \in Named(v, e) : j = k
    <3>1. CASE e = x[1]
      <4>1. Named(v, e) \subseteq {x[2]}
        BY <2>2, <2>3, <2>5, <3>1
      <4> QED BY <4>1
    <3>2. CASE e # x[1]
      BY <2>2, <2>4, <2>5, <3>2
    <3> QED BY <3>1, <3>2
  <2> QED BY <1>4, <1>5, <2>1, <2>2, <2>5
<1>8. ASSUME NEW r \in Syncs, InsertBatch(r) PROVE AtMostOne'
  <2>1. stage[r] = "writing"
    BY <1>8 DEF InsertBatch, Move
  <2> DEFINE b == kbs[kb[r]]
  <2>0. PICK v \in KnowledgeBase : InsertedBy(r, v)
    BY <1>8, Inserted
  <2>2. /\ kbs' = [ kbs EXCEPT ![kb[r]] = v ]
        /\ \A f \in EntitySets :
              /\ (f \notin Exposes(got[r]) \/ \E x \in seen[r] : x[1] = f) =>
                    Named(v, f) = Named(b, f)
              /\ f \in Exposes(got[r]) /\ (\A x \in seen[r] : x[1] # f) /\ ~doubled =>
                    \E j \in Nat : Named(v, f) = Named(b, f) \cup {j}
    BY <2>0 DEF InsertedBy
  <2>3. Distinct => \A e \in EntitySets : \A j \in Named(b, e) : << e, j >> \in seen[r]
    BY <2>1 DEF Undisturbed
  <2>4. Distinct => \A e \in EntitySets : \A j, k \in Named(b, e) : j = k
    BY <1>5, <2>1
  <2> HIDE DEF b
  <2>5. ASSUME Distinct, NEW e \in EntitySets PROVE \A j, k \in Named(v, e) : j = k
    <3>1. CASE e \notin Exposes(got[r]) \/ \E x \in seen[r] : x[1] = e
      <4>1. Named(v, e) = Named(b, e)
        BY <2>2, <3>1
      <4> QED BY <2>4, <2>5, <4>1
    <3>2. CASE e \in Exposes(got[r]) /\ \A x \in seen[r] : x[1] # e
      <4>1. \A j : << e, j >>[1] = e
        OBVIOUS
      <4>2. Named(b, e) = {}
        BY <2>3, <2>5, <3>2, <4>1
      <4>3. PICK j \in Nat : Named(v, e) = Named(b, e) \cup {j}
        BY <2>2, <2>5, <3>2 DEF Distinct
      <4> QED BY <4>2, <4>3
    <3> QED BY <3>1, <3>2
  <2> QED BY <1>4, <1>5, <2>1, <2>2, <2>5
<1>9. CASE EmptyRow
  <2>1. /\ Len(kbs') = Len(kbs) /\ DOMAIN kbs' = DOMAIN kbs /\ DOMAIN kbs = 1 .. Len(kbs)
        /\ \A i \in 1 .. Len(kbs), e \in EntitySets : Named(kbs'[i], e) \subseteq Named(kbs[i], e)
    BY <1>9, EmptyRowStep, KbType
  <2> QED BY <1>1, <2>1 DEF AtMostOne
<1> QED BY <1>2, <1>3, <1>6, <1>7, <1>8, <1>9
        DEF Next, SyncNext, Start, Fetch, Persist, FindKb, ListRows, Report, GiveUp,
            DeleteConnection, Repoint, NewRelease

LEMMA EarlyUndisturbed ==
    ASSUME NEW r \in Syncs, TypeOK, InHand(r), Undisturbed(r), SyncNext(r), ~overlapped',
           Start(r) \/ Fetch(r) \/ Report(r) \/ GiveUp(r)
    PROVE  Undisturbed(r)'
<1>1. stage'[r] \in { "fetching", "persisting", "done", "gone" }
  BY DEF Start, Fetch, Report, GiveUp, Over, Move, TypeOK
<1>2. \A q \in Syncs : stage'[q] \in InFlight => q = r
  BY Solo
<1> QED BY <1>1, <1>2 DEF Undisturbed, Persisted, Fetched, InFlight

LEMMA PersistUndisturbed ==
    ASSUME NEW r \in Syncs, TypeOK, InHand(r), Undisturbed(r), SyncNext(r), ~overlapped', Persist(r)
    PROVE  Undisturbed(r)'
<1>1. stage[r] = "persisting" /\ stage'[r] = "finding" /\ at'[r] = at[r] /\ got'[r] = got[r]
  BY DEF Persist, Move, TypeOK, local
<1>2. \A q \in Syncs : stage'[q] \in InFlight => q = r
  BY Solo
<1>3. at[r] \in Paths /\ Exposes(got[r]) \subseteq EntitySets
  BY <1>1, FetchedType DEF Fetched, InFlight
<1>4. \A e \in Exposes(got[r]) : snapshot'[at[r]][e] = got[r]
  BY <1>3 DEF Persist, TypeOK
<1> QED BY <1>1, <1>2, <1>4 DEF Undisturbed

LEMMA FindKbUndisturbed ==
    ASSUME NEW r \in Syncs, TypeOK, InHand(r), Undisturbed(r), SyncNext(r), ~overlapped', FindKb(r)
    PROVE  Undisturbed(r)'
<1>1. /\ stage[r] = "finding" /\ at'[r] = at[r] /\ got'[r] = got[r]
      /\ kbs' = kbs /\ connection' = connection /\ snapshot' = snapshot
      /\ \/ stage'[r] = "creating" /\ kbs = << >>
         \/ stage'[r] = "listing"
  BY DEF FindKb, Move, TypeOK, row
<1>2. \A q \in Syncs : stage'[q] \in InFlight => q = r
  BY Solo
<1> QED BY <1>1, <1>2 DEF Undisturbed, Persisted, Fetched, InFlight

LEMMA CreateKbUndisturbed ==
    ASSUME NEW r \in Syncs, TypeOK, InHand(r), Undisturbed(r), SyncNext(r), ~overlapped', CreateKb(r)
    PROVE  Undisturbed(r)'
<1>1. /\ stage[r] = "creating" /\ stage'[r] = "adding" /\ at'[r] = at[r] /\ got'[r] = got[r]
      /\ connection' = connection /\ snapshot' = snapshot
      /\ kb'[r] = Len(kbs) + 1 /\ kbs' = Append(kbs, [ columns |-> 0, rows |-> NoRows ])
  BY DEF CreateKb, Move, TypeOK, row
<1>2. \A q \in Syncs : stage'[q] \in InFlight => q = r
  BY Solo
<1>3. kbs'[kb'[r]] = [ columns |-> 0, rows |-> NoRows ]
  BY <1>1 DEF TypeOK
<1>4. \A e \in EntitySets : Named(kbs'[kb'[r]], e) = {}
  BY <1>3 DEF NoRows, Named
<1> QED BY <1>1, <1>2, <1>4 DEF Undisturbed, Persisted, Fetched, InFlight

LEMMA AddColumnUndisturbed ==
    ASSUME NEW r \in Syncs, TypeOK, InHand(r), Undisturbed(r), SyncNext(r), ~overlapped', AddColumn(r)
    PROVE  Undisturbed(r)'
<1>1. /\ stage[r] = "adding" /\ stage'[r] \in { "adding", "writing" }
      /\ at'[r] = at[r] /\ got'[r] = got[r] /\ kb'[r] = kb[r]
      /\ connection' = connection /\ snapshot' = snapshot
      /\ kbs' = [ kbs EXCEPT ![kb[r]] = WithColumn(kbs[kb[r]]) ]
  BY DEF AddColumn, Move, TypeOK, row, local
<1>2. \A q \in Syncs : stage'[q] \in InFlight => q = r
  BY Solo
<1>3. kbs'[kb[r]] = WithColumn(kbs[kb[r]])
  BY <1>1 DEF TypeOK, InHand
<1>4. \A e \in EntitySets : Named(kbs'[kb'[r]], e) = {}
  BY <1>1, <1>3 DEF Undisturbed, WithColumn, Named
<1>5. seen'[r] = {}
  BY <1>1 DEF InHand, AddColumn, local
<1> QED BY <1>1, <1>2, <1>4, <1>5 DEF Undisturbed, Persisted, Fetched, InFlight

LEMMA ListRowsUndisturbed ==
    ASSUME NEW r \in Syncs, TypeOK, InHand(r), Undisturbed(r), AtMostOne, SyncNext(r), ~overlapped',
           ListRows(r)
    PROVE  Undisturbed(r)'
<1> DEFINE b == kbs[kb[r]]
<1>1. /\ stage[r] = "listing" /\ stage'[r] = "writing"
      /\ at'[r] = at[r] /\ got'[r] = got[r] /\ kb'[r] = kb[r]
      /\ connection' = connection /\ snapshot' = snapshot /\ kbs' = kbs /\ doubled' = doubled
  BY DEF ListRows, Move, TypeOK, row
<1>2. \A q \in Syncs : stage'[q] \in InFlight => q = r
  BY Solo
<1>3. b \in KnowledgeBase /\ kb[r] \in DOMAIN kbs
  BY <1>1, KbType DEF InHand
<1>4. PICK view \in FindRows(b) : \E byName \in ByName(b, view) :
        /\ seen' = [ seen EXCEPT ![r] = byName ]
        /\ todo' = [ todo EXCEPT ![r] =
                       { i \in DOMAIN Parsed(got[r]) :
                           \E x \in byName : x[1] = Parsed(got[r])[i].name } ]
  BY DEF ListRows
<1> DEFINE named == { x \in view : x[2] \in Named(b, x[1]) }
<1>5. /\ seen'[r] \in SUBSET named
      /\ \A x \in named : \E y \in seen'[r] : y[1] = x[1]
      /\ todo'[r] = { i \in DOMAIN Parsed(got[r]) :
                        \E x \in seen'[r] : x[1] = Parsed(got[r])[i].name }
  BY <1>4 DEF TypeOK, ByName
<1>6. ~truncated' => view = RowsOf(b)
  <2>1. truncated' = (truncated \/ Cardinality(RowsOf(b)) > FindRowsLimit)
    BY DEF ListRows
  <2>2. Cardinality(RowsOf(b)) \in Nat /\ FindRowsLimit \in Nat
    BY <1>3, RowsOfFinite, SyncConstants
  <2>3. ~truncated' => ~(Cardinality(RowsOf(b)) > FindRowsLimit)
    BY <2>1
  <2>4. ~truncated' => Cardinality(RowsOf(b)) <= FindRowsLimit
    BY <2>2, <2>3
  <2> QED BY <1>3, <1>4, <2>4, WholeView
<1>7. Distinct' => Distinct /\ ~truncated'
  <2>1. ~truncated' => ~truncated
    BY DEF ListRows
  <2> QED BY <1>1, <2>1 DEF Distinct
<1>8. Distinct => \A e \in EntitySets : \A j, k \in Named(b, e) : j = k
  BY <1>3 DEF AtMostOne
<1>9. ASSUME Distinct', NEW e \in EntitySets, NEW j \in Named(b, e)
      PROVE  << e, j >> \in seen'[r]
  <2>1. << e, j >> \in view
    <3>1. << e, j >> \in RowsOf(b)
      <4> HIDE DEF b
      <4> QED BY <1>3, HasRow
    <3> QED BY <1>6, <1>7, <1>9, <3>1
  <2>2. << e, j >> \in named
    BY <2>1
  <2>3. PICK y \in seen'[r] : y[1] = e
    BY <1>5, <2>2
  <2>4. y \in RowsOf(b) /\ y[2] \in Named(b, e)
    <3>1. y \in named
      BY <1>5
    <3> QED BY <1>6, <1>7, <1>9, <2>3, <3>1
  <2>5. y = << y[1], y[2] >>
    <3>1. y \in EntitySets \X Nat
      BY <1>3, <2>4, RowOf
    <3> QED BY <3>1
  <2>6. y[2] = j
    BY <1>7, <1>8, <1>9, <2>4
  <2> QED BY <2>3, <2>5, <2>6
<1>10. \A i \in DOMAIN Parsed(got[r]) \ todo'[r], x \in seen'[r] : x[1] # Parsed(got[r])[i].name
  BY <1>5
<1> HIDE DEF named
<1> QED BY <1>1, <1>2, <1>9, <1>10 DEF Undisturbed, Persisted, Fetched, InFlight

LEMMA UpdateRowUndisturbed ==
    ASSUME NEW r \in Syncs, TypeOK, InHand(r), Undisturbed(r), SyncNext(r), ~overlapped', UpdateRow(r)
    PROVE  Undisturbed(r)'
<1> DEFINE b == kbs[kb[r]]
<1>1. /\ stage[r] = "writing" /\ stage'[r] = "writing"
      /\ at'[r] = at[r] /\ got'[r] = got[r] /\ kb'[r] = kb[r] /\ seen'[r] = seen[r]
      /\ connection' = connection /\ snapshot' = snapshot
      /\ truncated' = truncated /\ doubled' = doubled /\ edited' = edited
  BY DEF UpdateRow, Move, TypeOK, row, history
<1>2. \A q \in Syncs : stage'[q] \in InFlight => q = r
  BY Solo
<1>3. PICK i \in todo[r], x \in seen[r], v \in KnowledgeBase : UpdatedBy(r, i, x, v)
  BY Updated
<1>4. /\ kbs'[kb[r]] = v /\ todo'[r] = todo[r] \ {i} /\ x[1] = Parsed(got[r])[i].name
      /\ v.rows[x[1]][x[2]] = got[r]
  BY <1>3 DEF UpdatedBy
<1>5. \A f \in EntitySets : \A j \in 1 .. Len(b.rows[f]) :
        f # x[1] \/ j # x[2] => v.rows[f][j] = b.rows[f][j]
  BY <1>3 DEF UpdatedBy
<1>6. \A f \in EntitySets :
        /\ f = x[1] => Named(v, f) = Named(b, f) \cup {x[2]}
        /\ f # x[1] => Named(v, f) = Named(b, f)
  BY <1>3 DEF UpdatedBy
<1>7. /\ \A y \in seen[r] : y[1] \in EntitySets /\ y[2] \in 1 .. Len(b.rows[y[1]])
                              /\ y = << y[1], y[2] >>
      /\ \A y \in seen[r] : y[1] = x[1] => y = x
  BY <1>1, <1>3 DEF InHand, TypeOK
<1>8. ASSUME Distinct, NEW f \in EntitySets, NEW j \in Named(v, f)
      PROVE  << f, j >> \in seen[r]
  <2>1. CASE f = x[1] /\ j = x[2]
    BY <1>3, <1>7, <2>1
  <2>2. CASE f # x[1] \/ j # x[2]
    <3>1. j \in Named(b, f)
      BY <1>6, <2>2
    <3> QED BY <1>1, <1>8, <3>1 DEF Undisturbed
  <2> QED BY <2>1, <2>2
<1>9. ASSUME edited # "during", NEW p \in DOMAIN Parsed(got[r]) \ todo'[r], NEW y \in seen[r],
             y[1] = Parsed(got[r])[p].name
      PROVE  v.rows[y[1]][y[2]] = got[r]
  <2>1. CASE y = x
    BY <1>4, <2>1
  <2>2. CASE y # x
    <3>1. y[1] # x[1]
      BY <1>7, <2>2
    <3>2. p \notin todo[r]
      BY <1>4, <1>9, <3>1
    <3>3. b.rows[y[1]][y[2]] = got[r]
      BY <1>1, <1>9, <3>2 DEF Undisturbed
    <3> QED BY <1>5, <1>7, <3>1, <3>3
  <2> QED BY <2>1, <2>2
<1>10. Distinct' = Distinct
  BY <1>1 DEF Distinct
<1> HIDE DEF b
<1>11. stage'[r] = "writing"
  BY <1>1
<1>12. Distinct' => \A e \in EntitySets : \A j \in Named(kbs'[kb'[r]], e) : << e, j >> \in seen'[r]
  BY <1>1, <1>4, <1>8, <1>10
<1>13. edited' # "during" =>
          \A p \in DOMAIN Parsed(got'[r]) \ todo'[r], y \in seen'[r] :
              y[1] = Parsed(got'[r])[p].name => kbs'[kb'[r]].rows[y[1]][y[2]] = got'[r]
  BY <1>1, <1>4, <1>9
<1> QED BY <1>1, <1>2, <1>11, <1>12, <1>13 DEF Undisturbed, Persisted, Fetched, InFlight

LEMMA InsertBatchUndisturbed ==
    ASSUME NEW r \in Syncs, TypeOK, InHand(r), Undisturbed(r), SyncNext(r), ~overlapped',
           InsertBatch(r)
    PROVE  Undisturbed(r)'
<1> DEFINE b == kbs[kb[r]]
<1>1. /\ stage[r] = "writing" /\ stage'[r] = "reporting" /\ todo[r] = {}
      /\ at'[r] = at[r] /\ got'[r] = got[r] /\ kb'[r] = kb[r]
      /\ connection' = connection /\ snapshot' = snapshot
      /\ truncated' = truncated /\ doubled' = doubled /\ edited' = edited
  BY DEF InsertBatch, Move, TypeOK, row, history, local
<1>2. \A q \in Syncs : stage'[q] \in InFlight => q = r
  BY Solo
<1>3. PICK v \in KnowledgeBase : InsertedBy(r, v)
  BY Inserted
<1>4. kbs'[kb[r]] = v
  BY <1>3 DEF InsertedBy
<1>5. Exposes(got[r]) \subseteq EntitySets
      /\ Exposes(got[r]) = { Parsed(got[r])[i].name : i \in DOMAIN Parsed(got[r]) }
  BY <1>1, FetchedType DEF Fetched, InFlight
<1>6. ASSUME Distinct, edited # "during", NEW e \in Exposes(got[r])
      PROVE  \E j \in Named(v, e) : Named(v, e) = {j} /\ v.rows[e][j] = got[r]
  <2>1. /\ \A j \in Named(b, e) : v.rows[e][j] = b.rows[e][j]
        /\ \A j \in Named(v, e) \ Named(b, e) : v.rows[e][j] = got[r]
        /\ (\E x \in seen[r] : x[1] = e) => Named(v, e) = Named(b, e)
        /\ (\A x \in seen[r] : x[1] # e) => \E j \in Nat : Named(v, e) = Named(b, e) \cup {j}
    BY <1>3, <1>5, <1>6 DEF InsertedBy, Distinct
  <2>2. \A j \in Named(b, e) : << e, j >> \in seen[r]
    BY <1>1, <1>5, <1>6 DEF Undisturbed
  <2>3. \A j : << e, j >>[1] = e /\ << e, j >>[2] = j
    OBVIOUS
  <2>4. CASE \E x \in seen[r] : x[1] = e
    <3>1. PICK x \in seen[r] : x[1] = e
      BY <2>4
    <3>2. x[2] \in Named(b, e) /\ \A y \in seen[r] : y[1] = e => y = x
      BY <1>1, <1>6, <3>1 DEF InHand
    <3>3. Named(b, e) = {x[2]}
      BY <2>2, <2>3, <3>2
    <3>4. b.rows[e][x[2]] = got[r]
      <4>1. PICK i \in DOMAIN Parsed(got[r]) : e = Parsed(got[r])[i].name
        BY <1>5
      <4> QED BY <1>1, <1>6, <3>1, <4>1 DEF Undisturbed
    <3> HIDE DEF b
    <3> QED BY <2>1, <2>4, <3>3, <3>4
  <2>5. CASE \A x \in seen[r] : x[1] # e
    <3>1. Named(b, e) = {}
      BY <2>2, <2>3, <2>5
    <3> HIDE DEF b
    <3>2. PICK j \in Nat : Named(v, e) = {j}
      BY <2>1, <2>5, <3>1
    <3> QED BY <2>1, <3>1, <3>2
  <2> QED BY <2>4, <2>5
<1>7. Distinct' = Distinct
  BY <1>1 DEF Distinct
<1> HIDE DEF b
<1> QED BY <1>1, <1>2, <1>4, <1>6, <1>7 DEF Undisturbed, Persisted, Fetched, InFlight

LEMMA UndisturbedKeeps ==
    ASSUME TypeOK, \A r \in Syncs : InHand(r), \A r \in Syncs : Undisturbed(r), AtMostOne,
           Next, ~overlapped'
    PROVE  \A r \in Syncs : Undisturbed(r)'
<1>1. ASSUME NEW r \in Syncs, SyncNext(r), NEW q \in Syncs PROVE Undisturbed(q)'
  <2>1. CASE q = r
    <3>1. Undisturbed(r)'
      BY <1>1, EarlyUndisturbed, PersistUndisturbed, FindKbUndisturbed, CreateKbUndisturbed,
         AddColumnUndisturbed, ListRowsUndisturbed, UpdateRowUndisturbed, InsertBatchUndisturbed
         DEF SyncNext
    <3> QED BY <2>1, <3>1
  <2>2. CASE q # r
    <3>1. stage'[q] \notin InFlight
      BY <1>1, <2>2, Solo
    <3> QED BY <3>1 DEF Undisturbed, Persisted, Fetched, InFlight
  <2> QED BY <2>1, <2>2
<1>2. ASSUME DeleteConnection \/ Repoint \/ NewRelease, NEW q \in Syncs PROVE Undisturbed(q)'
  <2>1. /\ stage' = stage /\ at' = at /\ got' = got /\ kb' = kb /\ seen' = seen /\ todo' = todo
        /\ kbs' = kbs /\ truncated' = truncated /\ doubled' = doubled /\ edited' = edited
        /\ connection' = "live" => connection = "live" /\ snapshot' = snapshot
    BY <1>2 DEF DeleteConnection, Repoint, NewRelease, row, local, history
  <2>2. Undisturbed(q)
    OBVIOUS
  <2>3. CASE connection' = connection /\ snapshot' = snapshot
    BY <2>1, <2>2, <2>3 DEF Undisturbed, Distinct
  <2>4. CASE connection' # "live"
    BY <2>1, <2>2, <2>4 DEF Undisturbed, Distinct
  <2> QED BY <1>2, <2>3, <2>4 DEF DeleteConnection, Repoint, NewRelease, row
<1>3. ASSUME EmptyRow, NEW q \in Syncs PROVE Undisturbed(q)'
  <2>1. /\ stage' = stage /\ at' = at /\ got' = got /\ kb' = kb /\ seen' = seen /\ todo' = todo
        /\ truncated' = truncated /\ doubled' = doubled
        /\ connection' = connection /\ snapshot' = snapshot
        /\ edited' # "during" => stage[q] \notin InFlight
    BY <1>3, EmptyRowStep DEF row
  <2>2. \A i \in 1 .. Len(kbs), e \in EntitySets : Named(kbs'[i], e) \subseteq Named(kbs[i], e)
    BY <1>3, EmptyRowStep
  <2>3. kbs # << >>
    BY <1>3 DEF EmptyRow
  <2>4. stage[q] \in { "adding", "writing" } => kb[q] \in 1 .. Len(kbs)
    BY DEF InHand
  <2>5. Undisturbed(q)
    OBVIOUS
  <2>6. stage[q] \in { "writing", "reporting" } => edited' = "during"
    BY <2>1 DEF InFlight
  <2> QED BY <2>1, <2>2, <2>3, <2>4, <2>5, <2>6 DEF Undisturbed, Distinct
<1> QED BY <1>1, <1>2, <1>3 DEF Next

-----------------------------------------------------------------------------
(* The invariant holds from the start and through every step.              *)

\* At the start there is no cache, no knowledge base and no sync.
LEMMA InitInv == ASSUME Init PROVE IInv
<1> USE DEF Init
<1>1. TypeOK
  <2>1. kbs \in Seq(KnowledgeBase)
    OBVIOUS
  <2>2. snapshot \in [ Paths -> [ EntitySets -> 1 .. Releases \cup {None} ] ]
    OBVIOUS
  <2>3. release \in 1 .. Releases /\ stage \in [ Syncs -> Stages ]
    BY SyncConstants DEF Stages
  <2>4. /\ at \in [ Syncs -> Paths \cup {None} ] /\ got \in [ Syncs -> 1 .. Releases \cup {None} ]
        /\ kb \in [ Syncs -> Nat \cup {None} ]
    OBVIOUS
  <2>5. seen \in [ Syncs -> SUBSET (EntitySets \X Nat) ] /\ todo \in [ Syncs -> SUBSET Nat ]
    BY DEF NothingSeen
  <2> QED BY <2>1, <2>2, <2>3, <2>4, <2>5 DEF TypeOK
<1>2. \A r \in Syncs : stage[r] = "idle" /\ seen[r] = {}
  BY DEF NothingSeen
<1>3. \A r \in Syncs : InHand(r) /\ LeftBehind(r) /\ Undisturbed(r)
  BY <1>2 DEF InHand, LeftBehind, Undisturbed, Persisted, Fetched, InFlight
<1>4. NothingLeft /\ SyncedIsCovered
  BY <1>2 DEF NothingLeft, SyncedIsCovered
<1>5. OnePath
  BY <1>2 DEF OnePath, InFlight
<1>6. NoneAhead
  BY <1>2 DEF NoneAhead, NotAhead, Fetched, InFlight
<1>7. AtMostOne
  BY DEF AtMostOne
<1> QED BY <1>1, <1>3, <1>4, <1>5, <1>6, <1>7 DEF IInv, Alone

\* One conjunct at a time: the invariant is kept.
LEMMA NextInv == ASSUME IInv, [Next]_vars PROVE IInv'
<1> USE DEF IInv
<1>1. CASE Next
  <2>1. TypeOK' /\ (Grown \/ EmptyRow)
    BY <1>1, SyncType, WorldType, EmptyRowStep DEF Next
  <2>2. \A r \in Syncs : InHand(r)' /\ LeftBehind(r)'
    <3>1. CASE \E r \in Syncs : SyncNext(r)
      <4>1. PICK r \in Syncs : SyncNext(r)
        BY <3>1
      <4>2. Grown
        BY <4>1, SyncType
      <4> QED BY <2>1, <4>1, <4>2, SyncKeeps
    <3>2. CASE DeleteConnection \/ Repoint \/ NewRelease
      <4>1. \A q \in Syncs : Bystander(q)
        BY <3>2 DEF DeleteConnection, Repoint, NewRelease, local, Bystander
      <4>2. Grown
        BY <3>2, WorldType
      <4> QED BY <2>1, <4>1, <4>2, BystanderKeeps
    <3>3. CASE EmptyRow
      BY <3>3, EmptyRowKeeps
    <3> QED BY <1>1, <3>1, <3>2, <3>3 DEF Next
  <2>3. NothingLeft' /\ SyncedIsCovered' /\ OnePath'
    BY <1>1, <2>1, NothingLeftKeeps, SyncedIsCoveredKeeps, OnePathKeeps
  <2>4. Alone'
    <3> SUFFICES ASSUME ~overlapped'
                 PROVE  (\A r \in Syncs : Undisturbed(r)') /\ NoneAhead' /\ AtMostOne'
      BY DEF Alone
    <3>1. (\A r \in Syncs : Undisturbed(r)) /\ NoneAhead /\ AtMostOne
      BY <1>1, StaysAlone DEF Alone
    <3> QED BY <1>1, <3>1, UndisturbedKeeps, NoneAheadKeeps, AtMostOneKeeps
  <2> QED BY <2>1, <2>2, <2>3, <2>4
<1>2. CASE UNCHANGED vars
  <2>1. /\ UNCHANGED << release, connection, path, snapshot, kbs, overlapped, repointed >>
        /\ UNCHANGED << truncated, doubled, edited, stage, at, got, kb, seen, todo >>
    BY <1>2 DEF vars, row, history, local
  <2>2. TypeOK'
    BY <2>1 DEF TypeOK
  <2>3. \A r \in Syncs : InHand(r)' /\ LeftBehind(r)'
    BY <2>1 DEF InHand, LeftBehind
  <2>4. NothingLeft' /\ SyncedIsCovered' /\ OnePath'
    BY <2>1 DEF NothingLeft, SyncedIsCovered, OnePath
  <2>5. \A r \in Syncs : Undisturbed(r) => Undisturbed(r)'
    BY <2>1 DEF Undisturbed, Distinct
  <2>6. (NoneAhead => NoneAhead') /\ (AtMostOne => AtMostOne')
    BY <2>1 DEF NoneAhead, NotAhead, AtMostOne, Distinct
  <2> QED BY <2>1, <2>2, <2>3, <2>4, <2>5, <2>6 DEF Alone
<1> QED BY <1>1, <1>2

\* So it holds throughout.
LEMMA SpecInv == Spec => []IInv
  BY InitInv, NextInv, PTL DEF Spec

-----------------------------------------------------------------------------
(* What follows.                                                           *)

\* The types: no sync refers to a knowledge base, a row or a document that is
\* not there.
THEOREM TypeCorrect == Spec => []TypeOK
BY SpecInv, PTL DEF IInv

\* However syncs overlap, fail or race an edit or a deletion, and however often a
\* document names an entity set: a report leaves a row behind for all it fetched, a
\* deleted connection no snapshot row, and once a sync has succeeded some release
\* stays in place, whole, in the snapshot and in one knowledge base.
THEOREM SyncsCover == Spec => []Covered
<1>1. IInv => Covered
  <2> SUFFICES ASSUME IInv PROVE Covered
    OBVIOUS
  <2>1. \A r \in Syncs : stage[r] = "reporting" =>
          \A e \in Exposes(got[r]) :
              /\ edited # "during" => Named(kbs[kb[r]], e) # {}
              /\ connection = "live" => snapshot[at[r]][e] # None
    BY DEF IInv, LeftBehind, Persisted, Fetched, InFlight
  <2> QED BY <2>1 DEF IInv, Covered, NothingLeft, SyncedIsCovered
<1> QED BY SpecInv, <1>1, PTL

\* Re-syncing is idempotent as long as no two syncs overlap, find_rows can return
\* every row and no document that names an entity set twice has been stored,
\* wherever earlier attempts gave up.
THEOREM ResyncIsIdempotent == Spec => []IdempotentAlone
<1>1. IInv => IdempotentAlone
  BY DEF IInv, Alone, AtMostOne, Distinct, IdempotentAlone, OneOfEach
<1> QED BY SpecInv, <1>1, PTL

\* A sync that nobody overlaps leaves exactly what it fetched: in the snapshot
\* always, in its knowledge base under the same conditions.
THEOREM ResyncRefreshes == Spec => []RefreshedAlone
<1>1. IInv => RefreshedAlone
  <2> SUFFICES ASSUME IInv, ~overlapped, NEW r \in Syncs, stage[r] = "reporting",
                      NEW e \in Exposes(got[r])
               PROVE  /\ ~truncated /\ ~doubled /\ edited # "during" =>
                            LET b == kbs[kb[r]]
                            IN  \E i \in Named(b, e) : Named(b, e) = {i} /\ b.rows[e][i] = got[r]
                      /\ connection = "live" => snapshot[at[r]][e] = got[r]
                      /\ connection = "live" /\ ~repointed => Described(e) = { got[r] }
    BY DEF RefreshedAlone
  <2>1. stage[r] \in Fetched /\ stage[r] \in Persisted /\ stage[r] \in InFlight
    BY DEF Persisted, Fetched, InFlight
  <2>2. Undisturbed(r)
    BY DEF IInv, Alone
  <2>3. ASSUME ~truncated, ~doubled, edited # "during"
        PROVE  \E i \in Named(kbs[kb[r]], e) :
                  Named(kbs[kb[r]], e) = {i} /\ kbs[kb[r]].rows[e][i] = got[r]
    BY <2>2, <2>3 DEF Undisturbed, Distinct
  <2>4. connection = "live" => snapshot[at[r]][e] = got[r]
    BY <2>1, <2>2 DEF Undisturbed
  <2>5. at[r] \in Paths /\ got[r] \in Nat /\ e \in EntitySets
    BY <2>1, FetchedType DEF IInv
  <2>6. ASSUME connection = "live", ~repointed PROVE Described(e) = { got[r] }
    <3>1. at[r] = path /\ \A p \in Paths \ {path} : snapshot[p][e] = None
      BY <2>1, <2>5, <2>6 DEF IInv, OnePath
    <3>2. got[r] # None
      BY <2>5, SyncConstants
    <3> QED BY <2>4, <2>5, <2>6, <3>1, <3>2 DEF Described
  <2> QED BY <2>3, <2>4, <2>6
<1> QED BY SpecInv, <1>1, PTL

\* ... and overwrites nothing with an older release.
THEOREM ResyncGoesForward == Spec => ForwardAlone
<1> DEFINE Forward ==
        /\ \A p \in Paths, e \in EntitySets :
              snapshot[p][e] # None /\ snapshot'[p][e] # None => snapshot'[p][e] >= snapshot[p][e]
        /\ \A i \in DOMAIN kbs, e \in EntitySets : \A j \in Named(kbs[i], e) :
              j \in Named(kbs'[i], e) => kbs'[i].rows[e][j] >= kbs[i].rows[e][j]
<1>1. ASSUME IInv, [Next]_vars, ~overlapped' PROVE Forward
  <2>1. TypeOK /\ \A r \in Syncs : InHand(r)
    BY <1>1 DEF IInv
  <2>2. \A p \in Paths, e \in EntitySets : snapshot[p][e] # None => snapshot[p][e] \in Nat
    BY <2>1, SyncConstants DEF TypeOK
  <2>3. DOMAIN kbs = 1 .. Len(kbs)
        /\ \A i \in DOMAIN kbs, e \in EntitySets :
              /\ Named(kbs[i], e) \subseteq 1 .. Len(kbs[i].rows[e])
              /\ \A j \in Named(kbs[i], e) : kbs[i].rows[e][j] \in Nat
    BY <2>1, KbType, SyncConstants
  <2>4. ASSUME snapshot' = snapshot, kbs' = kbs PROVE Forward
    BY <2>2, <2>3, <2>4
  <2>5. ASSUME NEW r \in Syncs, stage[r] \in Fetched
        PROVE  got[r] \in Nat /\ at[r] \in Paths /\ (~overlapped => NotAhead(got[r]))
    BY <1>1, <2>1, <2>5, FetchedType DEF IInv, Alone, NoneAhead
  <2>6. ASSUME NEW r \in Syncs, Persist(r) PROVE Forward
    <3>1. stage[r] \in Fetched /\ kbs' = kbs /\ ~overlapped
      BY <1>1, <2>6 DEF Persist, Move, Fetched, InFlight
    <3>2. \A p \in Paths, e \in EntitySets :
            snapshot'[p][e] = snapshot[p][e] \/ snapshot'[p][e] = got[r]
      BY <2>1, <2>5, <2>6, <3>1 DEF Persist, TypeOK
    <3>3. \A p \in Paths, e \in EntitySets : snapshot[p][e] # None => got[r] >= snapshot[p][e]
      BY <2>2, <2>5, <3>1 DEF NotAhead
    <3> QED BY <2>2, <2>3, <3>1, <3>2, <3>3
  <2>7. CASE DeleteConnection
    BY <2>3, <2>7 DEF DeleteConnection
  <2>8. ASSUME NEW r \in Syncs, CreateKb(r) PROVE Forward
    <3>1. snapshot' = snapshot /\ \A i \in DOMAIN kbs : kbs'[i] = kbs[i]
      BY <2>1, <2>8 DEF CreateKb, TypeOK
    <3> QED BY <2>2, <2>3, <3>1
  <2>9. ASSUME NEW r \in Syncs, stage[r] \in { "adding", "writing" }, ~overlapped
        PROVE  /\ kb[r] \in DOMAIN kbs /\ kbs[kb[r]] \in KnowledgeBase
               /\ \A e \in EntitySets : \A j \in Named(kbs[kb[r]], e) :
                     got[r] >= kbs[kb[r]].rows[e][j]
    <3>1. stage[r] \in Fetched
      BY <2>9 DEF Fetched, InFlight
    <3>2. kb[r] \in DOMAIN kbs /\ kbs[kb[r]] \in KnowledgeBase
      BY <2>1, <2>9, KbType DEF InHand
    <3> QED BY <2>3, <2>5, <2>9, <3>1, <3>2 DEF NotAhead
  <2>10. ASSUME NEW k \in DOMAIN kbs, NEW b \in KnowledgeBase, kbs' = [ kbs EXCEPT ![k] = b ],
                snapshot' = snapshot,
                \A e \in EntitySets : \A j \in Named(kbs[k], e) :
                    b.rows[e][j] >= kbs[k].rows[e][j]
         PROVE  Forward
    <3>1. kbs'[k] = b /\ \A i \in DOMAIN kbs : i # k => kbs'[i] = kbs[i]
      BY <2>1, <2>10 DEF TypeOK
    <3>2. ASSUME NEW i \in DOMAIN kbs, NEW e \in EntitySets, NEW j \in Named(kbs[i], e)
          PROVE  kbs'[i].rows[e][j] >= kbs[i].rows[e][j]
      <4>1. CASE i = k
        BY <2>10, <3>1, <4>1
      <4>2. CASE i # k
        BY <2>3, <3>1, <4>2
      <4> QED BY <4>1, <4>2
    <3> QED BY <2>2, <2>10, <3>2
  <2>11. ASSUME NEW r \in Syncs, AddColumn(r) PROVE Forward
    <3>1. stage[r] = "adding" /\ snapshot' = snapshot /\ ~overlapped
      BY <1>1, <2>11 DEF AddColumn, Move, history
    <3>2. kbs[kb[r]].columns + 1 <= Columns
      BY <2>1, <2>3, <2>9, <2>11, <3>1, KbType, SyncConstants DEF AddColumn
    <3>3. WithColumn(kbs[kb[r]]) \in KnowledgeBase
          /\ WithColumn(kbs[kb[r]]).rows = kbs[kb[r]].rows
      BY <2>9, <3>1, <3>2, WithColumnKeeps
    <3>4. kbs' = [ kbs EXCEPT ![kb[r]] = WithColumn(kbs[kb[r]]) ]
      BY <2>11 DEF AddColumn
    <3>5. \A e \in EntitySets : \A j \in Named(kbs[kb[r]], e) :
            WithColumn(kbs[kb[r]]).rows[e][j] >= kbs[kb[r]].rows[e][j]
      BY <2>3, <2>9, <3>1, <3>3
    <3> QED BY <2>9, <2>10, <3>1, <3>3, <3>4, <3>5
  <2>12. ASSUME NEW r \in Syncs, UpdateRow(r) PROVE Forward
    <3>1. stage[r] = "writing" /\ snapshot' = snapshot /\ ~overlapped
      BY <1>1, <2>12 DEF UpdateRow, Move, history
    <3>2. PICK i \in todo[r], x \in seen[r], v \in KnowledgeBase : UpdatedBy(r, i, x, v)
      BY <2>1, <2>12, Updated
    <3>3. kbs' = [ kbs EXCEPT ![kb[r]] = v ]
      BY <3>2 DEF UpdatedBy
    <3>4. ASSUME NEW e \in EntitySets, NEW j \in Named(kbs[kb[r]], e)
          PROVE  v.rows[e][j] >= kbs[kb[r]].rows[e][j]
      <4>1. kbs[kb[r]].rows[e][j] \in Nat /\ j \in 1 .. Len(kbs[kb[r]].rows[e])
            /\ got[r] >= kbs[kb[r]].rows[e][j]
        BY <2>3, <2>9, <3>1
      <4>2. v.rows[e][j] = got[r] \/ v.rows[e][j] = kbs[kb[r]].rows[e][j]
        BY <3>2, <4>1 DEF UpdatedBy
      <4> QED BY <4>1, <4>2
    <3> QED BY <2>9, <2>10, <3>1, <3>3, <3>4
  <2>13. ASSUME NEW r \in Syncs, InsertBatch(r) PROVE Forward
    <3>1. stage[r] = "writing" /\ snapshot' = snapshot /\ ~overlapped
      BY <1>1, <2>13 DEF InsertBatch, Move, history
    <3>2. PICK v \in KnowledgeBase : InsertedBy(r, v)
      BY <2>1, <2>13, Inserted
    <3>3. kbs' = [ kbs EXCEPT ![kb[r]] = v ]
      BY <3>2 DEF InsertedBy
    <3>4. \A e \in EntitySets : \A j \in Named(kbs[kb[r]], e) :
            v.rows[e][j] = kbs[kb[r]].rows[e][j]
      BY <3>2 DEF InsertedBy
    <3>5. \A e \in EntitySets : \A j \in Named(kbs[kb[r]], e) :
            v.rows[e][j] >= kbs[kb[r]].rows[e][j]
      BY <2>3, <2>9, <3>1, <3>4
    <3> QED BY <2>9, <2>10, <3>1, <3>2, <3>3, <3>5
  <2>14. CASE EmptyRow
    <3>1. /\ snapshot' = snapshot
          /\ \A i \in 1 .. Len(kbs), e \in EntitySets :
                \A j \in Named(kbs'[i], e) : kbs'[i].rows[e][j] = kbs[i].rows[e][j]
      BY <2>1, <2>14, EmptyRowStep
    <3> QED BY <2>2, <2>3, <3>1
  <2> QED BY <1>1, <2>4, <2>6, <2>7, <2>8, <2>11, <2>12, <2>13, <2>14
          DEF Next, SyncNext, Start, Fetch, FindKb, ListRows, Report, GiveUp, Repoint,
              NewRelease, vars
<1>2. IInv /\ [Next]_vars => [ ~overlapped' => Forward ]_vars
  BY <1>1
<1> QED BY SpecInv, <1>2, PTL DEF Spec, ForwardAlone

-----------------------------------------------------------------------------
(* The parser: what a document of one schema declares is parsed, all of it *)
(* and nothing else.  FlattenSeq is a recursive function: that it is one,  *)
(* and what it gives, is shown by the least position where it would not.   *)

\* A non-empty set of numbers has a least element, one below a bound a greatest.
LEMMA LeastNumber ==
    ASSUME NEW S \in SUBSET Nat, S # {}
    PROVE  \E m \in S : \A i \in S : m <= i
<1> DEFINE before == OpToRel(<, Nat)
<1>1. before = { pair \in Nat \X Nat : pair[1] < pair[2] }
  BY DEF OpToRel
<1>2. IsWellFoundedOn(before, Nat)
  BY NatLessThanWellFounded
<1> HIDE DEF before
<1>3. \E m \in S : \A i \in S : ~ (<< i, m >> \in before)
  BY <1>2, WFMin
<1>4. \A i, m \in S : ~ (<< i, m >> \in before) => m <= i
  BY <1>1
<1> QED BY <1>3, <1>4

LEMMA GreatestNumber ==
    ASSUME NEW n \in Nat, NEW S \in SUBSET (1 .. n), S # {}
    PROVE  \E m \in S : \A i \in S : i <= m
<1> DEFINE mirror == { d \in Nat : n - d \in S }
<1>1. mirror \in SUBSET Nat /\ mirror # {}
  <2>1. PICK i \in S : TRUE
    OBVIOUS
  <2>2. n - i \in Nat /\ n - (n - i) = i
    OBVIOUS
  <2> QED BY <2>1, <2>2
<1>2. PICK d \in mirror : \A e \in mirror : d <= e
  <2> HIDE DEF mirror
  <2> QED BY <1>1, LeastNumber
<1>3. ASSUME NEW i \in S PROVE i <= n - d
  <2>1. n - i \in Nat /\ n - (n - i) = i /\ i \in Nat
    OBVIOUS
  <2>2. d \in Nat /\ d <= n - i
    BY <1>2, <2>1
  <2> QED BY <2>1, <2>2
<1> QED BY <1>2, <1>3

\* FlattenSeq gives a sequence of the same elements.
LEMMA FlattenIsList ==
    ASSUME NEW S, NEW seqs \in Seq(Seq(S))
    PROVE  FlattenSeq(seqs) \in Seq(S)
<1> DEFINE N == Len(seqs)
           Joined(f, i) == IF i = 1 THEN seqs[i] ELSE f[i - 1] \o seqs[i]
           Joins(f, n) == f \in [ 1 .. n -> Seq(S) ] /\ \A i \in 1 .. n : f[i] = Joined(f, i)
           bad == { n \in 0 .. N : ~ \E f : Joins(f, n) }
<1>1. N \in Nat /\ \A i \in 1 .. N : seqs[i] \in Seq(S)
  OBVIOUS
<1>2. \A s, t \in Seq(S) : s \o t \in Seq(S)
  OBVIOUS
<1>3. bad = {}
  <2> SUFFICES ASSUME bad # {} PROVE FALSE
    OBVIOUS
  <2>1. bad \in SUBSET Nat
    BY <1>1
  <2>2. PICK m \in bad : \A n \in bad : m <= n
    <3> HIDE DEF bad
    <3> QED BY <2>1, LeastNumber
  <2>3. m \in 0 .. N /\ ~ \E f : Joins(f, m)
    BY <2>2
  <2>4. m # 0
    <3>1. Joins([ i \in 1 .. 0 |-> << >> ], 0)
      OBVIOUS
    <3> QED BY <2>3, <3>1
  <2>5. m - 1 \in 0 .. N /\ ~ (m <= m - 1) /\ m \in 1 .. N
    BY <1>1, <2>3, <2>4
  <2>6. m - 1 \notin bad
    <3> HIDE DEF bad
    <3> QED BY <2>2, <2>5
  <2>7. PICK f : Joins(f, m - 1)
    BY <2>5, <2>6
  <2> DEFINE g == [ i \in 1 .. m |-> IF i < m THEN f[i] ELSE Joined(f, m) ]
  <2>8. Joined(f, m) \in Seq(S)
    <3>1. CASE m = 1
      BY <1>1, <2>5, <3>1
    <3>2. CASE m # 1
      <4>1. m - 1 \in 1 .. m - 1
        BY <2>5, <3>2
      <4>2. f[m - 1] \in Seq(S) /\ seqs[m] \in Seq(S)
        BY <1>1, <2>5, <2>7, <4>1
      <4> QED BY <1>2, <3>2, <4>2
    <3> QED BY <3>1, <3>2
  <2>9. g \in [ 1 .. m -> Seq(S) ]
    <3>1. \A i \in 1 .. m : i < m => f[i] \in Seq(S)
      BY <2>5, <2>7
    <3> HIDE DEF Joined
    <3> QED BY <2>8, <3>1
  <2>10. ASSUME NEW i \in 1 .. m PROVE g[i] = Joined(g, i)
    <3>3. i < m => f[i] = Joined(f, i)
      <4>1. i < m => i \in 1 .. m - 1
        BY <2>5
      <4> HIDE DEF Joined
      <4> QED BY <2>7, <4>1
    <3>1. CASE i = 1
      <4>1. g[i] = Joined(f, i)
        <5>1. CASE m = 1
          BY <3>1, <5>1
        <5>2. CASE m # 1
          <6>1. i < m
            BY <2>5, <3>1, <5>2
          <6> QED BY <3>3, <6>1
        <5> QED BY <5>1, <5>2
      <4> QED BY <3>1, <4>1
    <3>2. CASE i # 1
      <4>1. i - 1 \in 1 .. m /\ i - 1 < m
        BY <2>5, <3>2
      <4>2. g[i - 1] = f[i - 1]
        BY <4>1
      <4>4. g[i] = Joined(f, i)
        <5>1. CASE i < m
          BY <3>3, <5>1
        <5>2. CASE ~ (i < m)
          <6>1. i = m
            BY <2>5, <5>2
          <6> QED BY <6>1
        <5> QED BY <5>1, <5>2
      <4> QED BY <3>2, <4>2, <4>4
    <3> QED BY <3>1, <3>2
  <2> HIDE DEF g
  <2> QED BY <2>3, <2>9, <2>10
<1>4. CASE N = 0
  <2>1. seqs = << >>
    BY <1>4
  <2> QED BY <1>4, <2>1 DEF FlattenSeq
<1>5. CASE N # 0
  <2> DEFINE flatten == CHOOSE f : f = [ i \in 1 .. N |-> IF i = 1 THEN seqs[i] ELSE f[i - 1] \o seqs[i] ]
  <2>1. FlattenSeq(seqs) = flatten[N]
    BY <1>5 DEF FlattenSeq
  <2>2. \E f : f = [ i \in 1 .. N |-> Joined(f, i) ]
    <3>1. N \notin bad
      BY <1>3
    <3>2. PICK f : Joins(f, N)
      BY <1>1, <3>1
    <3>3. f = [ i \in 1 .. N |-> Joined(f, i) ]
      BY <3>2
    <3> QED BY <3>3
  <2>3. flatten = [ i \in 1 .. N |-> Joined(flatten, i) ]
    BY <2>2
  <2> HIDE DEF flatten
  <2> DEFINE wrong == { i \in 1 .. N : flatten[i] \notin Seq(S) }
  <2>4. wrong = {}
    <3> SUFFICES ASSUME wrong # {} PROVE FALSE
      OBVIOUS
    <3>1. wrong \in SUBSET Nat
      BY <1>1
    <3>2. PICK m \in wrong : \A n \in wrong : m <= n
      <4> HIDE DEF wrong
      <4> QED BY <3>1, LeastNumber
    <3>3. m \in 1 .. N /\ flatten[m] \notin Seq(S)
      BY <3>2
    <3>4. flatten[m] = Joined(flatten, m)
      BY <2>3, <3>3
    <3>5. m # 1
      BY <1>1, <3>3, <3>4
    <3>6. m - 1 \in 1 .. N /\ ~ (m <= m - 1)
      BY <1>1, <3>3, <3>5
    <3>7. flatten[m - 1] \in Seq(S)
      BY <3>2, <3>6
    <3> QED BY <1>1, <1>2, <3>3, <3>4, <3>5, <3>7
  <2>5. N \in 1 .. N
    BY <1>1, <1>5
  <2> QED BY <2>1, <2>4, <2>5
<1> QED BY <1>4, <1>5

\* What is in a list is at one of its positions.
LEMMA ListRange ==
    ASSUME NEW s, IsList(s)
    PROVE  Range(s) = { s[i] : i \in 1 .. Len(s) }
<1>1. s \in Seq(Range(s))
  BY DEF IsList
<1>2. DOMAIN s = 1 .. Len(s)
  BY <1>1
<1> QED BY <1>2 DEF Range

\* A list has a length.
LEMMA ListLength ==
    ASSUME NEW s, IsList(s) PROVE Len(s) \in Nat
<1>1. s \in Seq(Range(s))
  BY DEF IsList
<1> QED BY <1>1

\* The type a name of the index stands for is the last one of that name.
LEMMA Indexed ==
    ASSUME NEW schema, NEW version, IsList(schema.types),
           NEW name, name # None
    PROVE  LET index == IndexEntityTypes(schema, version)
               named == { t \in Range(schema.types) : t.name = name }
           IN  /\ named = {} => name \notin DOMAIN index
               /\ named # {} => /\ name \in DOMAIN index
                               /\ \E t \in named : index[name] = ParseType(t, version)
<1> DEFINE n == Len(schema.types)
           At(x) == { i \in 1 .. n : schema.types[i].name = x }
           last(x) == CHOOSE i \in At(x) : \A j \in At(x) : j <= i
           names == { schema.types[i].name : i \in 1 .. n } \ {None}
           index == IndexEntityTypes(schema, version)
           named == { t \in Range(schema.types) : t.name = name }
<1>1. n \in Nat /\ Range(schema.types) = { schema.types[i] : i \in 1 .. n }
  BY ListRange, ListLength
<1>2. index = [ x \in names |-> ParseType(schema.types[last(x)], version) ]
  BY DEF IndexEntityTypes
<1> HIDE DEF index
<1>3. CASE named = {}
  <2>1. name \notin names
    BY <1>1, <1>3
  <2> QED BY <1>2, <1>3, <2>1 DEF index
<1>4. CASE named # {}
  <2>1. name \in names /\ At(name) # {}
    BY <1>1, <1>4
  <2>2. last(name) \in At(name)
    <3>1. \E m \in At(name) : \A i \in At(name) : i <= m
      BY <1>1, <2>1, GreatestNumber
    <3> HIDE DEF At
    <3> QED BY <3>1
  <2>3. schema.types[last(name)] \in named
    BY <1>1, <2>2
  <2>4. index[name] = ParseType(schema.types[last(name)], version)
    BY <1>2, <2>1
  <2>5. name \in DOMAIN index
    BY <1>2, <2>1
  <2> HIDE DEF named, last
  <2>6. \E t \in named : index[name] = ParseType(t, version)
    BY <2>3, <2>4
  <2> QED BY <1>4, <2>5, <2>6 DEF named, index
<1> QED BY <1>3, <1>4

\* What is kept of a type is its key and the names of all it has.
LEMMA TypeSays ==
    ASSUME NEW t, NEW version, IsList(t.properties), IsList(t.navigations)
    PROVE  LET parsed == ParseType(t, version)
           IN  /\ parsed.key = t.key
               /\ { p.name : p \in Range(parsed.properties) }
                     = { p.name : p \in Range(t.properties) }
               /\ { n.name : n \in Range(parsed.navigations) }
                     = { n.name : n \in Range(t.navigations) }
<1> DEFINE parsed == ParseType(t, version)
           props == [ i \in 1 .. Len(t.properties) |-> ParseProperty(t.properties[i]) ]
           navs == [ i \in 1 .. Len(t.navigations) |-> ParseNavigation(t.navigations[i], version) ]
<1>1. parsed.key = t.key /\ parsed.properties = props /\ parsed.navigations = navs
  BY DEF ParseType
<1>2. { p.name : p \in Range(props) } = { p.name : p \in Range(t.properties) }
  <2>1. \A p : ParseProperty(p).name = p.name
    BY DEF ParseProperty
  <2>2. Range(props) = { ParseProperty(t.properties[i]) : i \in 1 .. Len(t.properties) }
    BY DEF Range
  <2>3. Range(t.properties) = { t.properties[i] : i \in 1 .. Len(t.properties) }
    BY ListRange, ListLength
  <2> HIDE DEF props
  <2> QED BY <2>1, <2>2, <2>3
<1>3. { n.name : n \in Range(navs) } = { n.name : n \in Range(t.navigations) }
  <2>1. \A n : ParseNavigation(n, version).name = n.name
    BY DEF ParseNavigation
  <2>2. Range(navs) = { ParseNavigation(t.navigations[i], version) : i \in 1 .. Len(t.navigations) }
    BY DEF Range
  <2>3. Range(t.navigations) = { t.navigations[i] : i \in 1 .. Len(t.navigations) }
    BY ListRange, ListLength
  <2> HIDE DEF navs
  <2> QED BY <2>1, <2>2, <2>3
<1> HIDE DEF parsed, props, navs
<1> QED BY <1>1, <1>2, <1>3 DEF parsed

\* A document of one schema: what is parsed stands, position by position, for
\* what is declared.
LEMMA ParsedInOrder ==
    ASSUME NEW doc, Len(doc.schemas) = 1, StandsAlone(FirstSchema(doc))
    PROVE  LET declared == DeclaredSets(doc)
               parsed == ParseMetadata(doc)
           IN  /\ Len(parsed) = Len(declared)
               /\ \A i \in DOMAIN declared : Says(doc, parsed[i], declared[i])
<1> DEFINE schema == FirstSchema(doc)
           sets == FlattenSeq(schema.containers)
           index == IndexEntityTypes(schema, doc.root)
           parsed == ParseMetadata(doc)
           Declared == { es \in UNION { Range(c) : c \in Range(schema.containers) } : TRUE }
<1>1. sets \in Seq(Declared)
  <2>1. \A c \in Range(schema.containers) : c \in Seq(Declared)
    <3>1. ASSUME NEW c \in Range(schema.containers) PROVE c \in Seq(Declared)
      <4>1. c \in Seq(Range(c)) /\ Range(c) \subseteq Declared
        BY DEF StandsAlone, IsList
      <4> HIDE DEF Declared
      <4> QED BY <4>1
    <3> QED BY <3>1
  <2>2. schema.containers \in Seq(Range(schema.containers))
    BY DEF StandsAlone, IsList
  <2>3. schema.containers \in Seq(Seq(Declared))
    <3> HIDE DEF Declared, schema
    <3> QED BY <2>1, <2>2
  <2> HIDE DEF Declared, schema
  <2> QED BY <2>3, FlattenIsList
<1>2. /\ Len(sets) \in Nat /\ DOMAIN sets = 1 .. Len(sets)
      /\ \A i \in 1 .. Len(sets) : sets[i] \in Declared
  <2> HIDE DEF Declared, sets
  <2> QED BY <1>1
<1>3. DeclaredSets(doc) = sets
  BY DEF DeclaredSets, FirstSchema
<1>4. parsed = [ i \in 1 .. Len(sets) |->
                   [ name |-> sets[i].name, type |-> sets[i].type,
                     of |-> IF sets[i].type[2] \in DOMAIN index
                            THEN index[sets[i].type[2]] ELSE None ] ]
  BY DEF ParseMetadata, CollectEntitySets
<1> HIDE DEF parsed, sets, index
<1>5. Len(parsed) = Len(sets)
  BY <1>2, <1>4
<1>6. ASSUME NEW i \in 1 .. Len(sets) PROVE Says(doc, parsed[i], sets[i])
  <2> DEFINE name == sets[i].type[2]
             named == { t \in Range(schema.types) : t.name = name }
  <2>1. sets[i].type[1] = schema.namespace /\ name # None
    BY <1>2 DEF StandsAlone
  <2>2. Resolve(doc, sets[i].type) = named
    BY <2>1 DEF Resolve, FirstSchema
  <2>3. /\ parsed[i].name = sets[i].name /\ parsed[i].type = sets[i].type
        /\ parsed[i].of = IF name \in DOMAIN index THEN index[name] ELSE None
    BY <1>4
  <2>4. /\ named = {} => name \notin DOMAIN index
        /\ named # {} => /\ name \in DOMAIN index
                        /\ \E t \in named : index[name] = ParseType(t, doc.root)
    <3>1. IsList(schema.types)
      BY DEF StandsAlone
    <3> HIDE DEF schema
    <3> QED BY <2>1, <3>1, Indexed DEF index
  <2>5. CASE named = {}
    BY <2>2, <2>3, <2>4, <2>5 DEF Says
  <2>6. CASE named # {}
    <3>1. PICK t \in named : parsed[i].of = ParseType(t, doc.root)
      BY <2>3, <2>4, <2>6
    <3>2. IsList(t.properties) /\ IsList(t.navigations)
      BY DEF StandsAlone
    <3> HIDE DEF named
    <3>3. LET of == ParseType(t, doc.root)
          IN  /\ of.key = t.key
              /\ { p.name : p \in Range(of.properties) } = { p.name : p \in Range(t.properties) }
              /\ { n.name : n \in Range(of.navigations) } = { n.name : n \in Range(t.navigations) }
      BY <3>2, TypeSays
    <3> QED BY <2>2, <2>3, <2>6, <3>1, <3>3, Zenon DEF Says
  <2> QED BY <2>5, <2>6
<1> QED BY <1>2, <1>3, <1>5, <1>6 DEF parsed

\* Every entity set of a document of one schema is taken in as often as it is
\* declared, in that order and with the type it has, and nothing else is.
THEOREM ParserTakesAll == Spec => []ParsedWhole
<1>1. IInv => ParsedWhole
  <2> SUFFICES ASSUME IInv, NEW r \in Syncs, stage[r] = "persisting",
                      Len(Documents[got[r]].schemas) = 1
               PROVE  LET declared == DeclaredSets(Documents[got[r]])
                      IN  /\ Len(Parsed(got[r])) = Len(declared)
                          /\ \A i \in DOMAIN declared :
                                Says(Documents[got[r]], Parsed(got[r])[i], declared[i])
    BY DEF ParsedWhole
  <2> DEFINE doc == Documents[got[r]]
  <2>1. stage[r] \in Fetched
    BY DEF Fetched, InFlight
  <2>2. got[r] \in 1 .. Releases /\ Parses(doc)
    BY <2>1, FetchedType DEF IInv, InHand
  <2>3. StandsAlone(FirstSchema(doc)) /\ Len(doc.schemas) = 1
    BY <2>2, DocumentsStandAlone
  <2>4. Parsed(got[r]) = ParseMetadata(doc)
    BY DEF Parsed
  <2> HIDE DEF doc
  <2>5. /\ Len(ParseMetadata(doc)) = Len(DeclaredSets(doc))
        /\ \A i \in DOMAIN DeclaredSets(doc) :
              Says(doc, ParseMetadata(doc)[i], DeclaredSets(doc)[i])
    BY <2>3, ParsedInOrder
  <2> QED BY <2>4, <2>5 DEF doc
<1> QED BY SpecInv, <1>1, PTL
=============================================================================
