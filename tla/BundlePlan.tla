----------------------------- MODULE BundlePlan -----------------------------
(***************************************************************************)
(* bundle_tool.py: what the learning bundle holds, what its plan says of   *)
(* the target, when the target agrees with it, and the SQL it is for.      *)
(* Five tables stand for the 29: reminders and documents are exact, assets *)
(* and YouTube caches keep what only the target has, cache references too; *)
(* caches and references are told apart by natural keys, not by UUID.  All *)
(* rows are the teacher's: what others have in a target is left out.       *)
(***************************************************************************)
EXTENDS Naturals, FiniteSets, Functions

CONSTANTS Cutoff  \* the time the export stands for

ASSUME CutoffAssumption == Cutoff \in Nat

\* A database: rows by UUID.
\*   reminder: [status, due]   doc: its object key   asset: its object key
\*   cache: [key, obj], the object that holds it   ref: [key, cache]
Tables == {"reminder", "doc", "asset", "cache", "ref"}

\* PRESERVED_TARGET_SUPERSET_TABLES and PRESERVED_OBJECT_KINDS.
Supersets == {"asset", "cache", "ref"}
PreservedKinds == {"MATERIAL_ASSET", "YOUTUBE_CACHE"}

----------------------------------------------------------------------------
(* Extraction: the rows of the scope, with the reminders normalized *)

Skipped(row) ==
  IF row.status \in {"PENDING", "FAILED"} /\ row.due <= Cutoff
  THEN [row EXCEPT !.status = "SKIPPED"] ELSE row

NormalizeReminders(rows) == [id \in DOMAIN rows |-> Skipped(rows[id])]

\* Only caches that a selected material refers to are in scope.
Referenced(db) == {db.ref[r].cache : r \in DOMAIN db.ref}

Extract(db) ==
  [db EXCEPT !.reminder = NormalizeReminders(@),
             !.cache = Restrict(@, Referenced(db))]

\* The keys of the objects that the caches in scope are in.
CacheObjects(db) == {db.cache[c].obj : c \in Referenced(db)}

\* Object keys with the kinds of rows that refer to them.
BuildObjects(db) ==
  LET docs == Range(db.doc) assets == Range(db.asset) caches == CacheObjects(db)
  IN [k \in docs \cup assets \cup caches |->
        {"COLLABORATION_SNAPSHOT" : x \in docs \cap {k}}
          \cup {"MATERIAL_ASSET" : x \in assets \cap {k}}
          \cup {"YOUTUBE_CACHE" : x \in caches \cap {k}}]

----------------------------------------------------------------------------
(* Logical rows *)

\* read_csv and the natural-key functions refuse a key that is used twice.
KeysAreUnique(rows) == \A i, j \in DOMAIN rows : rows[i].key = rows[j].key => i = j

Contract(db) ==
  /\ KeysAreUnique(db.cache) /\ KeysAreUnique(db.ref)
  /\ Referenced(db) \subseteq DOMAIN db.cache

Keys(rows) == {rows[i].key : i \in DOMAIN rows}
RowOf(rows, k) == CHOOSE i \in DOMAIN rows : rows[i].key = k

\* What the schema of either side says: columns, and references to caches that are
\* there.
IsDatabase(db) ==
  /\ db \in [reminder : {db.reminder}, doc : {db.doc}, asset : {db.asset},
             cache : {db.cache}, ref : {db.ref}]
  /\ \A i \in DOMAIN db.reminder :
       db.reminder[i] \in [status : {db.reminder[i].status}, due : Nat]
  /\ db.ref \in [DOMAIN db.ref -> [key : Keys(db.ref), cache : DOMAIN db.cache]]

\* What has been extracted from a source, and validated.
IsBundle(db) ==
  /\ IsDatabase(db) /\ Contract(db) /\ Referenced(db) = DOMAIN db.cache
  /\ NormalizeReminders(db.reminder) = db.reminder

\* Mutant: a reference is compared with the UUID of its cache.
UuidRefs(db) == [k \in Keys(db.ref) |-> db.ref[RowOf(db.ref, k)].cache]

LogicalCaches(db) == [k \in Keys(db.cache) |-> db.cache[RowOf(db.cache, k)].obj]

\* Each environment has its own UUIDs, so a reference is known by its cache's key.
LogicalRefs(db) ==
  [k \in Keys(db.ref) |-> db.cache[db.ref[RowOf(db.ref, k)].cache].key]

LogicalRows(db, t) ==
  CASE t = "cache" -> LogicalCaches(db)
    [] t = "ref" -> LogicalRefs(db)
    [] OTHER -> db[t]

----------------------------------------------------------------------------
(* The plan, the comparison, and the checks before them *)

Changed(old, new) == {i \in DOMAIN old \cap DOMAIN new : old[i] # new[i]}

\* Mutant: the plan has every table's target-only rows deleted.
PreservedNowhere(t) == FALSE

Preserved(t) == t \in Supersets

PlanTable(source, target, t) ==
  LET s == LogicalRows(source, t) g == LogicalRows(target, t)
      only == DOMAIN g \ DOMAIN s
  IN [insert |-> DOMAIN s \ DOMAIN g,
      update |-> Changed(g, s),
      delete |-> IF Preserved(t) THEN {} ELSE only,
      preserved |-> IF Preserved(t) THEN only ELSE {}]

KindKept(kinds) == kinds \cap PreservedKinds # {}

\* The objects that a plan counts and that an apply removes.
DeletedObjects(source, target) ==
  LET old == BuildObjects(target)
  IN {k \in DOMAIN old \ DOMAIN BuildObjects(source) : ~KindKept(old[k])}

CompareTarget(source, target) ==
  /\ Contract(source) /\ Contract(target)
  /\ \A t \in Tables :
    LET s == LogicalRows(source, t) g == LogicalRows(target, t)
    IN /\ \A i \in DOMAIN s : i \in DOMAIN g /\ g[i] = s[i]
       /\ t \in Supersets \/ DOMAIN g = DOMAIN s

\* The manifest has the digest of every table and object; a digest stands for
\* what it is taken of.
BuildManifest(db) == [t \in Tables |-> db[t]]

\* validate_manifest, and the hash the operator gives after reading the plan.
Confirmed(db, manifest, confirmed) ==
  /\ \A t \in Tables : manifest[t] = db[t]
  /\ manifest = confirmed

----------------------------------------------------------------------------
(* apply.sql: one serializable transaction *)

\* The UUID under which the target has the row's natural key already.
TargetId(rows, old, i) ==
  IF rows[i].key \in Keys(old) THEN RowOf(old, rows[i].key) ELSE i

Ids(rows, old) == [i \in DOMAIN rows |-> TargetId(rows, old, i)]

\* A remapped row must not take the UUID of another incoming row.
Collides(rows, old) ==
  \E i, j \in DOMAIN rows : Ids(rows, old)[i] # i /\ Ids(rows, old)[i] = j

\* Upsert by UUID after the remapping.
Upserted(rows, old) ==
  LET ids == Ids(rows, old)
  IN [i \in DOMAIN old \cup Range(ids) |->
        IF i \in Range(ids) THEN rows[CHOOSE j \in DOMAIN rows : ids[j] = i] ELSE old[i]]

Upsert(rows, old) == [i \in DOMAIN rows \cup DOMAIN old |->
                        IF i \in DOMAIN rows THEN rows[i] ELSE old[i]]

\* References point at the UUID their cache has in the target.
Remapped(source, db) ==
  LET ids == Ids(source.cache, db.cache)
  IN [r \in DOMAIN source.ref |-> [source.ref[r] EXCEPT !.cache = ids[@]]]

SqlApplies(source, db) ==
  /\ ~Collides(source.cache, db.cache) /\ ~Collides(source.ref, db.ref)
  /\ KeysAreUnique(Upserted(source.cache, db.cache))
  /\ KeysAreUnique(Upserted(Remapped(source, db), db.ref))
  /\ LET out == DOMAIN Upserted(source.cache, db.cache)
     IN \A r \in DOMAIN source.ref : Remapped(source, db)[r].cache \in out

ApplySql(source, db) ==
  [reminder |-> NormalizeReminders(source.reminder),
   doc |-> source.doc,
   asset |-> Upsert(source.asset, db.asset),
   cache |-> Upserted(source.cache, db.cache),
   ref |-> Upserted(Remapped(source, db), db.ref)]
============================================================================
