---------------------------- MODULE BundleReview ----------------------------
(***************************************************************************)
(* One bundle and one target, over every pair of small databases: plan the *)
(* bundle, apply it, and look at what the plan had said.                   *)
(***************************************************************************)
EXTENDS BundlePlan

CONSTANT Databases  \* databases that may be the source, or the target, of another

ASSUME DatabasesAssumption ==
  \A dbs \in Databases : \A db \in dbs : IsDatabase(db) /\ Contract(db)

VARIABLES payload,  \* the extracted source
          manifest, \* the manifest that came with it
          approved, \* the bundle whose plan the operator has read
          target,   \* the target database
          before,   \* the target when the plan was made
          kept,     \* keys that exist in the target's bucket
          outcome   \* "planned", "applied" or "refused"

rvars == <<payload, manifest, approved, target, before, kept, outcome>>

ReviewInit ==
  /\ \E dbs \in Databases :
       target \in dbs /\ \E db \in dbs : payload = Extract(db)
  /\ manifest = BuildManifest(payload) /\ approved = payload
  /\ before = target
  /\ kept = DOMAIN BuildObjects(target)
  /\ outcome = "planned"

\* After the review the files are exported anew, from a source that has lost the
\* rows of a table, or they are cut short on their way.
Reexport(t) ==
  /\ outcome = "planned" /\ payload = approved
  /\ payload' = [payload EXCEPT ![t] = <<>>]
  /\ manifest' \in {manifest, BuildManifest(payload')}
  /\ UNCHANGED <<approved, target, before, kept, outcome>>

Applies ==
  Confirmed(payload, manifest, BuildManifest(approved)) /\ SqlApplies(payload, target)

ApplyReviewed ==
  /\ outcome = "planned" /\ Applies
  /\ target' = ApplySql(payload, target)
  /\ kept' = (kept \cup DOMAIN BuildObjects(payload))
               \ DeletedObjects(payload, Extract(target))
  /\ outcome' = "applied"
  /\ UNCHANGED <<payload, manifest, approved, before>>

RefuseReviewed ==
  /\ outcome = "planned" /\ ~Applies
  /\ outcome' = "refused"
  /\ UNCHANGED <<payload, manifest, approved, target, before, kept>>

ReviewNext == ApplyReviewed \/ RefuseReviewed \/ \E t \in Tables : Reexport(t)
ReviewSpec == ReviewInit /\ [][ReviewNext]_rvars

----------------------------------------------------------------------------
(* Properties *)

\* UUIDs are generated once and for all: two databases that hold the same one
\* hold it for the same natural key.
UuidsAgree ==
  \A t \in {"cache", "ref"} : \A i \in DOMAIN payload[t] \cap DOMAIN before[t] :
    payload[t][i].key = before[t][i].key

\* What apply.sql writes is what compare-target looks for, though one remaps
\* UUIDs in SQL and the other compares natural keys in Python.
CompareAcceptsApply ==
  outcome = "applied" => CompareTarget(payload, Extract(target))

\* The reviewed plan is what happens, whatever becomes of the bundle's files before
\* the apply: a row of the target goes or changes exactly where the plan says so,
\* and nothing new appears but what it inserts.
PlanIsExact ==
  outcome = "applied" /\ UuidsAgree => \A t \in Tables :
    LET p == PlanTable(approved, Extract(before), t)
        old == LogicalRows(Extract(before), t)
        new == LogicalRows(target, t)
    IN /\ DOMAIN old \ DOMAIN new = p.delete
       /\ Changed(old, IF t = "reminder" THEN NormalizeReminders(new) ELSE new) = p.update
       /\ DOMAIN LogicalRows(Extract(target), t) \ DOMAIN old = p.insert

\* No object that a row of the target's scope refers to, a document, an asset or a
\* cache, is deleted with those that only its replaced rows referred to.
NoDanglingObject == outcome = "applied" => DOMAIN BuildObjects(target) \subseteq kept

\* A reminder that was due when the export was made is never left to be sent by
\* the target once its writers run again.
NothingIsSentLate ==
  outcome = "applied" => \A i \in DOMAIN target.reminder :
    target.reminder[i].status = "PENDING" => target.reminder[i].due > Cutoff

\* What an apply leaves is sound: the three above.
AppliedAsReviewed == CompareAcceptsApply /\ NoDanglingObject /\ NothingIsSentLate
============================================================================
