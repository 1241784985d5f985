----------------------------- MODULE MCLearning -----------------------------
(***************************************************************************)
(* Two instances side by side: what a reviewed plan says of the rows, over *)
(* every pair of small databases, and what the script does to database and *)
(* bucket step by step, over few.  There: a document whose object only the *)
(* target has, an asset that only the target has, one that both have.      *)
(***************************************************************************)
EXTENDS LearningApply, BundleReview

VARIABLE part  \* which of the two runs: "review", "script", or neither

mcvars == <<avars, rvars, part>>

Ids2 == {1, 2}
Some(ids, rows) == UNION {[S -> rows] : S \in SUBSET ids}

Empty == [reminder |-> <<>>, doc |-> <<>>, asset |-> <<>>, cache |-> <<>>, ref |-> <<>>]

\* Databases that differ in what is known by natural keys.
CacheTables == {c \in Some(Ids2, [key: {"a", "b"}, obj: {"k", "l"}]) : KeysAreUnique(c)}
RefTables(c) == {r \in Some(Ids2, [key: {"m", "n"}, cache: DOMAIN c]) : KeysAreUnique(r)}
CacheDatabases ==
  UNION {{[Empty EXCEPT !.cache = c, !.ref = r] : r \in RefTables(c)} : c \in CacheTables}

\* Databases that differ in reminders, documents and assets.
RowDatabases ==
  {[Empty EXCEPT !.reminder = r, !.doc = d, !.asset = a] :
     r \in Some({1}, [status: {"PENDING", "SENT"}, due: Cutoff..Cutoff + 1]),
     d \in Some({1}, {"k", "l"}), a \in Some(Ids2, {"k", "l"})}

MCDatabases == {CacheDatabases, RowDatabases}

MCBundles ==
  {[Empty EXCEPT !.doc = [i \in {"d"} |-> "k"], !.asset = [i \in {"a"} |-> "l"]]}

MCTargets ==
  {[Empty EXCEPT !.doc = [i \in {"e"} |-> "m"], !.asset = [i \in {"a"} |-> "l"]],
   [Empty EXCEPT !.doc = [i \in {"e"} |-> "m"], !.asset = [i \in {"b"} |-> "m"]]}

\* The other part's variables stay as they are.
NoScript ==
  /\ bundle = Empty /\ db = Empty /\ bucket = <<>> /\ writers = TRUE
  /\ backups = <<>> /\ runs = 0 /\ run = NoRun

NoReview ==
  /\ payload = Empty /\ manifest = Empty /\ approved = Empty /\ target = Empty
  /\ before = Empty /\ kept = {} /\ outcome = "planned"

MCInit ==
  \/ part = "review" /\ NoScript /\ ReviewInit
  \/ part = "script" /\ AInit /\ NoReview

MCNext ==
  \/ part = "review" /\ ReviewNext /\ UNCHANGED <<avars, part>>
  \/ part = "script" /\ ANext /\ UNCHANGED <<rvars, part>>

MCSpec == MCInit /\ [][MCNext]_mcvars

\* Success means what it says, of the reviewed plan (AppliedAsReviewed) and of the
\* script's run (CompleteIsWhole).
SuccessIsTrue == AppliedAsReviewed /\ CompleteIsWhole

\* What a run does can be taken back after any end (CanBeUndone), and what the
\* script's own restore or the rollback says it has put back is there (UndoneIsBack).
ChangesAreUndone == CanBeUndone /\ UndoneIsBack
=============================================================================
