--------------------------- MODULE AdmissionFence ---------------------------
(***************************************************************************)
(* The admission fence of one host, one durable effect at a time: the      *)
(* record fence.json, the marker file that nginx answers 503 to, and the   *)
(* nft table that drops TURN control.  Operations exclude one another by   *)
(* the fence lock, and may fail, die with the agent or with the host       *)
(* between any two effects.                                                *)
(***************************************************************************)
CONSTANTS Leases, NoLease

ASSUME LeaseAssumption == NoLease \notin Leases

VARIABLES record,   \* fence.json
          marker,   \* /var/lib/honey-school-maintenance-admission/closed
          table,    \* the owned nft table is installed
          serving,  \* nginx, TURN and virtualization have been started
          op        \* the operation under the fence lock

fenceVars == <<record, marker, table, serving, op>>

----------------------------------------------------------------------------
NoRecord == [lease |-> NoLease, committed |-> FALSE, aged |-> FALSE]

Record == [lease: Leases, committed: BOOLEAN, aged: BOOLEAN] \cup {NoRecord}

\* The next effect of an operation; "open" and "expire" share their effects.
Operation == [pc: {"free", "mark", "install", "lower", "unmark", "erase",
                   "remark", "reinstall"},
              kind: {"close", "open", "expire", "restore"},
              lease: Leases \cup {NoLease}]

NoOp == [pc |-> "free", kind |-> "close", lease |-> NoLease]

TypeOK ==
  /\ record \in Record
  /\ marker \in BOOLEAN /\ table \in BOOLEAN /\ serving \in BOOLEAN
  /\ op \in Operation

FenceInit ==
  /\ record = NoRecord
  /\ marker = FALSE /\ table = FALSE
  /\ serving = TRUE
  /\ op = NoOp

Recorded == record # NoRecord

At(pc) == op.pc = pc

Go(pc) == op' = [op EXCEPT !.pc = pc]

BeginOp(kind, l, pc) ==
  /\ At("free")
  /\ op' = [pc |-> pc, kind |-> kind, lease |-> l]

----------------------------------------------------------------------------
(* close: the record, then the marker, then the table; a repeated close of *)
(* the same lease keeps the age and the commitment of the record           *)

\* Mutant: a repeated close writes a fresh, uncommitted record.
CloseAnew(l) ==
  /\ record.lease \in {NoLease, l}
  /\ record' = [lease |-> l, committed |-> FALSE, aged |-> FALSE]
  /\ BeginOp("close", l, "mark")
  /\ UNCHANGED <<marker, table, serving>>

Close(l) ==
  /\ record.lease \in {NoLease, l}
  /\ record' = [record EXCEPT !.lease = l]
  /\ BeginOp("close", l, "mark")
  /\ UNCHANGED <<marker, table, serving>>

Mark ==
  /\ At("mark")
  /\ marker' = TRUE
  /\ Go("install")
  /\ UNCHANGED <<record, table, serving>>

\* install_nft replaces the table in one transaction; the probes follow.
Install ==
  /\ At("install")
  /\ table' = TRUE
  /\ op' = NoOp
  /\ UNCHANGED <<record, marker, serving>>

----------------------------------------------------------------------------
(* hold: everything is closed and belongs to the lease *)

\* closed()
Closed == marker /\ Recorded /\ table /\ serving

Hold(l) ==
  /\ At("free")
  /\ Closed
  /\ record.lease = l
  /\ record' = [record EXCEPT !.committed = TRUE]
  /\ UNCHANGED <<marker, table, serving, op>>

----------------------------------------------------------------------------
(* open and expire: the table, then the marker, then the record *)

Open(l) ==
  /\ Recorded /\ record.lease = l
  /\ BeginOp("open", l, "lower")
  /\ UNCHANGED <<record, marker, table, serving>>

\* Sixty seconds have passed since the record was first written.
Age ==
  /\ Recorded /\ ~record.aged
  /\ record' = [record EXCEPT !.aged = TRUE]
  /\ UNCHANGED <<marker, table, serving, op>>

\* Mutant: a barrier that never came up completely is not expired.
ExpireClosed ==
  /\ Closed /\ ~record.committed /\ record.aged
  /\ BeginOp("expire", record.lease, "lower")
  /\ UNCHANGED <<record, marker, table, serving>>

Expire ==
  /\ Recorded /\ ~record.committed /\ record.aged
  /\ BeginOp("expire", record.lease, "lower")
  /\ UNCHANGED <<record, marker, table, serving>>

\* Mutant: an opening erases its record along with the table.
LowerAndErase ==
  /\ At("lower")
  /\ table' = FALSE /\ record' = NoRecord
  /\ Go("unmark")
  /\ UNCHANGED <<marker, serving>>

Lower ==
  /\ At("lower")
  /\ table' = FALSE
  /\ Go("unmark")
  /\ UNCHANGED <<record, marker, serving>>

Unmark ==
  /\ At("unmark")
  /\ marker' = FALSE
  /\ Go("erase")
  /\ UNCHANGED <<record, table, serving>>

Erase ==
  /\ At("erase")
  /\ record' = NoRecord
  /\ op' = NoOp
  /\ UNCHANGED <<marker, table, serving>>

----------------------------------------------------------------------------
(* restore: before the host serves again, whatever is recorded is put up *)

\* Nothing recorded and nothing left over: the services may start.
RestoreNothing ==
  /\ At("free") /\ ~serving
  /\ ~Recorded /\ ~marker /\ ~table
  /\ serving' = TRUE
  /\ UNCHANGED <<record, marker, table, op>>

Restore ==
  /\ ~serving /\ Recorded
  /\ BeginOp("restore", record.lease, "remark")
  /\ UNCHANGED <<record, marker, table, serving>>

Remark ==
  /\ At("remark")
  /\ marker' = TRUE
  /\ Go("reinstall")
  /\ UNCHANGED <<record, table, serving>>

\* Mutant: the services start with the marker alone.
ReinstallNothing ==
  /\ At("reinstall")
  /\ serving' = TRUE
  /\ op' = NoOp
  /\ UNCHANGED <<record, marker, table>>

\* The services depend on the success of restore.
Reinstall ==
  /\ At("reinstall")
  /\ table' = TRUE
  /\ serving' = TRUE
  /\ op' = NoOp
  /\ UNCHANGED <<record, marker>>

----------------------------------------------------------------------------
(* Failures: a command fails, the agent dies, the host goes down *)

Fail ==
  /\ ~At("free")
  /\ op' = NoOp
  /\ UNCHANGED <<record, marker, table, serving>>

Reboot ==
  /\ op' = NoOp
  /\ table' = FALSE
  /\ serving' = FALSE
  /\ UNCHANGED <<record, marker>>

----------------------------------------------------------------------------
FenceNext ==
  \/ \E l \in Leases : Close(l) \/ Hold(l) \/ Open(l)
  \/ Mark \/ Install
  \/ Age \/ Expire \/ Lower \/ Unmark \/ Erase
  \/ RestoreNothing \/ Restore \/ Remark \/ Reinstall
  \/ Fail \/ Reboot

FenceSpec == FenceInit /\ [][FenceNext]_fenceVars

\* An operation goes on, the collector calls expire every three seconds, and a
\* command that is tried again and again succeeds at some time.
Fairness ==
  /\ WF_fenceVars(Mark \/ Install \/ Remark \/ Reinstall) /\ WF_fenceVars(Age)
  /\ SF_fenceVars(Expire) /\ SF_fenceVars(Lower) /\ SF_fenceVars(Unmark) /\ SF_fenceVars(Erase)

FairSpec == FenceSpec /\ Fairness

----------------------------------------------------------------------------
(* Properties *)

\* New sessions are refused: nothing serves them, or both barriers stand.
Shut == ~serving \/ (marker /\ table)

\* A barrier never stands without its record, the table never without the
\* marker: closed() may read the three one after the other, and a crash leaves
\* nothing that open() and restore() would refuse as an orphan.
NoOrphan == (table => marker) /\ (marker => Recorded)

\* A held barrier goes down only in an opening asked for by its own lease: not
\* by age, a repeated close, a crash or a reboot.
HeldStaysShut ==
  [][record.committed /\ Shut /\ ~(record'.committed /\ Shut')
       => op.kind = "open" /\ op.lease = record.lease]_fenceVars

Atomic == INSTANCE AtomicFence WITH
  lease <- record.lease, committed <- record.committed, up <- Recorded /\ Shut

\* The fence implements the one that the control plane relies on.
ImplementsAtomicFence == Atomic!Spec

\* A barrier that nobody holds disappears, however its operations were cut off.
BarrierExpires ==
  Recorded /\ ~record.committed ~> ~Recorded \/ record.committed
=============================================================================
