---------------------------- MODULE ControlPlane ----------------------------
(***************************************************************************)
(* State shared by the parts of the host-maintenance control plane: the    *)
(* coordinator journal of AX41, the admission fence of each host, the      *)
(* worker process of each host, and the request handlers in flight.        *)
(***************************************************************************)
EXTENDS Naturals

CONSTANTS Leases,     \* 128-bit lease tokens a worker may draw
          NoLease,    \* absence of a lease in a journal
          Slots,      \* concurrent handlers of the AX41 agent (16 in the code)
          NoSlot,     \* a peer handler whose caller has given up
          PeerSlots,  \* concurrent fence handlers of the Selectel agent
          MaxSteps,   \* bound: a worker starts a proof only below this many grants
          MaxFaults   \* bound: lost or late messages, busy locks, crashes

ASSUME LeaseAssumption == NoLease \notin Leases
ASSUME SlotAssumption == NoSlot \notin Slots
ASSUME BoundAssumption == MaxSteps \in Nat /\ MaxFaults \in Nat

VARIABLES coord,    \* coordinator.json
          fence,    \* fence.json, admission marker and nft table of each host
          worker,   \* worker.json and the executing process of each host
          call,     \* handlers running in the AX41 agent
          peer,     \* fence handlers running in the Selectel agent
          used,     \* lease tokens drawn so far
          granted,  \* number of step tokens issued
          faults    \* faults that have happened

vars == <<coord, fence, worker, call, peer, used, granted, faults>>

Hosts == {"ax41", "selectel"}

----------------------------------------------------------------------------
(* Types *)

LeasePhase == {"idle", "reserved", "fencing", "fenced", "committing",
               "step_running", "verifying", "verified", "releasing",
               "failed_unsafe"}

Journal == [phase: LeasePhase, owner: Hosts \cup {"none"},
            lease: Leases \cup {NoLease}, step: Nat,
            destructive: BOOLEAN, releaseVerified: BOOLEAN,
            released: Leases \cup {NoLease},
            doneStep: Nat, doneOk: BOOLEAN]

Fence == [lease: Leases \cup {NoLease}, committed: BOOLEAN, up: BOOLEAN]

WorkerPhase == {"idle", "deferred", "reserved", "fenced", "installing",
                "overrun", "preparing_restart", "restarting", "verifying",
                "verified", "failed_unsafe", "recovery_required"}

WorkerPc == {"off", "claim", "arm", "work", "step", "preflight", "native",
             "complete", "completeRaise", "verify1", "release1",
             "verify2", "release2", "abort"}

\* "unsent" and "waiting" are a request under way; the others are the classes
\* of answer that the worker tells apart.
Reply == {"none", "unsent", "waiting", "ok", "retry", "busy", "denied"}

Process == [pc: WorkerPc, phase: WorkerPhase, lease: Leases \cup {NoLease},
            step: Nat, reply: Reply, destructive: BOOLEAN]

CallPc == {"free", "claim", "arm", "armClose", "armPeer", "armWait",
           "step", "stepCommit", "stepHold", "stepPeer", "stepWait",
           "stepRollback", "stepGrant", "preflight", "complete", "verify",
           "release", "releaseRead", "releaseOpen", "releasePeer",
           "releaseWait", "releaseFinal", "releaseDone"}

Call == [pc: CallPc, actor: Hosts, lease: Leases \cup {NoLease}, step: Nat,
         ok: BOOLEAN, live: BOOLEAN, code: Reply]

Peer == [pc: {"free", "assert", "act"}, op: {"close", "hold", "open"},
         lease: Leases \cup {NoLease}, caller: Slots \cup {NoSlot}]

TypeOK ==
  /\ coord \in Journal
  /\ fence \in [Hosts -> Fence]
  /\ worker \in [Hosts -> Process]
  /\ call \in [Slots -> Call]
  /\ peer \in [PeerSlots -> Peer]
  /\ used \subseteq Leases
  /\ granted \in Nat
  /\ faults \in Nat

----------------------------------------------------------------------------
(* Initial state: both hosts provisioned, nothing claimed, admission open *)

Released == [phase |-> "idle", owner |-> "none", lease |-> NoLease, step |-> 0,
             destructive |-> FALSE, releaseVerified |-> FALSE,
             released |-> NoLease, doneStep |-> 0, doneOk |-> FALSE]

Open == [lease |-> NoLease, committed |-> FALSE, up |-> FALSE]

Off == [pc |-> "off", phase |-> "idle", lease |-> NoLease, step |-> 0,
        reply |-> "none", destructive |-> FALSE]

FreeCall == [pc |-> "free", actor |-> "ax41", lease |-> NoLease, step |-> 0,
             ok |-> FALSE, live |-> FALSE, code |-> "none"]

FreePeer == [pc |-> "free", op |-> "close", lease |-> NoLease,
             caller |-> NoSlot]

Init ==
  /\ coord = Released
  /\ fence = [h \in Hosts |-> Open]
  /\ worker = [h \in Hosts |-> Off]
  /\ call = [s \in Slots |-> FreeCall]
  /\ peer = [p \in PeerSlots |-> FreePeer]
  /\ used = {}
  /\ granted = 0
  /\ faults = 0

----------------------------------------------------------------------------
(* Helpers *)

\* UNSAFE_PHASES: local native work that may still be changing the host.
UnsafePhases == {"installing", "restarting", "overrun", "failed_unsafe"}

\* One of the bounded faults happens in this step.
Fault == faults < MaxFaults /\ faults' = faults + 1

\* assert_owner of the calling worker and its lease.
Owns(s) ==
  /\ coord.owner = call[s].actor
  /\ coord.lease = call[s].lease
  /\ coord.phase # "idle"

\* The handler ends; its answer reaches the worker that still waits for it.
Finish(s, code) ==
  /\ call' = [call EXCEPT ![s] = FreeCall]
  /\ worker' = IF call[s].live
               THEN [worker EXCEPT ![call[s].actor].reply = code]
               ELSE worker

Goto(s, pc) == call' = [call EXCEPT ![s].pc = pc]

\* Mutant: the lease of an existing record is not compared.
FenceFreeForAny(h, l) == TRUE

\* AdmissionFence: a record of another lease is never overwritten or removed.
FenceFreeFor(h, l) == fence[h].lease \in {NoLease, l}

\* The record is durable before the marker, the nft table and the probes: a
\* failure of one of those leaves a recorded fence that may not be up.
CloseFence(h, l, up) ==
  fence' = [fence EXCEPT ![h] = [lease |-> l, committed |-> @.committed,
                                 up |-> up]]

\* Mutant: hold() commits whatever barrier it finds closed.
HoldableByAny(h, l) == fence[h].up

Holdable(h, l) == fence[h].up /\ fence[h].lease = l

HoldFence(h) == fence' = [fence EXCEPT ![h].committed = TRUE]

OpenFence(h) == fence' = [fence EXCEPT ![h] = Open]

\* The nft table and the marker go before the record, so an opening that fails
\* midway leaves the record.
OpenFencePartly(h) == fence' = [fence EXCEPT ![h].up = FALSE]

BothUp == \A h \in Hosts : fence[h].up
============================================================================
