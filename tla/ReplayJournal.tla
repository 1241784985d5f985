---------------------------- MODULE ReplayJournal ----------------------------
(***************************************************************************)
(* wire.py, Authenticator.verify, and the journal auth.json of an agent:   *)
(* a signed request is accepted within Window of its stamp, and the        *)
(* journal remembers its nonce for Keep.  The network may deliver a        *)
(* request late, again, and after a restart of the agent, which keeps      *)
(* nothing but the journal; so a restart is not a step of its own.         *)
(***************************************************************************)
EXTENDS Integers, FiniteSets

CONSTANTS Requests,   \* signed requests: each has a nonce of its own
          Window,     \* seconds between the stamp and the agent's clock
          Keep,       \* seconds that a nonce is remembered
          Capacity,   \* nonces that the journal holds at most
          MaxSkew,    \* bound: how far the clocks of clients are off
          MaxTime     \* bound: the agent's clock

ASSUME WindowAssumption == Window \in Nat /\ Keep \in Nat /\ 2 * Window <= Keep
ASSUME BoundsAssumption == Capacity \in Nat \ {0} /\ MaxSkew \in Nat /\ MaxTime \in Nat

VARIABLES now,    \* the clock of the agent, in whole seconds
          sent,   \* requests that are on their way or were delivered
          stamp,  \* X-Honey-Time of each
          seen,   \* auth.json: nonces with the second of their acceptance
          begun   \* requests whose handler was let run

journalVars == <<now, sent, stamp, seen, begun>>

JournalInit == now = 0 /\ sent = {} /\ stamp = [r \in Requests |-> 0] /\ seen = {} /\ begun = {}

Second == now < MaxTime /\ now' = now + 1 /\ UNCHANGED <<sent, stamp, seen, begun>>

\* Stamped with the clock of the client, under a fresh nonce.
Request(r) ==
  /\ r \in Requests \ sent
  /\ sent' = sent \cup {r}
  /\ \E d \in -MaxSkew..MaxSkew : now + d >= 0 /\ stamp' = [stamp EXCEPT ![r] = now + d]
  /\ UNCHANGED <<now, seen, begun>>

\* Mutant: a nonce goes in the second in which it becomes Keep old.
FreshBelow(s) == s.at > now - Keep

Fresh(s) == s.at >= now - Keep

Kept == {s \in seen : Fresh(s)}

InWindow(r) == now - stamp[r] <= Window /\ stamp[r] - now <= Window

Busy == Cardinality(Kept) >= Capacity

\* A delivery that passes every check, the first one or a later one.  The nonce
\* is written and synced before the handler runs, so one that the agent dies
\* over counts as begun.  A delivery that is refused writes nothing: the
\* exception leaves `locked' before the cleaned journal is written.
Accept(r) ==
  /\ r \in sent /\ InWindow(r)
  /\ r \notin {s.request : s \in Kept}
  /\ ~Busy
  /\ seen' = Kept \cup {[request |-> r, at |-> now]}
  /\ begun' = begun \cup {r}
  /\ UNCHANGED <<now, sent, stamp>>

JournalNext == Second \/ \E r \in Requests : Request(r) \/ Accept(r)
JournalSpec == JournalInit /\ [][JournalNext]_journalVars

----------------------------------------------------------------------------
(* Properties *)

\* However late and often the network delivers a request, and however often the
\* agent restarts in between, no second delivery is let through: the two sides
\* of the window and the retention of the journal fit together to the second.
StartedOnce == [][\A r \in begun : ~Accept(r)]_journalVars
=============================================================================
