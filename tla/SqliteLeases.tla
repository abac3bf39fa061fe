---------------------------- MODULE SqliteLeases ----------------------------
(***************************************************************************)
(* SqliteLeaseStore (fleet/lease.py) used by several processes.  The       *)
(* caller reads its clock BEFORE the store's transaction gets the write    *)
(* lock (busy_timeout 30 s), so an operation runs with a reading up to Lag *)
(* old.  Every lease ever returned stays usable: a paused, crashed or      *)
(* partitioned owner may come back with it at any later time.              *)
(***************************************************************************)
EXTENDS LeaseStore

CONSTANTS Key, Owner, State,
          Ttl,                 \* lease_ttl
          Lag,                 \* how old a clock reading may be when it is used
          MaxTime, MaxToken    \* bounds of the model

ASSUME LeaseAssumption ==
  /\ Ttl \in Nat \ {0} /\ Lag \in Nat
  /\ MaxTime \in Nat /\ MaxToken \in Nat
  /\ NoOwner \notin Owner /\ NoOutcome \notin State

VARIABLES row,      \* [Key -> row of the leases table]
          clock,    \* the host's monotonic clock
          issued,   \* every lease a client was ever given
          writer    \* history: [Key -> token the stored outcome was written with]

vars == <<row, clock, issued, writer>>

Reading == {t \in (clock - Lag)..clock : t >= 0}
LeaseOf == [key : Key, owner : Owner, token : Nat \ {0}]

Init ==
  /\ row = [k \in Key |-> NoRow]
  /\ clock = 0
  /\ issued = {}
  /\ writer = [k \in Key |-> 0]

Acquire(k, o) ==
  /\ \E t \in Reading :
       /\ ~SqlBlocked(row[k], o, t)
       /\ SqlGrant(row[k], o, t) <= MaxToken
       /\ row' = [row EXCEPT ![k] = SqlAcquire(@, o, t, Ttl)]
       /\ issued' = issued \union {Lease(k, o, SqlGrant(row[k], o, t))}
  /\ UNCHANGED <<clock, writer>>

Renew(l) ==
  /\ SqlCanRenew(row[l.key], l)
  /\ \E t \in Reading :
       /\ row' = [row EXCEPT ![l.key] = SqlRenew(@, t, Ttl)]
  /\ UNCHANGED <<clock, issued, writer>>

Release(l) ==
  /\ SqlCanRelease(row[l.key], l)
  /\ row' = [row EXCEPT ![l.key] = SqlRelease(@)]
  /\ UNCHANGED <<clock, issued, writer>>

Complete(l, s) ==
  /\ SqlCanComplete(row[l.key], l)
  /\ row' = [row EXCEPT ![l.key] = SqlComplete(@, s)]
  /\ writer' = [writer EXCEPT ![l.key] = l.token]
  /\ UNCHANGED <<clock, issued>>

Tick ==
  /\ clock < MaxTime
  /\ clock' = clock + 1
  /\ UNCHANGED <<row, issued, writer>>

Next ==
  \/ \E k \in Key, o \in Owner : Acquire(k, o)
  \/ \E l \in issued : Renew(l) \/ Release(l) \/ \E s \in State : Complete(l, s)
  \/ Tick

Spec == Init /\ [][Next]_vars
-----------------------------------------------------------------------------
TypeOK ==
  /\ row \in [Key -> [owner : Owner \union {NoOwner}, token : Nat, expires_at : Nat,
                      max_token : Nat, outcome : State \union {NoOutcome}]]
  /\ clock \in Nat
  /\ issued \subseteq LeaseOf
  /\ writer \in [Key -> Nat]

\* A token of a key names one owner for ever: no two processes can both pass
\* a check of the token, however the acquisitions, renewals, releases and
\* clock readings interleave.
UniqueTokens ==
  \A a, b \in issued : a.key = b.key /\ a.token = b.token => a.owner = b.owner

\* The newest token of a key was handed out, to the owner the row names, so
\* complete's test of the token and its test of the owner never disagree
\* about a lease that was issued.
CurrentIsIssued ==
  \A k \in Key : row[k].max_token > 0 =>
    /\ row[k].token = row[k].max_token
    /\ Lease(k, row[k].owner, row[k].max_token) \in issued

\* A stored outcome never comes from an older owner than the one it replaces:
\* a paused owner that wakes up after a takeover cannot overwrite its
\* successor's result ("a stale owner's write is rejected").
NoStaleOverwrite ==
  [][\A k \in Key : writer'[k] # writer[k] => writer'[k] > writer[k]]_vars

\* The store implements the fenced register: tokens are the epochs.
Register == INSTANCE FencedRegister
  WITH Value <- State, NoValue <- NoOutcome,
       epoch <- [k \in Key |-> row[k].max_token],
       value <- [k \in Key |-> row[k].outcome]

Fenced == Register!Spec
=============================================================================
