----------------------------- MODULE LeaseStore -----------------------------
(***************************************************************************)
(* fleet/lease.py: what SqliteLeaseStore does to the record of one key.    *)
(* Every operation is one BEGIN IMMEDIATE transaction (or one UPDATE       *)
(* statement), so an operation is a function from record to record.        *)
(* A lease handed to a client is a record of its own: the client keeps it  *)
(* for as long as it likes.                                                *)
(***************************************************************************)
EXTENDS Integers

CONSTANTS NoOwner,    \* "no row" / "nothing held"
          NoOutcome   \* the NULL outcome

Lease(k, o, tok) == [key |-> k, owner |-> o, token |-> tok]

-----------------------------------------------------------------------------
(* SqliteLeaseStore.  A missing row behaves as one with token, max_token   *)
(* and expires_at 0: acquire takes token 1, renew and complete reject.     *)

NoRow == [owner |-> NoOwner, token |-> 0, expires_at |-> 0,
          max_token |-> 0, outcome |-> NoOutcome]

\* "live, different owner": acquire returns None.
SqlBlocked(row, o, now) == now < row.expires_at /\ row.owner # o

\* Bug: a takeover is handed the token that was issued last.
SqlGrantReused(row, o, now) == IF row.max_token = 0 THEN 1 ELSE row.max_token

\* The same owner re-acquiring its live lease keeps the token, anyone else
\* takes one that was never issued.
SqlGrant(row, o, now) ==
  IF row.owner = o /\ now < row.expires_at THEN row.token ELSE row.max_token + 1

SqlAcquire(row, o, now, ttl) ==
  LET token == SqlGrant(row, o, now) IN
  [owner |-> o, token |-> token, expires_at |-> now + ttl,
   max_token |-> IF token > row.max_token THEN token ELSE row.max_token,
   outcome |-> row.outcome]

\* renew compares the token only; neither expiry nor release stops it.
SqlCanRenew(row, l) == row.token = l.token
SqlRenew(row, now, ttl) == [row EXCEPT !.expires_at = now + ttl]

SqlCanRelease(row, l) == row.token = l.token /\ row.owner = l.owner
SqlRelease(row) == [row EXCEPT !.expires_at = 0]

\* Bug: only the owner is compared.
SqlCanCompleteOwner(row, l) == l.owner = row.owner

\* complete raises FencingError unless the lease is of the newest token and
\* of the row's owner.  It records the outcome and leaves the lease alone.
SqlCanComplete(row, l) == l.token = row.max_token /\ l.owner = row.owner

SqlComplete(row, s) == [row EXCEPT !.outcome = s]

SqlHolder(row, now) == IF now < row.expires_at THEN row.owner ELSE NoOwner

=============================================================================
