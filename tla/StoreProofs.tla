---------------------------- MODULE StoreProofs ----------------------------
(***************************************************************************)
(* Two stores on disk, for all values of their constants.                  *)
(*                                                                         *)
(* SqliteLeases: max_token bounds every issued token, and the lease of the *)
(* newest token is the one the row describes; so a grant is either that    *)
(* lease again or one with a token nobody has seen.                        *)
(*                                                                         *)
(* ChainLog: there is one sequence G of lines, the archived ones first,    *)
(* and every file says something about it: the log file holds a suffix of  *)
(* it, each segment file a slice, the ledger how much of it is committed,  *)
(* announced and archived.  Each step of the holder is shown to lead from  *)
(* such a G to another one, H, and to move what a reader may see and what  *)
(* is settled as AtomicLog allows.                                         *)
(***************************************************************************)
EXTENDS SqliteLeases, ChainLog, SequenceTheorems, FiniteSetTheorems, WellFoundedInduction, TLAPS

-----------------------------------------------------------------------------
(* The SQLite lease store. *)

\* An issued lease and a written outcome are never ahead of the fence line.
Bounded ==
  /\ \A l \in issued : l.token <= row[l.key].max_token
  /\ \A k \in Key : writer[k] <= row[k].max_token

\* A row nobody acquired has no owner.
Unowned == \A k \in Key : row[k].max_token = 0 => row[k].owner = NoOwner

IInv == TypeOK /\ Bounded /\ Unowned /\ CurrentIsIssued /\ UniqueTokens

\* A grant is the newest lease again, or one with the next token; in both
\* cases the row names it and the fence line never falls.
LEMMA GrantLemma ==
  ASSUME IInv, NEW k \in Key, NEW o \in Owner, NEW t \in Nat,
         ~SqlBlocked(row[k], o, t)
  PROVE  LET g == SqlGrant(row[k], o, t)
             r == SqlAcquire(row[k], o, t, Ttl)
         IN /\ g \in Nat \ {0}
            /\ \/ g = row[k].max_token /\ row[k].owner = o /\ row[k].token = g
               \/ g = row[k].max_token + 1
            /\ r.owner = o /\ r.token = g /\ r.max_token = g
            /\ r.expires_at = t + Ttl /\ r.outcome = row[k].outcome
            /\ r \in [owner : Owner \union {NoOwner}, token : Nat, expires_at : Nat,
                      max_token : Nat, outcome : State \union {NoOutcome}]
  <1>1. row[k] \in [owner : Owner \union {NoOwner}, token : Nat, expires_at : Nat,
                    max_token : Nat, outcome : State \union {NoOutcome}]
    BY DEF IInv, TypeOK
  <1>2. row[k].max_token = 0 => row[k].owner # o
    BY LeaseAssumption DEF IInv, Unowned
  <1>3. row[k].max_token > 0 => row[k].token = row[k].max_token
    BY DEF IInv, CurrentIsIssued
  <1>4. row[k].token \in Nat /\ row[k].max_token \in Nat /\ t + Ttl \in Nat
    BY <1>1, LeaseAssumption
  <1> DEFINE g == SqlGrant(row[k], o, t)
             r == SqlAcquire(row[k], o, t, Ttl)
  <1>5. /\ g \in Nat \ {0}
        /\ \/ g = row[k].max_token /\ row[k].owner = o /\ row[k].token = g
           \/ g = row[k].max_token + 1
    BY <1>2, <1>3, <1>4 DEF SqlGrant
  <1>6. r = [owner |-> o, token |-> g, expires_at |-> t + Ttl,
             max_token |-> IF g > row[k].max_token THEN g ELSE row[k].max_token,
             outcome |-> row[k].outcome]
    BY <1>1 DEF SqlAcquire
  <1> HIDE DEF g, r
  <1>7. r.max_token = g
    BY <1>4, <1>5, <1>6
  <1>8. r \in [owner : Owner \union {NoOwner}, token : Nat, expires_at : Nat,
               max_token : Nat, outcome : State \union {NoOutcome}]
    <2>1. g \in Nat /\ o \in Owner \union {NoOwner} /\ row[k].outcome \in State \union {NoOutcome}
      BY <1>1, <1>5
    <2>2. r = [owner |-> o, token |-> g, expires_at |-> t + Ttl, max_token |-> g,
               outcome |-> row[k].outcome]
      BY <1>6, <1>7
    <2>3. QED BY <1>4, <2>1, <2>2
  <1>9. QED BY <1>5, <1>6, <1>7, <1>8 DEF g, r

LEMMA ReadingIsNat == IInv => Reading \subseteq Nat
  BY LeaseAssumption DEF Reading, IInv, TypeOK

LEMMA InitIInv == Init => IInv
  BY LeaseAssumption DEF Init, IInv, TypeOK, Bounded, Unowned, CurrentIsIssued, UniqueTokens, NoRow

LEMMA NextIInv == IInv /\ [Next]_vars => IInv'
  <1> SUFFICES ASSUME IInv, [Next]_vars PROVE IInv'
    OBVIOUS
  <1>1. ASSUME NEW k \in Key, NEW o \in Owner, Acquire(k, o) PROVE IInv'
    <2>1. PICK t \in Nat : /\ ~SqlBlocked(row[k], o, t)
                           /\ row' = [row EXCEPT ![k] = SqlAcquire(@, o, t, Ttl)]
                           /\ issued' = issued \union {Lease(k, o, SqlGrant(row[k], o, t))}
      BY <1>1, ReadingIsNat DEF Acquire
    <2> DEFINE g == SqlGrant(row[k], o, t)
               r == SqlAcquire(row[k], o, t, Ttl)
    <2>2. /\ g \in Nat \ {0}
          /\ \/ g = row[k].max_token /\ row[k].owner = o /\ row[k].token = g
             \/ g = row[k].max_token + 1
          /\ r.owner = o /\ r.token = g /\ r.max_token = g
          /\ r \in [owner : Owner \union {NoOwner}, token : Nat, expires_at : Nat,
                    max_token : Nat, outcome : State \union {NoOutcome}]
      BY <2>1, GrantLemma
    <2>3. row' = [row EXCEPT ![k] = r] /\ issued' = issued \union {Lease(k, o, g)}
      BY <2>1
    <2>4. clock' = clock /\ writer' = writer
      BY <1>1 DEF Acquire
    <2> HIDE DEF g, r
    <2>5. TypeOK'
      BY <2>2, <2>3, <2>4 DEF IInv, TypeOK, LeaseOf, Lease
    <2>6. row'[k] = r /\ \A j \in Key : j # k => row'[j] = row[j]
      BY <2>3 DEF IInv, TypeOK
    <2>7. row[k].max_token \in Nat /\ row[k].max_token <= g
      BY <2>2 DEF IInv, TypeOK
    <2>8. Bounded'
      <3>1. \A l \in issued : l.key \in Key /\ l.token \in Nat
        BY DEF IInv, TypeOK, LeaseOf
      <3>2. \A j \in Key : row[j].max_token \in Nat /\ writer[j] \in Nat
        BY DEF IInv, TypeOK
      <3>3. \A j \in Key : row'[j].max_token \in Nat /\ row[j].max_token <= row'[j].max_token
        BY <2>2, <2>6, <2>7, <3>2
      <3>4. \A l \in issued : l.token <= row'[l.key].max_token
        BY <3>1, <3>2, <3>3 DEF IInv, Bounded
      <3>5. Lease(k, o, g).token <= row'[Lease(k, o, g).key].max_token
        BY <2>2, <2>6 DEF Lease
      <3>6. \A j \in Key : writer'[j] <= row'[j].max_token
        BY <2>4, <3>2, <3>3 DEF IInv, Bounded
      <3>7. QED BY <2>3, <3>4, <3>5, <3>6 DEF Bounded
    <2>9. Unowned'
      BY <2>2, <2>6 DEF IInv, Unowned
    <2>10. CurrentIsIssued'
      BY <2>2, <2>3, <2>6 DEF IInv, CurrentIsIssued, Lease
    <2>11. UniqueTokens'
      <3>1. CASE g = row[k].max_token /\ row[k].owner = o
        <4>1. Lease(k, o, g) \in issued
          BY <3>1, <2>2 DEF IInv, CurrentIsIssued
        <4>2. QED BY <4>1, <2>3 DEF IInv, UniqueTokens
      <3>2. CASE g = row[k].max_token + 1
        <4>1. \A l \in issued : l.key = k => l.token # g
          BY <3>2, <2>7 DEF IInv, Bounded, TypeOK, LeaseOf
        <4>2. QED BY <4>1, <2>3 DEF IInv, UniqueTokens, Lease
      <3>3. QED BY <3>1, <3>2, <2>2
    <2>12. QED BY <2>5, <2>8, <2>9, <2>10, <2>11 DEF IInv
  <1>2. ASSUME NEW l \in issued, Renew(l) PROVE IInv'
    <2>1. PICK t \in Nat : row' = [row EXCEPT ![l.key] = SqlRenew(@, t, Ttl)]
      BY <1>2, ReadingIsNat DEF Renew
    <2>2. t + Ttl \in Nat /\ l.key \in Key
      BY LeaseAssumption DEF IInv, TypeOK, LeaseOf
    <2>3. QED
      BY <1>2, <2>1, <2>2 DEF Renew, SqlRenew, IInv, TypeOK, Bounded, Unowned, CurrentIsIssued, UniqueTokens
  <1>3. ASSUME NEW l \in issued, Release(l) PROVE IInv'
    <2>1. l.key \in Key
      BY DEF IInv, TypeOK, LeaseOf
    <2>2. QED
      BY <1>3, <2>1 DEF Release, SqlRelease, IInv, TypeOK, Bounded, Unowned, CurrentIsIssued, UniqueTokens
  <1>4. ASSUME NEW l \in issued, NEW s \in State, Complete(l, s) PROVE IInv'
    <2>1. l.key \in Key /\ l.token \in Nat
      BY DEF IInv, TypeOK, LeaseOf
    <2>2. QED
      BY <1>4, <2>1 DEF Complete, SqlCanComplete, SqlComplete, IInv, TypeOK, Bounded, Unowned, CurrentIsIssued, UniqueTokens
  <1>5. CASE Tick
    BY <1>5 DEF Tick, IInv, TypeOK, Bounded, Unowned, CurrentIsIssued, UniqueTokens
  <1>6. CASE UNCHANGED vars
    BY <1>6 DEF vars, IInv, TypeOK, Bounded, Unowned, CurrentIsIssued, UniqueTokens
  <1>7. QED BY <1>1, <1>2, <1>3, <1>4, <1>5, <1>6 DEF Next

\* The invariant that carries everything below.
THEOREM Invariance == Spec => []IInv
  BY InitIInv, NextIInv, PTL DEF Spec

\* A token of a key names one owner, in every reachable state.
THEOREM TokensAreUnique == Spec => [](TypeOK /\ UniqueTokens /\ CurrentIsIssued)
  <1>1. IInv => TypeOK /\ UniqueTokens /\ CurrentIsIssued
    BY DEF IInv
  <1>2. QED BY <1>1, Invariance, PTL

\* The outcome of a newer owner is never replaced by an older one's.
THEOREM StaleWritesAreFenced == Spec => NoStaleOverwrite
  <1>1. IInv /\ [Next]_vars => [\A k \in Key : writer'[k] # writer[k] => writer'[k] > writer[k]]_vars
    <2> SUFFICES ASSUME IInv, Next, NEW k \in Key, writer'[k] # writer[k]
                 PROVE  writer'[k] > writer[k]
      BY DEF vars
    <2>1. PICK l \in issued, s \in State : Complete(l, s)
      BY DEF Next, Acquire, Renew, Release, Tick
    <2>2. l.key = k /\ writer'[k] = l.token
      BY <2>1 DEF Complete, IInv, TypeOK, LeaseOf
    <2>3. l.token = row[k].max_token
      BY <2>1, <2>2 DEF Complete, SqlCanComplete
    <2>4. writer[k] \in Nat /\ row[k].max_token \in Nat /\ writer[k] <= row[k].max_token
      BY DEF IInv, TypeOK, Bounded
    <2>5. QED BY <2>2, <2>3, <2>4
  <1>2. QED BY <1>1, Invariance, PTL DEF Spec, NoStaleOverwrite

\* The SQLite lease store implements the fenced register.
THEOREM ImplementsFencedRegister == Spec => Fenced
  <1> USE DEF Register!Init, Register!vars
  <1>1. Init => Register!Init
    BY DEF Init, NoRow
  <1>2. IInv /\ [Next]_vars => [Register!Next]_(Register!vars)
    <2> SUFFICES ASSUME IInv, [Next]_vars
                 PROVE  Register!Next \/ UNCHANGED Register!vars
      OBVIOUS
    <2>1. ASSUME NEW k \in Key, NEW o \in Owner, Acquire(k, o)
          PROVE  Register!Next \/ UNCHANGED Register!vars
      <3>1. PICK t \in Nat : /\ ~SqlBlocked(row[k], o, t)
                             /\ row' = [row EXCEPT ![k] = SqlAcquire(@, o, t, Ttl)]
        BY <2>1, ReadingIsNat DEF Acquire
      <3> DEFINE r == SqlAcquire(row[k], o, t, Ttl)
      <3>2. /\ r.max_token = row[k].max_token \/ r.max_token = row[k].max_token + 1
            /\ r.outcome = row[k].outcome
        BY <3>1, GrantLemma
      <3>3. row' = [row EXCEPT ![k] = r] /\ writer' = writer
        BY <2>1, <3>1 DEF Acquire
      <3> HIDE DEF r
      <3>4. row'[k] = r /\ \A j \in Key : j # k => row'[j] = row[j]
        BY <3>3 DEF IInv, TypeOK
      <3>5. [j \in Key |-> row'[j].outcome] = [j \in Key |-> row[j].outcome]
        BY <3>2, <3>4
      <3>6. CASE r.max_token = row[k].max_token
        <4>1. [j \in Key |-> row'[j].max_token] = [j \in Key |-> row[j].max_token]
          BY <3>4, <3>6
        <4>2. QED BY <4>1, <3>3, <3>5
      <3>7. CASE r.max_token = row[k].max_token + 1
        <4>1. [j \in Key |-> row'[j].max_token]
                = [[j \in Key |-> row[j].max_token] EXCEPT ![k] = @ + 1]
          BY <3>4, <3>7
        <4>2. Register!NewEpoch(k)
          BY <4>1, <3>3, <3>5 DEF Register!NewEpoch
        <4>3. QED BY <4>2 DEF Register!Next
      <3>8. QED BY <3>2, <3>6, <3>7
    <2>2. ASSUME NEW l \in issued, Renew(l) \/ Release(l)
          PROVE  UNCHANGED Register!vars
      <3>1. l.key \in Key
        BY DEF IInv, TypeOK, LeaseOf
      <3> DEFINE Kept == \A j \in Key : /\ row'[j].max_token = row[j].max_token
                                       /\ row'[j].outcome = row[j].outcome
      <3>2. Kept
        <4>1. CASE Renew(l)
          <5>1. PICK t : row' = [row EXCEPT ![l.key] = SqlRenew(@, t, Ttl)]
            BY <4>1 DEF Renew
          <5>2. QED BY <5>1, <3>1 DEF SqlRenew, IInv, TypeOK
        <4>2. CASE Release(l)
          BY <4>2, <3>1 DEF Release, SqlRelease, IInv, TypeOK
        <4>3. QED BY <2>2, <4>1, <4>2
      <3>3. writer' = writer
        BY <2>2 DEF Renew, Release
      <3>4. QED BY <3>2, <3>3
    <2>3. ASSUME NEW l \in issued, NEW s \in State, Complete(l, s)
          PROVE  Register!Next
      <3>1. l.key \in Key /\ l.token \in Nat \ {0}
        BY DEF IInv, TypeOK, LeaseOf
      <3>2. l.token = row[l.key].max_token
        BY <2>3 DEF Complete, SqlCanComplete
      <3>3. /\ \A j \in Key : row'[j].max_token = row[j].max_token
            /\ \A j \in Key : j # l.key => row'[j].outcome = row[j].outcome
            /\ row'[l.key].outcome = s
        BY <2>3, <3>1 DEF Complete, SqlComplete, IInv, TypeOK
      <3>4. writer' = [writer EXCEPT ![l.key] = row[l.key].max_token]
        BY <2>3, <3>2 DEF Complete
      <3>5. [j \in Key |-> row'[j].outcome]
              = [[j \in Key |-> row[j].outcome] EXCEPT ![l.key] = s]
        BY <3>1, <3>3
      <3>6. Register!Write(l.key, s)
        <4>1. [j \in Key |-> row[j].max_token][l.key] = row[l.key].max_token
          BY <3>1
        <4>2. row[l.key].max_token > 0
          BY <3>1, <3>2
        <4>3. [j \in Key |-> row'[j].max_token] = [j \in Key |-> row[j].max_token]
          BY <3>3
        <4>4. QED BY <4>1, <4>2, <4>3, <3>4, <3>5 DEF Register!Write
      <3>7. QED BY <3>1, <3>6 DEF Register!Next
    <2>4. CASE Tick \/ UNCHANGED vars
      BY <2>4 DEF Tick, vars
    <2>5. QED BY <2>1, <2>2, <2>3, <2>4 DEF Next
  <1>3. QED BY <1>1, <1>2, Invariance, PTL DEF Spec, Fenced, Register!Spec

-----------------------------------------------------------------------------
(* Pieces of a sequence. *)

\* The elements of s after the a-th, up to the b-th.
Slice(s, a, b) == SubSeq(s, a + 1, b)

LEMMA SliceIs ==
  ASSUME NEW S, NEW s \in Seq(S), NEW a \in Nat, NEW b \in a..Len(s)
  PROVE  /\ Slice(s, a, b) \in Seq(S) /\ Len(Slice(s, a, b)) = b - a
         /\ \A i \in 1..(b - a) : Slice(s, a, b)[i] = s[a + i]
<1>1. a + 1 \in 1..Len(s) + 1 /\ b \in (a + 1) - 1..Len(s)
  OBVIOUS
<1>2. /\ Slice(s, a, b) \in Seq(S)
      /\ Len(Slice(s, a, b)) = IF a + 1 <= b THEN b - (a + 1) + 1 ELSE 0
      /\ \A i \in 1..b - (a + 1) + 1 : Slice(s, a, b)[i] = s[a + 1 + i - 1]
  BY <1>1, SubSeqProperties DEF Slice
<1>3. Len(Slice(s, a, b)) = b - a
  BY <1>2
<1>4. \A i \in 1..(b - a) : Slice(s, a, b)[i] = s[a + i]
  BY <1>2
<1> QED
  BY <1>2, <1>3, <1>4

LEMMA SliceEmpty ==
  ASSUME NEW S, NEW s \in Seq(S), NEW a \in Nat, NEW b \in a..Len(s)
  PROVE  (Slice(s, a, b) = <<>>) <=> (a = b)
<1>1. Slice(s, a, b) \in Seq(S) /\ Len(Slice(s, a, b)) = b - a
  BY SliceIs
<1>2. (Slice(s, a, b) = <<>>) <=> (Len(Slice(s, a, b)) = 0)
  BY <1>1, EmptySeq
<1> QED
  BY <1>1, <1>2

LEMMA PrefixIs ==
  ASSUME NEW S, NEW s \in Seq(S), NEW b \in 0..Len(s)
  PROVE  /\ Slice(s, 0, b) \in Seq(S) /\ Len(Slice(s, 0, b)) = b
         /\ \A i \in 1..b : Slice(s, 0, b)[i] = s[i]
<1>1. /\ Slice(s, 0, b) \in Seq(S) /\ Len(Slice(s, 0, b)) = b - 0
      /\ \A i \in 1..(b - 0) : Slice(s, 0, b)[i] = s[0 + i]
  BY SliceIs
<1> QED
  BY <1>1

LEMMA SliceEqual ==
  ASSUME NEW S, NEW s \in Seq(S), NEW t \in Seq(S), Len(s) = Len(t),
         \A i \in 1..Len(s) : s[i] = t[i]
  PROVE  s = t
BY SeqEqual

LEMMA TakeOfSlice ==
  ASSUME NEW S, NEW s \in Seq(S), NEW a \in Nat, NEW b \in a..Len(s), NEW k \in Nat
  PROVE  /\ k <= b - a => Take(Slice(s, a, b), k) = Slice(s, a, a + k)
         /\ k >= b - a => Take(Slice(s, a, b), k) = Slice(s, a, b)
<1> DEFINE t == Slice(s, a, b)
<1>1. t \in Seq(S) /\ Len(t) = b - a /\ \A i \in 1..(b - a) : t[i] = s[a + i]
  BY SliceIs
<1> HIDE DEF t
<1>2. ASSUME k <= b - a PROVE Take(t, k) = Slice(s, a, a + k)
  <2>1. Take(t, k) = Slice(t, 0, k)
    BY <1>1, <1>2 DEF Take, Slice
  <2>2. /\ Slice(t, 0, k) \in Seq(S) /\ Len(Slice(t, 0, k)) = k
        /\ \A i \in 1..k : Slice(t, 0, k)[i] = t[i]
    BY <1>1, <1>2, PrefixIs
  <2>3. a + k \in a..Len(s)
    BY <1>2
  <2>4. /\ Slice(s, a, a + k) \in Seq(S) /\ Len(Slice(s, a, a + k)) = k
        /\ \A i \in 1..k : Slice(s, a, a + k)[i] = s[a + i]
    BY <2>3, SliceIs
  <2>5. \A i \in 1..k : Slice(t, 0, k)[i] = Slice(s, a, a + k)[i]
    <3> TAKE i \in 1..k
    <3>1. i \in 1..(b - a)
      BY <1>2
    <3>2. t[i] = s[a + i]
      BY <1>1, <3>1
    <3> QED
      BY <2>2, <2>4, <3>2
  <2> QED
    BY <2>1, <2>2, <2>4, <2>5, SliceEqual
<1>3. ASSUME k >= b - a PROVE Take(t, k) = t
  <2>1. Take(t, k) = SubSeq(t, 1, Len(t))
    BY <1>1, <1>3 DEF Take
  <2> QED
    BY <2>1, <1>1, SubSeqFull
<1> QED
  BY <1>2, <1>3 DEF t

LEMMA DropOfSlice ==
  ASSUME NEW S, NEW s \in Seq(S), NEW a \in Nat, NEW b \in a..Len(s), NEW k \in 0..(b - a)
  PROVE  Drop(Slice(s, a, b), k) = Slice(s, a + k, b)
<1> DEFINE t == Slice(s, a, b)
<1>1. t \in Seq(S) /\ Len(t) = b - a /\ \A i \in 1..(b - a) : t[i] = s[a + i]
  BY SliceIs
<1> HIDE DEF t
<1>2. k \in Nat /\ Len(t) \in k..Len(t) /\ a + k \in Nat /\ b \in (a + k)..Len(s)
  BY <1>1
<1>2a. Len(t) - k = b - a - k /\ b - (a + k) = b - a - k
  BY <1>1
<1>3. Drop(t, k) = Slice(t, k, Len(t))
  BY DEF Drop, Slice
<1>4a. /\ Slice(t, k, Len(t)) \in Seq(S) /\ Len(Slice(t, k, Len(t))) = Len(t) - k
       /\ \A i \in 1..(Len(t) - k) : Slice(t, k, Len(t))[i] = t[k + i]
  <2>1. t \in Seq(S)
    BY <1>1
  <2> QED
    BY <2>1, <1>2, SliceIs
<1>4. /\ Slice(t, k, Len(t)) \in Seq(S) /\ Len(Slice(t, k, Len(t))) = b - a - k
      /\ \A i \in 1..(b - a - k) : Slice(t, k, Len(t))[i] = t[k + i]
  BY <1>4a, <1>2a
<1>5a. /\ Slice(s, a + k, b) \in Seq(S) /\ Len(Slice(s, a + k, b)) = b - (a + k)
       /\ \A i \in 1..(b - (a + k)) : Slice(s, a + k, b)[i] = s[a + k + i]
  BY <1>2, SliceIs
<1>5. /\ Slice(s, a + k, b) \in Seq(S) /\ Len(Slice(s, a + k, b)) = b - a - k
      /\ \A i \in 1..(b - a - k) : Slice(s, a + k, b)[i] = s[a + k + i]
  BY <1>5a, <1>2a
<1>6. \A i \in 1..(b - a - k) : t[k + i] = s[a + k + i]
  BY <1>1
<1> QED
  BY <1>3, <1>4, <1>5, <1>6, SliceEqual DEF t

\* A prefix of s has the slices of s.
LEMMA SliceOfSlice ==
  ASSUME NEW S, NEW s \in Seq(S), NEW e \in 0..Len(s), NEW a \in Nat, NEW b \in a..e
  PROVE  Slice(Slice(s, 0, e), a, b) = Slice(s, a, b)
<1> DEFINE t == Slice(s, 0, e)
<1>1. t \in Seq(S) /\ Len(t) = e /\ \A i \in 1..e : t[i] = s[i]
  BY PrefixIs
<1> HIDE DEF t
<1>2. b \in a..Len(t) /\ b \in a..Len(s)
  BY <1>1
<1>2a. t \in Seq(S)
  BY <1>1
<1>3. /\ Slice(t, a, b) \in Seq(S) /\ Len(Slice(t, a, b)) = b - a
      /\ \A i \in 1..(b - a) : Slice(t, a, b)[i] = t[a + i]
  BY <1>2a, <1>2, SliceIs
<1>4. /\ Slice(s, a, b) \in Seq(S) /\ Len(Slice(s, a, b)) = b - a
      /\ \A i \in 1..(b - a) : Slice(s, a, b)[i] = s[a + i]
  BY <1>2, SliceIs
<1>5. \A i \in 1..(b - a) : t[a + i] = s[a + i]
  BY <1>1
<1>6. Slice(t, a, b) = Slice(s, a, b)
  BY <1>3, <1>4, <1>5, SliceEqual
<1> QED
  BY <1>6 DEF t

LEMMA SlicesJoin ==
  ASSUME NEW S, NEW s \in Seq(S), NEW a \in Nat, NEW c \in a..Len(s), NEW b \in a..c
  PROVE  Slice(s, a, b) \o Slice(s, b, c) = Slice(s, a, c)
<1>0. b \in Nat /\ b \in a..Len(s) /\ c \in b..Len(s)
  OBVIOUS
<1>1. Slice(s, a, b) \in Seq(S) /\ Len(Slice(s, a, b)) = b - a /\ \A i \in 1..(b - a) : Slice(s, a, b)[i] = s[a + i]
  BY <1>0, SliceIs
<1>2. Slice(s, b, c) \in Seq(S) /\ Len(Slice(s, b, c)) = c - b /\ \A i \in 1..(c - b) : Slice(s, b, c)[i] = s[b + i]
  BY <1>0, SliceIs
<1>3. Slice(s, a, c) \in Seq(S) /\ Len(Slice(s, a, c)) = c - a /\ \A i \in 1..(c - a) : Slice(s, a, c)[i] = s[a + i]
  BY SliceIs
<1> DEFINE t == Slice(s, a, b) \o Slice(s, b, c)
<1>4a. t \in Seq(S) /\ Len(t) = (b - a) + (c - b)
  BY <1>1, <1>2, ConcatProperties
<1>4. t \in Seq(S) /\ Len(t) = c - a
  BY <1>0, <1>4a
<1>5. \A i \in 1..(c - a) : t[i] = s[a + i]
  <2> TAKE i \in 1..(c - a)
  <2>1. CASE i <= b - a
    <3>1. i \in 1..(b - a)
      BY <2>1, <1>0
    <3>2. t[i] = Slice(s, a, b)[i]
      BY <3>1, <1>0, <1>1, <1>2
    <3> QED
      BY <3>1, <3>2, <1>1
  <2>2. CASE i > b - a
    <3>1. i - (b - a) \in 1..(c - b) /\ b + (i - (b - a)) = a + i
      BY <2>2, <1>0
    <3>2. t[i] = Slice(s, b, c)[i - (b - a)]
      BY <2>2, <1>0, <1>1, <1>2, SMTT(30)
    <3> QED
      BY <3>1, <3>2, <1>2
  <2>3. i <= b - a \/ i > b - a
    BY <1>0
  <2> QED
    BY <2>1, <2>2, <2>3
<1> HIDE DEF t
<1>6. t = Slice(s, a, c)
  BY <1>3, <1>4, <1>5, SliceEqual
<1> QED
  BY <1>6 DEF t

\* What is appended is behind every slice of the old sequence.
Joins(u, s, t) == u = s \o t

LEMMA SliceOfConcat ==
  ASSUME NEW S, NEW s \in Seq(S), NEW t \in Seq(S), NEW a \in 0..Len(s), NEW u, Joins(u, s, t)
  PROVE  /\ u \in Seq(S) /\ Len(u) = Len(s) + Len(t)
         /\ \A i \in 1..Len(s) : u[i] = s[i]
         /\ \A i \in 1..Len(t) : u[Len(s) + i] = t[i]
         /\ Joins(Slice(u, a, Len(u)), Slice(s, a, Len(s)), t)
         /\ \A b \in a..Len(s) : Slice(u, a, b) = Slice(s, a, b)
<1>0. u = s \o t
  BY DEF Joins
<1>1. u \in Seq(S) /\ Len(u) = Len(s) + Len(t)
  BY <1>0, ConcatProperties
<1>2. \A i \in 1..Len(s) : u[i] = s[i]
  BY <1>0
<1>3. \A i \in 1..Len(t) : u[Len(s) + i] = t[i]
  <2> TAKE i \in 1..Len(t)
  <2>1. Len(s) + i \in 1..Len(s) + Len(t) /\ Len(s) + i > Len(s) /\ (Len(s) + i) - Len(s) = i
    OBVIOUS
  <2> QED
    BY <1>0, <2>1
<1>4. \A b \in a..Len(s) : Slice(u, a, b) = Slice(s, a, b)
  <2> TAKE b \in a..Len(s)
  <2>0. a \in Nat /\ b \in a..Len(u)
    BY <1>1
  <2>1. Slice(s, a, b) \in Seq(S) /\ Len(Slice(s, a, b)) = b - a /\ \A i \in 1..(b - a) : Slice(s, a, b)[i] = s[a + i]
    BY <2>0, SliceIs
  <2>2. Slice(u, a, b) \in Seq(S) /\ Len(Slice(u, a, b)) = b - a /\ \A i \in 1..(b - a) : Slice(u, a, b)[i] = u[a + i]
    <3>1. u \in Seq(S)
      BY <1>1
    <3> QED
      BY <3>1, <2>0, SliceIs
  <2>3. \A i \in 1..(b - a) : u[a + i] = s[a + i]
    BY <1>2, <2>0
  <2> QED
    BY <2>1, <2>2, <2>3, SliceEqual
<1>5. Slice(u, Len(s), Len(u)) = t
  <2>0. Len(s) \in Nat /\ Len(u) \in Len(s)..Len(u)
    BY <1>1
  <2>1. /\ Slice(u, Len(s), Len(u)) \in Seq(S) /\ Len(Slice(u, Len(s), Len(u))) = Len(u) - Len(s)
        /\ \A i \in 1..(Len(u) - Len(s)) : Slice(u, Len(s), Len(u))[i] = u[Len(s) + i]
    <3>1. u \in Seq(S)
      BY <1>1
    <3> QED
      BY <3>1, <2>0, SliceIs
  <2>2. Len(u) - Len(s) = Len(t)
    BY <1>1
  <2> QED
    BY <1>3, <2>1, <2>2, SliceEqual
<1>6. Slice(u, a, Len(u)) = Slice(u, a, Len(s)) \o Slice(u, Len(s), Len(u))
  <2>1. u \in Seq(S) /\ a \in Nat /\ Len(u) \in a..Len(u) /\ Len(s) \in a..Len(u)
    BY <1>1
  <2> QED
    BY <2>1, SlicesJoin
<1>7. Slice(u, a, Len(u)) = Slice(s, a, Len(s)) \o t
  <2>1. Len(s) \in a..Len(s)
    OBVIOUS
  <2> QED
    BY <2>1, <1>4, <1>5, <1>6
<1> QED
  BY <1>1, <1>2, <1>3, <1>4, <1>7 DEF Joins

-----------------------------------------------------------------------------
(* The invariant: there is one sequence of lines, G, and every file is a   *)
(* statement about it.                                                     *)

Rec == [n : Nat, id : RecordId, at : Nat, of : Nat, prev : Nat]
Segment == [name : Name \union {""}, head : Nat, count : Nat, ids : Seq(RecordId)]
Pending == [head : Nat, total : Nat, hashes : Seq(Nat)]
Ledger == [head : Nat, total : Nat, segs : Seq(Segment), pending : Pending]
LogFile == [head : Nat, count : Nat, recs : Seq(Rec), tail : {"clean", "part", "whole"}, blank : BOOLEAN]
SegmentFile == [head : Nat, count : Int, recs : Seq(Rec)]

Holder ==
  {Idle, [pc |-> "repair"], [pc |-> "clear"]}
  \union [pc : {"begin"}, ids : {ids \in SUBSET RecordId : IsFiniteSet(ids)}]
  \union [pc : {"announced", "written", "undo", "retract"}, new : Seq(Rec), start : Nat]
  \union [pc : {"ids", "ledger", "trim"}, n : Nat, name : Name]
  \union [pc : {"swap", "restore"}, n : Nat, name : Name, old : Ledger]

LogTypes ==
  /\ live \in LogFile /\ ledger \in Ledger /\ index \in Seq(RecordId)
  /\ file \in [Name -> SegmentFile] /\ op \in Holder
  /\ made \in 0..MaxMade /\ acked \subseteq 1..made /\ undone \subseteq 1..made

\* The number, or hash, of the i-th line; the chain starts from GENESIS.
N(G, i) == IF i = 0 THEN GENESIS ELSE G[i].n

Chain(G) ==
  /\ \A i \in 1..Len(G) : G[i].prev = N(G, i - 1)
  /\ \A i, j \in 0..Len(G) : i < j => N(G, i) < N(G, j)

\* A log file holds the lines of G behind its anchor.
Holding(l, G) ==
  /\ l.count \in 0..Len(G) /\ l.head = N(G, l.count)
  /\ l.recs = Slice(G, l.count, Len(G))
  /\ l.tail = "whole" => l.count < Len(G)

\* How many lines of G a reader of l parses.
ReachOf(l, G) == IF l.tail = "whole" THEN Len(G) - 1 ELSE Len(G)
Reach(G) == ReachOf(live, G)

Lines(G) ==
  /\ Chain(G) /\ Holding(live, G)
  /\ live.tail = "whole" => ledger.total < Len(G)
  /\ live.blank => G = <<>> /\ live.tail = "clean"
  /\ \A i \in 1..Len(G) : G[i].n <= made /\ G[i].n \notin undone

\* The announced batch: its numbers are consecutive, the first of them may be
\* in the log behind the committed lines, and nothing else is.
Size(led) == Len(led.pending.hashes)
Base(led) == led.pending.head - Size(led)

Announced(G, led) ==
  /\ Size(led) > 0 /\ led.head <= Base(led)
  /\ led.pending.total = led.total + Size(led)
  /\ led.pending.hashes = [j \in 1..Size(led) |-> Base(led) + j]
  /\ Len(G) <= led.pending.total
  /\ \A j \in 1..(Len(G) - led.total) :
       LET r == G[led.total + j] IN r.n = Base(led) + j /\ r.at = j /\ r.of = Size(led)

\* A ledger describes G: committed lines, an announced batch or at most one
\* more line, archived lines.
Accounts(G, led) ==
  /\ led.total \in 0..Len(G) /\ led.head = N(G, led.total)
  /\ led.pending = NoPending => Len(G) <= led.total + 1
  /\ led.pending # NoPending => Announced(G, led)
  /\ Archived(led.segs) \in 0..led.total
  /\ led.segs # <<>> => /\ Last(led.segs).count > 0
                        /\ Last(led.segs).head = N(G, Archived(led.segs))

Books(G, led) ==
  /\ Accounts(G, led) /\ live.count <= led.total /\ led.pending.head <= made
  /\ \A h \in acked : \E i \in 1..led.total : G[i].n = h

Anchored(led) == Archived(led.segs) = live.count

Part(G, n) == [head |-> live.head, count |-> live.count, recs |-> Slice(G, live.count, live.count + n)]

\* An archive that wrote its ledger and did not replace the log file.
Hanging(G) ==
  LET e == Last(ledger.segs) IN
  /\ ledger.segs # <<>> /\ e.name \in Name
  /\ Archived(ledger.segs) = live.count + e.count
  /\ ledger.pending = NoPending
  /\ file[e.name] = Part(G, e.count)

\* The lines a reader is entitled to, and those nobody can withdraw.
WholeOf(l, G, led) == led.pending # NoPending /\ ReachOf(l, G) = led.pending.total
End(G, led) == IF WholeOf(live, G, led) THEN led.pending.total ELSE led.total
Firm(G) == IF op.pc \in {"written", "undo"} THEN ledger.total ELSE End(G, ledger)

\* A segment file is a piece of G that starts behind the archived lines of its
\* time; together they hold the archived lines.
Holds(s, i) == file[s] # NoFile /\ file[s].count < i /\ i <= file[s].count + Len(file[s].recs)

Files(G) ==
  /\ \A s \in Name : file[s] # NoFile =>
       /\ file[s].count \in 0..live.count /\ file[s].count + Len(file[s].recs) <= Firm(G)
       /\ file[s].recs = Slice(G, file[s].count, file[s].count + Len(file[s].recs))
  /\ \A i \in 1..live.count : \E s \in Name : Holds(s, i)

VerifiedOf(l, G, led) == ReachOf(l, G) = led.total \/ WholeOf(l, G, led)
Verified(G, led) == VerifiedOf(live, G, led)

Writing(G) ==
  op.pc \in {"announced", "written", "undo", "retract"} =>
    /\ ~live.blank /\ ledger.pending # NoPending
    /\ op.start = ledger.total - live.count /\ Len(op.new) = Size(ledger)
    /\ op.pc # "retract" => \A h \in acked \union undone : h <= Base(ledger)
    /\ \A j \in 1..Len(op.new) :
         /\ op.new[j].n = Base(ledger) + j /\ op.new[j].at = j /\ op.new[j].of = Len(op.new)
         /\ op.new[j].prev = IF j = 1 THEN ledger.head ELSE Base(ledger) + j - 1
    /\ op.pc \in {"announced", "retract"} => Len(G) = ledger.total
    /\ op.pc = "written" => Len(G) = ledger.pending.total

Archiving(G) ==
  /\ op.pc \in {"ids", "ledger"} =>
       /\ Verified(G, ledger) /\ op.n \in 1..(Reach(G) - live.count)
       /\ file[op.name] = Part(G, op.n)
  /\ op.pc = "trim" => file[op.name].count = live.count
  /\ op.pc \in {"swap", "restore"} =>
       /\ Hanging(G) /\ Last(ledger.segs).name = op.name /\ Last(ledger.segs).count = op.n
       /\ ledger.total = Reach(G)
       /\ Books(G, op.old) /\ Anchored(op.old) /\ Verified(G, op.old)

Phase(G) ==
  /\ op.pc \in {"begin", "announced", "written", "retract", "repair", "clear"} => live.tail = "clean"
  /\ op.pc \in {"idle", "begin", "repair"} => Anchored(ledger) \/ Hanging(G)
  /\ op.pc \notin {"idle", "begin", "repair", "swap", "restore"} => Anchored(ledger)
  /\ op.pc = "clear" => Len(G) = ledger.total

LogStory(G) == Lines(G) /\ Books(G, ledger) /\ Files(G) /\ Writing(G) /\ Archiving(G) /\ Phase(G)

LogInv == LogTypes /\ \E G \in Seq(Rec) : LogStory(G)


-----------------------------------------------------------------------------
(* How many lines the segments of a ledger archived. *)

LEMMA LeastNatural ==
  ASSUME NEW S \in SUBSET Nat, S # {}
  PROVE  \E n \in S : \A m \in S : n <= m
<1>1. IsWellFoundedOn(OpToRel(<, Nat), Nat)
  BY NatLessThanWellFounded
<1>2. PICK x \in S : \A y \in S : ~(<<y, x>> \in OpToRel(<, Nat))
  BY <1>1, WFMin
<1>3. \A y \in S : y \in Nat /\ x \in Nat
  OBVIOUS
<1>4. \A y \in S : ~(y < x)
  BY <1>2, <1>3 DEF OpToRel
<1> QED
  BY <1>3, <1>4

\* f adds up the counts of the segments s, from the oldest on.
Sums(s, f) ==
  /\ f \in [0..Len(s) -> Nat] /\ f[0] = 0
  /\ \A i \in 1..Len(s) : f[i] = f[i - 1] + s[i].count

LEMMA ArchivedSums ==
  ASSUME NEW s \in Seq(Segment)
  PROVE  \E f : Sums(s, f) /\ Archived(s) = f[Len(s)]
<1> DEFINE Def(f, n) == f = [i \in 0..n |-> IF i = 0 THEN 0 ELSE f[i - 1] + s[i].count]
           Good(f, n) == Def(f, n) /\ f \in [0..n -> Nat]
           Bad == {n \in 0..Len(s) : ~\E f : Good(f, n)}
<1>0. Len(s) \in Nat /\ \A i \in 1..Len(s) : s[i].count \in Nat
  <2>1. \A i \in 1..Len(s) : s[i] \in Segment
    BY ElementOfSeq
  <2>2. \A i \in 1..Len(s) : s[i].count \in Nat
    BY <2>1 DEF Segment
  <2>3. Len(s) \in Nat
    OBVIOUS
  <2> QED
    BY <2>2, <2>3
<1>1. Bad = {}
  <2> SUFFICES ASSUME Bad # {} PROVE FALSE
    OBVIOUS
  <2>1. PICK n \in Bad : \A k \in Bad : n <= k
    <3>1. Bad \in SUBSET Nat
      BY <1>0
    <3> HIDE DEF Bad
    <3> QED
      BY <3>1, LeastNatural
  <2>2. CASE n = 0
    <3> DEFINE f == [i \in 0..0 |-> 0]
    <3>1. Good(f, 0)
      OBVIOUS
    <3> QED
      BY <2>2, <3>1
  <2>3. CASE n # 0
    <3>1. n - 1 \in 0..Len(s) /\ n - 1 \notin Bad /\ n \in 1..Len(s)
      <4>1. n - 1 \in 0..Len(s) /\ n \in 1..Len(s) /\ ~(n <= n - 1)
        BY <2>1, <2>3, <1>0
      <4> HIDE DEF Bad
      <4> QED
        BY <4>1, <2>1
    <3>2. PICK f : Good(f, n - 1)
      BY <3>1
    <3> DEFINE g == [i \in 0..n |-> IF i = n THEN f[n - 1] + s[n].count ELSE f[i]]
    <3>3. \A i \in 0..n : g[i] = IF i = 0 THEN 0 ELSE g[i - 1] + s[i].count
      BY <3>1, <3>2, SMTT(30)
    <3>4. Def(g, n)
      BY <3>3
    <3>5. g \in [0..n -> Nat]
      <4>1. n - 1 \in 0..(n - 1) /\ \A i \in 0..n : i # n => i \in 0..(n - 1)
        BY <3>1
      <4> QED
        BY <3>1, <3>2, <1>0, <4>1, SMTT(30)
    <3> QED
      BY <3>4, <3>5
  <2> QED
    BY <2>2, <2>3
<1>2. PICK f : Good(f, Len(s))
  BY <1>1, <1>0
<1> DEFINE sum == CHOOSE g : Def(g, Len(s))
<1>3. Archived(s) = sum[Len(s)]
  BY DEF Archived
<1>4. Def(sum, Len(s))
  <2>1. Def(f, Len(s))
    BY <1>2
  <2> HIDE DEF Def
  <2> QED
    BY <2>1
<1>5. \A i \in 0..Len(s) : sum[i] = IF i = 0 THEN 0 ELSE sum[i - 1] + s[i].count
  BY <1>4
<1>6. \A i \in 0..Len(s) : f[i] = IF i = 0 THEN 0 ELSE f[i - 1] + s[i].count
  BY <1>2
<1> HIDE DEF sum
<1> DEFINE Off == {i \in 0..Len(s) : sum[i] # f[i]}
<1>7. Off = {}
  <2> SUFFICES ASSUME Off # {} PROVE FALSE
    OBVIOUS
  <2>1. PICK n \in Off : \A k \in Off : n <= k
    <3>1. Off \in SUBSET Nat
      BY <1>0
    <3> HIDE DEF Off
    <3> QED
      BY <3>1, LeastNatural
  <2>2. n # 0
    BY <2>1, <1>5, <1>6
  <2>3. n - 1 \in 0..Len(s) /\ n - 1 \notin Off /\ n \in 1..Len(s)
    <3>1. n - 1 \in 0..Len(s) /\ n \in 1..Len(s) /\ ~(n <= n - 1)
      BY <2>1, <2>2, <1>0
    <3> HIDE DEF Off
    <3> QED
      BY <3>1, <2>1
  <2>4. sum[n - 1] = f[n - 1]
    BY <2>3
  <2>5. sum[n] = f[n]
    BY <2>2, <2>3, <2>4, <1>5, <1>6
  <2> QED
    BY <2>1, <2>5
<1>8. Sums(s, f)
  <2>1. f[0] = 0
    BY <1>0, <1>6
  <2>2. \A i \in 1..Len(s) : f[i] = f[i - 1] + s[i].count
    BY <1>0, <1>6
  <2> QED
    BY <1>2, <2>1, <2>2 DEF Sums
<1>9. Archived(s) = f[Len(s)]
  BY <1>0, <1>3, <1>7
<1> QED
  BY <1>8, <1>9

\* The m segments of s behind the a-th count the same as those of t behind the b-th.
SameCounts(s, a, t, b, m) ==
  /\ a \in Nat /\ b \in Nat /\ m \in Nat /\ a + m <= Len(s) /\ b + m <= Len(t)
  /\ \A j \in 1..m : s[a + j].count = t[b + j].count

\* Sums that are equal somewhere stay equal over equal counts.
LEMMA SumsAgree ==
  ASSUME NEW s \in Seq(Segment), NEW t \in Seq(Segment), NEW f, NEW g, NEW a, NEW b, NEW m,
         Sums(s, f), Sums(t, g), SameCounts(s, a, t, b, m), f[a] = g[b]
  PROVE  f[a + m] = g[b + m]
<1>0. /\ a \in Nat /\ b \in Nat /\ m \in Nat /\ a + m <= Len(s) /\ b + m <= Len(t)
      /\ \A j \in 1..m : s[a + j].count = t[b + j].count
  BY DEF SameCounts
<1> DEFINE Off == {j \in 0..m : f[a + j] # g[b + j]}
<1>1. Off = {}
  <2> SUFFICES ASSUME Off # {} PROVE FALSE
    OBVIOUS
  <2>1. PICK n \in Off : \A k \in Off : n <= k
    <3>1. Off \in SUBSET Nat
      BY <1>0
    <3> HIDE DEF Off
    <3> QED
      BY <3>1, LeastNatural
  <2>2. n # 0
    <3>1. a + 0 = a /\ b + 0 = b
      BY <1>0
    <3> QED
      BY <2>1, <3>1
  <2>3. n - 1 \in 0..m /\ n \in 1..m /\ n - 1 \notin Off
    <3>1. n - 1 \in 0..m /\ n \in 1..m /\ ~(n <= n - 1)
      BY <2>1, <2>2, <1>0
    <3> HIDE DEF Off
    <3> QED
      BY <3>1, <2>1
  <2>4. f[a + (n - 1)] = g[b + (n - 1)]
    BY <2>3
  <2>5. /\ a + n \in 1..Len(s) /\ (a + n) - 1 = a + (n - 1)
        /\ b + n \in 1..Len(t) /\ (b + n) - 1 = b + (n - 1)
    BY <2>3, <1>0
  <2>6. f[a + n] = f[a + (n - 1)] + s[a + n].count /\ g[b + n] = g[b + (n - 1)] + t[b + n].count
    BY <2>5 DEF Sums
  <2> QED
    BY <2>1, <2>3, <2>4, <2>6, <1>0
<1>2. m \in 0..m
  BY <1>0
<1> QED
  BY <1>1, <1>2

LEMMA SumsOfPrefix ==
  ASSUME NEW s \in Seq(Segment), NEW t \in Seq(Segment), NEW f, NEW g, NEW m,
         Sums(s, f), Sums(t, g), SameCounts(s, 0, t, 0, m)
  PROVE  f[m] = g[m]
<1>1. f[0] = g[0]
  BY DEF Sums
<1>2. f[0 + m] = g[0 + m]
  BY <1>1, SumsAgree
<1>3. 0 + m = m
  BY DEF SameCounts
<1> QED
  BY <1>2, <1>3

LEMMA ArchivedAppend ==
  ASSUME NEW s \in Seq(Segment), NEW e \in Segment
  PROVE  Archived(s) \in Nat /\ Archived(Append(s, e)) = Archived(s) + e.count
<1> DEFINE t == Append(s, e)
<1>0. Len(s) \in Nat
  OBVIOUS
<1>1. t \in Seq(Segment) /\ Len(t) = Len(s) + 1 /\ t[Len(s) + 1] = e /\ \A i \in 1..Len(s) : t[i] = s[i]
  BY AppendProperties
<1> HIDE DEF t
<1>2. PICK f : Sums(s, f) /\ Archived(s) = f[Len(s)]
  BY ArchivedSums
<1>3. PICK g : Sums(t, g) /\ Archived(t) = g[Len(t)]
  BY <1>1, ArchivedSums
<1>4. f[Len(s)] = g[Len(s)]
  <2>1. SameCounts(s, 0, t, 0, Len(s))
    BY <1>0, <1>1 DEF SameCounts
  <2> QED
    BY <1>1, <1>2, <1>3, <2>1, SumsOfPrefix
<1>5. g[Len(s) + 1] = g[Len(s)] + e.count
  <2>1. Len(s) + 1 \in 1..Len(t) /\ (Len(s) + 1) - 1 = Len(s)
    BY <1>0, <1>1
  <2> QED
    BY <2>1, <1>1, <1>3 DEF Sums
<1>6. f[Len(s)] \in Nat
  BY <1>0, <1>2 DEF Sums
<1> QED
  BY <1>1, <1>2, <1>3, <1>4, <1>5, <1>6 DEF t

\* Folding the oldest entries keeps the sum and the newest entry.
LEMMA FoldedIs ==
  ASSUME NEW s \in Seq(Segment), s # <<>>
  PROVE  /\ Folded(s) \in Seq(Segment) /\ Folded(s) # <<>>
         /\ Last(Folded(s)) = Last(s) /\ Archived(Folded(s)) = Archived(s)
<1> DEFINE keep == MAX_SEGMENT_ENTRIES \div 2
           d == Len(s) - keep
           old == Take(s, d)
           e == [Last(old) EXCEPT !.name = "", !.count = Archived(old)]
           t == <<e>> \o Drop(s, d)
<1>0. Len(s) \in Nat /\ Len(s) > 0
  BY EmptySeq
<1>1. CASE Len(s) <= MAX_SEGMENT_ENTRIES
  BY <1>1 DEF Folded
<1>2. CASE ~(Len(s) <= MAX_SEGMENT_ENTRIES)
  <2>1. keep \in Nat /\ keep >= 1 /\ d \in 1..Len(s) /\ d < Len(s) /\ d \in Nat
    <3>1. MAX_SEGMENT_ENTRIES \in Nat /\ MAX_SEGMENT_ENTRIES >= 2
      <4>1. MAX_SEGMENT_ENTRIES \in Nat \ {0, 1}
        BY ChainLogAssumption
      <4> QED
        BY <4>1
    <3>2. keep \in Nat /\ keep >= 1 /\ keep <= MAX_SEGMENT_ENTRIES
      BY <3>1
    <3> HIDE DEF keep
    <3> QED
      BY <3>1, <3>2, <1>0, <1>2
  <2>2. Folded(s) = t
    BY <1>2 DEF Folded
  <2> HIDE DEF keep, d
  <2>3. old = Slice(s, 0, d) /\ Drop(s, d) = Slice(s, d, Len(s))
    BY <2>1 DEF Take, Drop, Slice
  <2>4. old \in Seq(Segment) /\ Len(old) = d /\ \A i \in 1..d : old[i] = s[i]
    BY <2>1, <2>3, PrefixIs
  <2>5. /\ Drop(s, d) \in Seq(Segment) /\ Len(Drop(s, d)) = Len(s) - d
        /\ \A i \in 1..(Len(s) - d) : Drop(s, d)[i] = s[d + i]
    <3>1. Len(s) \in d..Len(s)
      BY <2>1
    <3> QED
      BY <2>1, <2>3, <3>1, SliceIs, ZenonT(30)
  <2> HIDE DEF old
  <2>6. PICK f : Sums(s, f) /\ Archived(s) = f[Len(s)]
    BY ArchivedSums
  <2>7. PICK g : Sums(old, g) /\ Archived(old) = g[Len(old)]
    BY <2>4, ArchivedSums
  <2>8. f[d] = g[d] /\ g[d] \in Nat
    <3>1. SameCounts(s, 0, old, 0, d)
      BY <2>1, <2>4 DEF SameCounts
    <3>2. f[d] = g[d]
      <4>1. old \in Seq(Segment) /\ Sums(s, f) /\ Sums(old, g)
        BY <2>4, <2>6, <2>7
      <4> QED
        BY <3>1, <4>1, SumsOfPrefix
    <3>3. d \in 0..Len(old)
      BY <2>1, <2>4
    <3> QED
      BY <2>7, <3>2, <3>3 DEF Sums
  <2>9. Last(old) \in Segment
    <3>1. Len(old) \in 1..Len(old)
      BY <2>1, <2>4
    <3> QED
      BY <2>4, <3>1, ElementOfSeq DEF Last
  <2>10. e \in Segment /\ e.count = g[d]
    BY <2>4, <2>7, <2>8, <2>9 DEF Segment
  <2> HIDE DEF e
  <2>11. /\ t \in Seq(Segment) /\ Len(t) = 1 + (Len(s) - d) /\ t[1] = e
         /\ \A i \in 1..(Len(s) - d) : t[1 + i] = s[d + i]
    <3>1. <<e>> \in Seq(Segment) /\ Len(<<e>>) = 1 /\ <<e>>[1] = e
      BY <2>10
    <3>2. t \in Seq(Segment) /\ Len(t) = 1 + (Len(s) - d)
      BY <2>5, <3>1, ConcatProperties
    <3>3. t[1] = e
      BY <2>5, <3>1, ConcatProperties
    <3>4. ASSUME NEW i \in 1..(Len(s) - d) PROVE t[1 + i] = s[d + i]
      <4>1. 1 + i \in 1..(1 + Len(Drop(s, d))) /\ 1 + i > 1 /\ (1 + i) - 1 = i
        BY <2>1, <2>5
      <4>2. t[1 + i] = Drop(s, d)[i]
        BY <2>5, <3>1, <4>1, ConcatProperties
      <4> QED
        BY <2>5, <4>2
    <3> QED
      BY <3>2, <3>3, <3>4
  <2> HIDE DEF t
  <2>12. PICK h : Sums(t, h) /\ Archived(t) = h[Len(t)]
    BY <2>11, ArchivedSums
  <2>13. h[1] = f[d]
    <3>1. 1 \in 1..Len(t) /\ 1 - 1 = 0
      BY <2>1, <2>11
    <3>2. h[1] = h[0] + t[1].count /\ h[0] = 0
      BY <2>12, <3>1 DEF Sums
    <3> QED
      BY <2>8, <2>10, <2>11, <3>2
  <2>14. h[Len(t)] = f[Len(s)]
    <3>1. SameCounts(t, 1, s, d, Len(s) - d)
      BY <2>1, <2>11 DEF SameCounts
    <3>2. h[1 + (Len(s) - d)] = f[d + (Len(s) - d)]
      BY <2>6, <2>11, <2>12, <2>13, <3>1, SumsAgree
    <3>3. 1 + (Len(s) - d) = Len(t) /\ d + (Len(s) - d) = Len(s)
      BY <2>1, <2>11
    <3> QED
      BY <3>2, <3>3
  <2>15. Archived(t) = Archived(s)
    BY <2>6, <2>12, <2>14
  <2>16. t # <<>> /\ Last(t) = Last(s)
    <3>1. Len(s) - d \in 1..(Len(s) - d) /\ d + (Len(s) - d) = Len(s) /\ Len(t) # 0
      BY <2>1, <2>11
    <3>2. t[1 + (Len(s) - d)] = s[Len(s)]
      BY <2>11, <3>1
    <3> QED
      BY <2>11, <3>1, <3>2 DEF Last
  <2> QED
    BY <2>2, <2>11, <2>15, <2>16
<1> QED
  BY <1>1, <1>2

-----------------------------------------------------------------------------
(* What the operators on a log file and a ledger find in G. *)

LEMMA NumbersGrow ==
  ASSUME NEW G \in Seq(Rec), Chain(G), NEW i \in 0..Len(G), NEW j \in 0..Len(G)
  PROVE  /\ N(G, i) \in Nat
         /\ N(G, i) = N(G, j) => i = j
         /\ N(G, i) <= N(G, j) => i <= j
         /\ N(G, i) < N(G, j) => i < j
<1>1. \A k \in 0..Len(G) : N(G, k) \in Nat
  <2> TAKE k \in 0..Len(G)
  <2>1. CASE k = 0
    BY <2>1 DEF N, GENESIS
  <2>2. CASE k # 0
    <3>1. k \in 1..Len(G)
      BY <2>2
    <3>2. G[k] \in Rec
      BY <3>1, ElementOfSeq
    <3> QED
      BY <3>2, <2>2 DEF N, Rec
  <2> QED
    BY <2>1, <2>2
<1>2. i < j => N(G, i) < N(G, j)
  BY DEF Chain
<1>3. j < i => N(G, j) < N(G, i)
  BY DEF Chain
<1>4. N(G, i) \in Nat /\ N(G, j) \in Nat /\ i \in Int /\ j \in Int
  BY <1>1
<1> QED
  BY <1>2, <1>3, <1>4

LEMMA LineIsRec ==
  ASSUME NEW G \in Seq(Rec), NEW i \in 1..Len(G)
  PROVE  /\ G[i] \in Rec /\ G[i].n \in Nat /\ G[i].at \in Nat /\ G[i].of \in Nat
         /\ N(G, i) = G[i].n
<1>1. G[i] \in Rec
  BY ElementOfSeq
<1>2. i # 0
  OBVIOUS
<1> QED
  BY <1>1, <1>2 DEF Rec, N

LEMMA TipOfSlice ==
  ASSUME NEW G \in Seq(Rec), NEW a \in Nat, NEW b \in a..Len(G)
  PROVE  Tip(N(G, a), Slice(G, a, b)) = N(G, b)
<1>1. CASE a = b
  <2>1. Slice(G, a, b) = <<>>
    BY <1>1, SliceEmpty
  <2> QED
    BY <1>1, <2>1 DEF Tip
<1>2. CASE a # b
  <2>1. Slice(G, a, b) # <<>>
    BY <1>2, SliceEmpty
  <2>2. Len(Slice(G, a, b)) = b - a /\ \A i \in 1..(b - a) : Slice(G, a, b)[i] = G[a + i]
    BY SliceIs
  <2>3. b - a \in 1..(b - a) /\ a + (b - a) = b /\ b # 0
    BY <1>2
  <2>4. Last(Slice(G, a, b)) = G[b]
    BY <2>2, <2>3 DEF Last
  <2> QED
    BY <2>1, <2>3, <2>4 DEF Tip, N
<1> QED
  BY <1>1, <1>2

LEMMA SliceChained ==
  ASSUME NEW G \in Seq(Rec), Chain(G), NEW a \in Nat, NEW b \in a..Len(G)
  PROVE  Chained(N(G, a), Slice(G, a, b))
<1> DEFINE t == Slice(G, a, b)
<1>1. t \in Seq(Rec) /\ Len(t) = b - a /\ \A i \in 1..(b - a) : t[i] = G[a + i]
  BY SliceIs
<1>2. ASSUME NEW i \in 1..(b - a) PROVE t[i].prev = Tip(N(G, a), Take(t, i - 1))
  <2>1. i - 1 \in Nat /\ i - 1 <= b - a /\ a + (i - 1) \in a..Len(G) /\ a + i \in 1..Len(G)
        /\ (a + i) - 1 = a + (i - 1)
    OBVIOUS
  <2>2. Take(t, i - 1) = Slice(G, a, a + (i - 1))
    BY <2>1, TakeOfSlice
  <2>3. Tip(N(G, a), Take(t, i - 1)) = N(G, a + (i - 1))
    BY <2>1, <2>2, TipOfSlice
  <2>4. G[a + i].prev = N(G, a + (i - 1))
    BY <2>1 DEF Chain
  <2> QED
    BY <1>1, <2>3, <2>4
<1>3. DOMAIN t = 1..(b - a)
  BY <1>1
<1> HIDE DEF t
<1>4. Chained(N(G, a), t)
  BY <1>2, <1>3 DEF Chained
<1> QED
  BY <1>4 DEF t

LEMMA ParseIs ==
  ASSUME NEW G \in Seq(Rec), NEW l \in LogFile, Holding(l, G)
  PROVE  /\ ReachOf(l, G) \in l.count..Len(G) /\ ReachOf(l, G) \in Nat
         /\ l.tail # "whole" => ReachOf(l, G) = Len(G)
         /\ l.tail = "whole" => ReachOf(l, G) = Len(G) - 1
         /\ l.count \in Nat /\ l.count <= Len(G)
         /\ _parse(l) = Slice(G, l.count, ReachOf(l, G))
         /\ Len(_parse(l)) = ReachOf(l, G) - l.count
         /\ Len(l.recs) = Len(G) - l.count
<1>1. l.count \in Nat /\ Len(G) \in Nat /\ l.count <= Len(G) /\ Len(G) \in l.count..Len(G)
  BY DEF Holding
<1>2. Len(l.recs) = Len(G) - l.count
  <2>1. l.recs = Slice(G, l.count, Len(G))
    BY DEF Holding
  <2>2. Len(Slice(G, l.count, Len(G))) = Len(G) - l.count
    BY <1>1, SliceIs, ZenonT(30)
  <2> QED
    BY <2>1, <2>2
<1>3. CASE l.tail = "whole"
  <2>1. l.count < Len(G) /\ ReachOf(l, G) = Len(G) - 1
    BY <1>3 DEF Holding, ReachOf
  <2>2. Len(G) - 1 \in l.count..Len(G) /\ Len(G) - 1 \in Nat
    BY <1>1, <2>1
  <2>3. l.recs \in Seq(Rec)
    BY DEF LogFile
  <2>4. _parse(l) = Take(l.recs, Len(l.recs) - 1)
    BY <1>3, <1>1, <1>2, <2>1 DEF _parse, Front, Take
  <2>5. Len(l.recs) - 1 \in Nat /\ Len(l.recs) - 1 <= Len(G) - l.count
        /\ l.count + (Len(l.recs) - 1) = Len(G) - 1
    BY <1>1, <1>2, <2>1
  <2>6. Take(Slice(G, l.count, Len(G)), Len(l.recs) - 1) = Slice(G, l.count, l.count + (Len(l.recs) - 1))
    BY <1>1, <2>5, TakeOfSlice
  <2>7. _parse(l) = Slice(G, l.count, Len(G) - 1)
    BY <2>4, <2>5, <2>6 DEF Holding
  <2>8. Len(Slice(G, l.count, Len(G) - 1)) = Len(G) - 1 - l.count
    BY <1>1, <2>2, SliceIs
  <2> QED
    BY <1>1, <1>2, <1>3, <2>1, <2>2, <2>7, <2>8
<1>4. CASE l.tail # "whole"
  <2>1. ReachOf(l, G) = Len(G) /\ _parse(l) = l.recs
    BY <1>4 DEF ReachOf, _parse
  <2> QED
    BY <1>1, <1>2, <1>4, <2>1 DEF Holding
<1> QED
  BY <1>3, <1>4

LEMMA LedgerParts ==
  ASSUME NEW G \in Seq(Rec), NEW led \in Ledger, Accounts(G, led)
  PROVE  /\ led.total \in Nat /\ led.head \in Nat /\ led.total <= Len(G)
         /\ led.segs \in Seq(Segment)
         /\ led.pending.head \in Nat /\ led.pending.total \in Nat
         /\ led.pending.hashes \in Seq(Nat) /\ Size(led) \in Nat /\ Base(led) \in Int
         /\ Archived(led.segs) \in Nat /\ Archived(led.segs) <= led.total
<1>1. led.pending \in Pending /\ led.head \in Nat /\ led.segs \in Seq(Segment)
  BY DEF Ledger
<1>2. led.pending.head \in Nat /\ led.pending.total \in Nat /\ led.pending.hashes \in Seq(Nat)
  BY <1>1 DEF Pending
<1>3. Size(led) \in Nat
  BY <1>2 DEF Size
<1>4. Base(led) \in Int
  BY <1>2, <1>3 DEF Base
<1>5. led.total \in 0..Len(G) /\ Archived(led.segs) \in 0..led.total
  BY DEF Accounts
<1>6. led.total \in Nat /\ led.total <= Len(G) /\ Archived(led.segs) \in Nat /\ Archived(led.segs) <= led.total
  BY <1>5
<1> QED
  BY <1>1, <1>2, <1>3, <1>4, <1>6

\* The announced tip is the last line exactly when all of the batch is there.
LEMMA PendingTip ==
  ASSUME NEW G \in Seq(Rec), NEW led \in Ledger, Accounts(G, led),
         led.pending # NoPending, NEW m \in led.total..Len(G)
  PROVE  /\ N(G, m) = led.pending.head <=> m = led.pending.total
         /\ led.total < led.pending.total /\ led.head < led.pending.head
         /\ m > led.total => N(G, m) = Base(led) + (m - led.total)
         /\ led.pending.total = led.total + Size(led)
<1>0. Announced(G, led) /\ led.head = N(G, led.total)
  BY DEF Accounts
<1>1. /\ led.total \in Nat /\ led.head \in Nat /\ led.total <= Len(G)
      /\ led.pending.head \in Nat /\ led.pending.total \in Nat
      /\ Size(led) \in Nat /\ Base(led) \in Int
  BY LedgerParts
<1>2. /\ Size(led) > 0 /\ led.head <= Base(led) /\ led.pending.total = led.total + Size(led)
      /\ Base(led) = led.pending.head - Size(led)
  BY <1>0 DEF Announced, Base
<1>3. led.total < led.pending.total /\ led.head < led.pending.head
  BY <1>1, <1>2
<1>4. CASE m = led.total
  <2>1. N(G, m) = led.head
    BY <1>0, <1>4
  <2>2. ~(m > led.total) /\ N(G, m) # led.pending.head /\ m # led.pending.total
    BY <1>1, <1>3, <1>4, <2>1
  <2> QED
    BY <1>2, <1>3, <2>2
<1>5. CASE m # led.total
  <2>1. m \in Nat /\ m - led.total \in 1..(Len(G) - led.total) /\ led.total + (m - led.total) = m /\ m # 0
    BY <1>1, <1>5, SMTT(30)
  <2>2. G[m].n = Base(led) + (m - led.total)
    BY <1>0, <2>1 DEF Announced
  <2>3. N(G, m) = Base(led) + (m - led.total)
    BY <2>1, <2>2 DEF N
  <2>4. N(G, m) = led.pending.head <=> m = led.pending.total
    <3>1. N(G, m) = led.pending.head - Size(led) + (m - led.total)
      BY <1>2, <2>3
    <3>2. \A x, h, t, z, k \in Int : x = h - z + (k - t) => (x = h <=> k = t + z)
      OBVIOUS
    <3>3. /\ N(G, m) \in Int /\ led.pending.head \in Int /\ led.total \in Int
          /\ Size(led) \in Int /\ m \in Int
      BY <1>1, <2>1, <2>3, SMTT(30)
    <3>4. N(G, m) = led.pending.head <=> m = led.total + Size(led)
      BY <3>1, <3>2, <3>3, SMTT(30)
    <3> QED
      BY <1>2, <3>4
  <2> QED
    BY <1>2, <1>3, <2>3, <2>4
<1> QED
  BY <1>4, <1>5

\* The empty list of segments archived nothing.
LEMMA ArchivedNothing == Archived(<<>>) = 0
<1> DEFINE Def(f) == f = [i \in 0..Len(<<>>) |-> IF i = 0 THEN 0 ELSE f[i - 1] + (<<>>)[i].count]
           g == [i \in 0..0 |-> 0]
           sum == CHOOSE f : Def(f)
<1>1. Len(<<>>) = 0
  OBVIOUS
<1>2. Def(g)
  BY <1>1
<1>3. Def(sum)
  <2> HIDE DEF Def, g
  <2> QED
    BY <1>2
<1>4. sum[0] = 0
  BY <1>1, <1>3
<1>5. Archived(<<>>) = sum[Len(<<>>)]
  BY DEF Archived
<1> QED
  BY <1>1, <1>4, <1>5

\* A reader accepts the files when they agree on what is archived and the log
\* ends at the committed lines or behind all of the announced batch.
LEMMA VerifyIs ==
  ASSUME NEW G \in Seq(Rec), Chain(G), NEW l \in LogFile, Holding(l, G),
         NEW led \in Ledger, Accounts(G, led), led.total <= ReachOf(l, G)
  PROVE  _verify_files(l, led) <=> Archived(led.segs) = l.count /\ VerifiedOf(l, G, led)
<1> DEFINE r == ReachOf(l, G)
           at == <<Tip(l.head, _parse(l)), l.count + Len(_parse(l))>>
<1>1. /\ r \in l.count..Len(G) /\ r \in Nat /\ l.count \in Nat
      /\ _parse(l) = Slice(G, l.count, r) /\ Len(_parse(l)) = r - l.count
  BY ParseIs
<1>2. l.head = N(G, l.count)
  BY DEF Holding
<1>3. at[1] = N(G, r) /\ at[2] = r
  <2>1. Tip(l.head, _parse(l)) = N(G, r)
    BY <1>1, <1>2, TipOfSlice
  <2>2. l.count + Len(_parse(l)) = r
    BY <1>1
  <2> QED
    BY <2>1, <2>2
<1>4. Chained(l.head, _parse(l))
  BY <1>1, <1>2, SliceChained
<1>5. /\ led.total \in Nat /\ led.total <= Len(G) /\ led.total \in 0..Len(G) /\ r \in led.total..Len(G)
      /\ led.head = N(G, led.total)
  <2>1. led.total \in Nat /\ led.total <= Len(G)
    BY LedgerParts
  <2> QED
    BY <1>1, <2>1 DEF Accounts
<1>6. N(G, r) = led.head <=> r = led.total
  <2>1. r \in 0..Len(G)
    BY <1>1
  <2> QED
    BY <1>5, <2>1, NumbersGrow
<1>7. led.pending # NoPending => (N(G, r) = led.pending.head <=> r = led.pending.total)
  BY <1>5, PendingTip
<1>8. at = <<led.head, led.total>> <=> r = led.total
  <2>1. at = <<led.head, led.total>> <=> N(G, r) = led.head /\ r = led.total
    BY <1>3
  <2> QED
    BY <2>1, <1>6
<1>9. led.pending # NoPending => (at = <<led.pending.head, led.pending.total>> <=> r = led.pending.total)
  <2>1. at = <<led.pending.head, led.pending.total>> <=> N(G, r) = led.pending.head /\ r = led.pending.total
    BY <1>3
  <2> QED
    BY <2>1, <1>7
<1>10. Archived(led.segs) = l.count /\ l.count > 0 => l.head = Last(led.segs).head
  <2> SUFFICES ASSUME Archived(led.segs) = l.count, l.count > 0 PROVE l.head = Last(led.segs).head
    OBVIOUS
  <2>1. led.segs # <<>>
    BY ArchivedNothing, <1>1
  <2> QED
    BY <1>2, <2>1 DEF Accounts
<1>11. AnchorIsCurrent(l, led) <=> Archived(led.segs) = l.count
  BY <1>10 DEF AnchorIsCurrent
<1>12. VerifiedOf(l, G, led) <=> r = led.total \/ (led.pending # NoPending /\ r = led.pending.total)
  BY DEF VerifiedOf, WholeOf
<1>13. _verify_files(l, led) <=>
         /\ Chained(l.head, _parse(l)) /\ AnchorIsCurrent(l, led)
         /\ at = <<led.head, led.total>> \/ (led.pending # NoPending /\ at = <<led.pending.head, led.pending.total>>)
  BY DEF _verify_files
<1> HIDE DEF at, r
<1> QED
  BY <1>4, <1>8, <1>9, <1>11, <1>12, <1>13

\* An append finds the same in the last line alone.
LEMMA TailIs ==
  ASSUME NEW G \in Seq(Rec), Chain(G), NEW l \in LogFile, Holding(l, G),
         NEW led \in Ledger, Accounts(G, led), l.count <= led.total
  PROVE  /\ Tip(l.head, l.recs) = N(G, Len(G))
         /\ _tail(l, led) <=> /\ ~l.blank /\ l.count = Archived(led.segs)
                              /\ \/ Len(G) = led.total
                                 \/ led.pending # NoPending /\ Len(G) = led.pending.total
         /\ _tail(l, led) => TailTotal(l, led) = Len(G)
         /\ led.pending # NoPending =>
              (Tip(l.head, l.recs) = led.pending.head <=> Len(G) = led.pending.total)
<1>1. l.count \in Nat /\ Len(G) \in Nat /\ Len(G) \in l.count..Len(G) /\ l.recs = Slice(G, l.count, Len(G))
      /\ l.head = N(G, l.count)
  BY DEF Holding
<1>2. Tip(l.head, l.recs) = N(G, Len(G))
  BY <1>1, TipOfSlice
<1>3. led.total \in Nat /\ led.total <= Len(G) /\ led.head = N(G, led.total) /\ led.pending.total \in Nat
  BY LedgerParts DEF Accounts
<1>4. N(G, Len(G)) = led.head <=> Len(G) = led.total
  <2>1. led.total \in 0..Len(G) /\ Len(G) \in 0..Len(G)
    BY <1>1, <1>3
  <2> QED
    BY <1>3, <2>1, NumbersGrow
<1>5. led.pending # NoPending =>
        /\ N(G, Len(G)) = led.pending.head <=> Len(G) = led.pending.total
        /\ led.total < led.pending.total
  <2>1. Len(G) \in led.total..Len(G)
    BY <1>1, <1>3
  <2> QED
    BY <2>1, PendingTip
<1>6. (l.recs = <<>>) <=> (l.count = Len(G))
  BY <1>1, SliceEmpty
<1>7. led.pending # NoPending /\ Len(G) = led.pending.total => l.recs # <<>>
  BY <1>1, <1>3, <1>5, <1>6
<1>8. Len(G) = led.total => (l.recs = <<>> => led.total = l.count)
  BY <1>6
<1>9. _tail(l, led) <=> /\ ~l.blank /\ l.count = Archived(led.segs)
                        /\ \/ Len(G) = led.total
                           \/ led.pending # NoPending /\ Len(G) = led.pending.total
  BY <1>2, <1>4, <1>5, <1>7, <1>8 DEF _tail
<1>10. _tail(l, led) => TailTotal(l, led) = Len(G)
  BY <1>2, <1>4, <1>9 DEF TailTotal
<1> QED
  BY <1>2, <1>5, <1>9, <1>10

\* The lines behind the committed ones are what repair finds after them.
LEMMA AfterIs ==
  ASSUME NEW G \in Seq(Rec), Chain(G), NEW l \in LogFile, Holding(l, G),
         NEW led \in Ledger, Accounts(G, led), l.count <= led.total
  PROVE  /\ After(l, led) = Slice(G, led.total, Len(G))
         /\ Len(After(l, led)) = Len(G) - led.total
         /\ (After(l, led) = <<>>) <=> (Len(G) = led.total)
<1>1. l.count \in Nat /\ Len(G) \in Nat /\ Len(G) \in l.count..Len(G) /\ l.recs = Slice(G, l.count, Len(G))
  BY DEF Holding
<1>2. led.total \in Nat /\ led.total <= Len(G) /\ led.head = N(G, led.total) /\ Len(G) \in led.total..Len(G)
  BY LedgerParts, <1>1 DEF Accounts
<1> DEFINE next == {i \in DOMAIN l.recs : l.recs[i].prev = led.head}
           k == led.total - l.count
<1>3. Len(l.recs) = Len(G) - l.count /\ \A i \in 1..(Len(G) - l.count) : l.recs[i] = G[l.count + i]
  <2>1. /\ Len(Slice(G, l.count, Len(G))) = Len(G) - l.count
        /\ \A i \in 1..(Len(G) - l.count) : Slice(G, l.count, Len(G))[i] = G[l.count + i]
    BY <1>1, SliceIs, ZenonT(30)
  <2> QED
    BY <1>1, <2>1
<1>4. \A i \in 1..(Len(G) - l.count) : l.recs[i].prev = led.head <=> i = k + 1
  <2> TAKE i \in 1..(Len(G) - l.count)
  <2>1. l.count + i \in 1..Len(G) /\ (l.count + i) - 1 \in 0..Len(G) /\ led.total \in 0..Len(G)
    BY <1>1, <1>2
  <2>2. l.recs[i].prev = N(G, (l.count + i) - 1)
    BY <1>3, <2>1 DEF Chain
  <2>3. l.recs[i].prev = led.head <=> (l.count + i) - 1 = led.total
    BY <1>2, <2>1, <2>2, NumbersGrow
  <2> QED
    BY <1>1, <1>2, <2>3
<1>5. DOMAIN l.recs = 1..(Len(G) - l.count)
  <2>1. l.recs \in Seq(Rec)
    BY DEF LogFile
  <2> QED
    BY <1>3, <2>1
<1>6. After(l, led) = IF next = {} THEN <<>> ELSE Drop(l.recs, Min(next) - 1)
  BY DEF After
<1>7. (Slice(G, led.total, Len(G)) = <<>>) <=> (Len(G) = led.total)
  BY <1>2, SliceEmpty
<1>8. Len(Slice(G, led.total, Len(G))) = Len(G) - led.total
  BY <1>2, SliceIs
<1>9. CASE Len(G) = led.total
  <2>1. next = {}
    <3>1. \A i \in 1..(Len(G) - l.count) : i # k + 1
      BY <1>9, <1>1, <1>2
    <3> QED
      BY <1>4, <1>5, <3>1
  <2> QED
    BY <1>6, <1>7, <1>8, <1>9, <2>1
<1>10. CASE Len(G) # led.total
  <2>1. k + 1 \in 1..(Len(G) - l.count)
    BY <1>10, <1>1, <1>2
  <2>2. next = {k + 1}
    BY <1>4, <1>5, <2>1
  <2>3. Min({k + 1}) = k + 1
    <3>1. k + 1 \in Int
      BY <2>1
    <3> HIDE DEF k
    <3> QED
      BY <3>1 DEF Min
  <2>4. Min(next) - 1 = k
    <3>1. k \in Int
      BY <1>1, <1>2
    <3> HIDE DEF k, next
    <3> QED
      BY <2>2, <2>3, <3>1
  <2>5. After(l, led) = Drop(l.recs, k)
    <3> HIDE DEF next, k
    <3>1. next # {}
      BY <2>2
    <3> QED
      BY <1>6, <2>4, <3>1
  <2>6. Drop(l.recs, k) = Slice(G, l.count + k, Len(G))
    <3>1. k \in 0..(Len(G) - l.count)
      BY <2>1, <1>1, <1>2
    <3> HIDE DEF k
    <3> QED
      BY <3>1, <1>1, DropOfSlice
  <2>7. l.count + k = led.total
    BY <1>1, <1>2
  <2>8. After(l, led) = Slice(G, led.total, Len(G))
    <3> HIDE DEF k, next
    <3> QED
      BY <2>5, <2>6, <2>7
  <2> QED
    BY <2>8, <1>7, <1>8
<1> QED
  BY <1>9, <1>10

\* The log file without n more of its records, for the lines that are read.
LEMMA ReanchoredIs ==
  ASSUME NEW G \in Seq(Rec), NEW l \in LogFile, Holding(l, G),
         NEW n \in 1..(ReachOf(l, G) - l.count)
  PROVE  /\ Reanchored(l, n) \in LogFile
         /\ Reanchored(l, n).count = l.count + n /\ Reanchored(l, n).head = N(G, l.count + n)
         /\ Reanchored(l, n).recs = Slice(G, l.count + n, ReachOf(l, G))
         /\ Reanchored(l, n).tail = "clean" /\ Reanchored(l, n).blank = FALSE
         /\ l.count + n \in 1..ReachOf(l, G)
<1> DEFINE r == ReachOf(l, G)
<1>1. /\ r \in l.count..Len(G) /\ r \in Nat /\ l.count \in Nat
      /\ _parse(l) = Slice(G, l.count, r) /\ Len(_parse(l)) = r - l.count
  BY ParseIs
<1> HIDE DEF r
<1>2. l.count + n \in 1..r /\ n \in 0..(r - l.count) /\ n \in 1..(r - l.count) /\ l.count + n \in 1..Len(G)
      /\ l.count + n \in Nat /\ r \in (l.count + n)..Len(G)
  BY <1>1 DEF r
<1>3. _parse(l)[n].n = N(G, l.count + n)
  <2>1. Slice(G, l.count, r)[n] = G[l.count + n]
    BY <1>1, <1>2, SliceIs
  <2> QED
    BY <1>1, <1>2, <2>1 DEF N
<1>4. Drop(_parse(l), n) = Slice(G, l.count + n, r)
  BY <1>1, <1>2, DropOfSlice
<1>5. N(G, l.count + n) \in Nat
  BY <1>2, LineIsRec
<1>6. Slice(G, l.count + n, r) \in Seq(Rec)
  BY <1>2, SliceIs
<1>7. Reanchored(l, n) \in LogFile
  BY <1>2, <1>3, <1>4, <1>5, <1>6 DEF Reanchored, EmptyLog, LogFile
<1>8. /\ Reanchored(l, n).count = l.count + n /\ Reanchored(l, n).head = N(G, l.count + n)
      /\ Reanchored(l, n).recs = Slice(G, l.count + n, r)
      /\ Reanchored(l, n).tail = "clean" /\ Reanchored(l, n).blank = FALSE
  BY <1>3, <1>4 DEF Reanchored, EmptyLog
<1> QED
  BY <1>2, <1>7, <1>8 DEF r

\* The first e lines are a chain, and hold what a ledger of them needs.
LEMMA PrefixStory ==
  ASSUME NEW G \in Seq(Rec), Chain(G), NEW e \in 0..Len(G), NEW H, H = Slice(G, 0, e)
  PROVE  /\ H \in Seq(Rec) /\ Len(H) = e /\ Chain(H)
         /\ \A i \in 1..e : H[i] = G[i]
         /\ \A i \in 0..e : N(H, i) = N(G, i)
         /\ \A a \in 0..e : \A b \in a..e : Slice(H, a, b) = Slice(G, a, b)
         /\ \A led \in Ledger : Accounts(G, led) /\ led.total <= e => Accounts(H, led)
<1>1. H \in Seq(Rec) /\ Len(H) = e /\ \A i \in 1..e : H[i] = G[i]
  BY PrefixIs
<1>2. \A i \in 0..e : N(H, i) = N(G, i)
  BY <1>1 DEF N
<1>3. Chain(H)
  <2>1. ASSUME NEW i \in 1..e PROVE H[i].prev = N(H, i - 1)
    <3>1. i \in 1..Len(G) /\ i - 1 \in 0..e
      OBVIOUS
    <3> QED
      BY <3>1, <1>1, <1>2 DEF Chain
  <2>2. ASSUME NEW i \in 0..e, NEW j \in 0..e, i < j PROVE N(H, i) < N(H, j)
    <3>1. i \in 0..Len(G) /\ j \in 0..Len(G)
      OBVIOUS
    <3> QED
      BY <2>2, <3>1, <1>2 DEF Chain
  <2> QED
    BY <1>1, <2>1, <2>2 DEF Chain
<1>4. \A a \in 0..e : \A b \in a..e : Slice(H, a, b) = Slice(G, a, b)
  <2> TAKE a \in 0..e
  <2> TAKE b \in a..e
  <2>1. a \in Nat
    OBVIOUS
  <2> QED
    BY <2>1, SliceOfSlice
<1>5. ASSUME NEW led \in Ledger, Accounts(G, led), led.total <= e PROVE Accounts(H, led)
  <2>1. /\ led.total \in Nat /\ led.total \in 0..e /\ Archived(led.segs) \in 0..e
        /\ led.pending.total \in Nat
    BY <1>5, LedgerParts
  <2>2. led.head = N(H, led.total)
    BY <1>5, <1>2, <2>1 DEF Accounts
  <2>3. led.pending = NoPending => Len(H) <= led.total + 1
    BY <1>5, <1>1, <2>1 DEF Accounts
  <2>4. ASSUME led.pending # NoPending PROVE Announced(H, led)
    <3>1. Announced(G, led)
      BY <1>5, <2>4 DEF Accounts
    <3>2. Len(H) <= led.pending.total
      BY <3>1, <1>1, <2>1 DEF Announced
    <3>3. ASSUME NEW j \in 1..(Len(H) - led.total) PROVE H[led.total + j] = G[led.total + j] /\ j \in 1..(Len(G) - led.total)
      BY <1>1, <2>1
    <3> QED
      BY <3>1, <3>2, <3>3 DEF Announced
  <2>5. led.segs # <<>> => /\ Last(led.segs).count > 0
                           /\ Last(led.segs).head = N(H, Archived(led.segs))
    BY <1>5, <1>2, <2>1 DEF Accounts
  <2>6. led.total \in 0..Len(H) /\ Archived(led.segs) \in 0..led.total
    BY <1>5, <1>1, <2>1 DEF Accounts
  <2> QED
    BY <2>2, <2>3, <2>4, <2>5, <2>6 DEF Accounts
<1> QED
  BY <1>1, <1>2, <1>3, <1>4, <1>5

LEMMA SliceAppend ==
  ASSUME NEW S, NEW s \in Seq(S), NEW k \in 1..Len(s)
  PROVE  Append(Slice(s, 0, k - 1), s[k]) = Slice(s, 0, k)
<1>1. k - 1 \in 0..Len(s) /\ k \in 0..Len(s) /\ s[k] \in S
  BY ElementOfSeq
<1>2. /\ Slice(s, 0, k - 1) \in Seq(S) /\ Len(Slice(s, 0, k - 1)) = k - 1
      /\ \A i \in 1..(k - 1) : Slice(s, 0, k - 1)[i] = s[i]
  BY <1>1, PrefixIs
<1>3. /\ Slice(s, 0, k) \in Seq(S) /\ Len(Slice(s, 0, k)) = k
      /\ \A i \in 1..k : Slice(s, 0, k)[i] = s[i]
  BY <1>1, PrefixIs
<1> DEFINE t == Append(Slice(s, 0, k - 1), s[k])
<1>4. /\ t \in Seq(S) /\ Len(t) = (k - 1) + 1 /\ t[(k - 1) + 1] = s[k]
      /\ \A i \in 1..(k - 1) : t[i] = Slice(s, 0, k - 1)[i]
  BY <1>1, <1>2, AppendProperties
<1> HIDE DEF t
<1>5. Len(t) = k /\ \A i \in 1..k : t[i] = s[i]
  BY <1>2, <1>4
<1>6. t = Slice(s, 0, k)
  BY <1>3, <1>4, <1>5, SliceEqual
<1> QED
  BY <1>6 DEF t

LEMMA EndIs ==
  ASSUME LogTypes, NEW G \in Seq(Rec), Lines(G), Accounts(G, ledger)
  PROVE  /\ ledger.total \in 0..Reach(G) /\ ledger.total \in Nat /\ Reach(G) \in live.count..Len(G)
         /\ End(G, ledger) \in ledger.total..Reach(G) /\ Firm(G) \in ledger.total..End(G, ledger)
         /\ Len(G) \in Nat /\ live.count \in Nat /\ Reach(G) \in Nat /\ End(G, ledger) \in Nat
         /\ live.tail # "whole" => Reach(G) = Len(G)
<1>1. live \in LogFile /\ ledger \in Ledger /\ Holding(live, G)
  BY DEF LogTypes, Lines
<1>2. /\ Reach(G) \in live.count..Len(G) /\ Reach(G) \in Nat /\ live.count \in Nat
      /\ live.tail # "whole" => Reach(G) = Len(G)
      /\ live.tail = "whole" => Reach(G) = Len(G) - 1
  BY <1>1, ParseIs DEF Reach
<1>3. ledger.total \in Nat /\ ledger.total <= Len(G) /\ ledger.pending.total \in Nat
  BY <1>1, LedgerParts
<1>4. ledger.total <= Reach(G)
  <2>1. live.tail = "whole" => ledger.total < Len(G)
    BY DEF Lines
  <2>2. Len(G) \in Nat
    OBVIOUS
  <2> QED
    BY <1>2, <1>3, <2>1, <2>2
<1>5. End(G, ledger) \in ledger.total..Reach(G)
  <2>1. CASE WholeOf(live, G, ledger)
    <3>1. Reach(G) = ledger.pending.total /\ ledger.pending # NoPending
      BY <2>1 DEF WholeOf, Reach
    <3>2. End(G, ledger) = ledger.pending.total
      BY <2>1 DEF End
    <3> QED
      BY <1>2, <1>3, <1>4, <3>1, <3>2
  <2>2. CASE ~WholeOf(live, G, ledger)
    <3>1. End(G, ledger) = ledger.total
      BY <2>2 DEF End
    <3> QED
      BY <1>2, <1>3, <1>4, <3>1
  <2> QED
    BY <2>1, <2>2
<1>6. Firm(G) \in ledger.total..End(G, ledger)
  <2>1. ledger.total \in ledger.total..End(G, ledger) /\ End(G, ledger) \in ledger.total..End(G, ledger)
    BY <1>2, <1>3, <1>5
  <2> QED
    BY <2>1 DEF Firm
<1> QED
  BY <1>2, <1>3, <1>4, <1>5, <1>6

\* The walk back from the live anchor finds all archived lines.
LEMMA PastIs ==
  ASSUME LogTypes, NEW G \in Seq(Rec), Lines(G), Accounts(G, ledger), Files(G)
  PROVE  PastRecords = Slice(G, 0, live.count)
<1> DEFINE recs == UNION {ToSet(file[s].recs) : s \in Name}
           Covered(k) == \E s \in Name : Holds(s, k)
           Def(f) == f = [h \in 0..MaxMade |->
                            IF \E r \in recs : r.n = h
                            THEN LET r == CHOOSE r \in recs : r.n = h IN Append(f[r.prev], r)
                            ELSE <<>>]
           P == CHOOSE f : Def(f)
<1>0. /\ Chain(G) /\ Len(G) \in Nat /\ live.count \in 0..Len(G) /\ live.head = N(G, live.count)
      /\ Firm(G) \in Nat /\ Firm(G) <= Len(G) /\ MaxMade \in Nat
  <2>1. Chain(G) /\ Len(G) \in Nat /\ live.count \in 0..Len(G) /\ live.head = N(G, live.count)
    BY DEF Lines, Holding
  <2>2. Firm(G) \in Nat /\ Firm(G) <= Len(G)
    BY EndIs
  <2>3. MaxMade \in Nat
    BY ChainLogAssumption
  <2> QED
    BY <2>1, <2>2, <2>3
<1>1. \A k \in 0..Len(G) : N(G, k) \in 0..MaxMade
  <2> TAKE k \in 0..Len(G)
  <2>1. made \in 0..MaxMade
    BY DEF LogTypes
  <2>2. CASE k = 0
    BY <2>2, <1>0 DEF N, GENESIS
  <2>3. CASE k # 0
    <3>1. k \in 1..Len(G)
      BY <2>3
    <3>2. G[k].n <= made /\ N(G, k) = G[k].n /\ G[k].n \in Nat
      BY <3>1, LineIsRec DEF Lines
    <3> QED
      BY <2>1, <3>2, <1>0
  <2> QED
    BY <2>2, <2>3
<1>2. \A s \in Name : file[s] # NoFile =>
        /\ file[s].count \in 0..live.count /\ file[s].count \in Nat /\ Len(file[s].recs) \in Nat
        /\ file[s].count + Len(file[s].recs) <= Len(G)
        /\ \A i \in 1..Len(file[s].recs) : file[s].recs[i] = G[file[s].count + i]
  <2> TAKE s \in Name
  <2> HAVE file[s] # NoFile
  <2> DEFINE c == file[s].count
             m == Len(file[s].recs)
  <2>1. /\ c \in 0..live.count /\ c + m <= Firm(G) /\ file[s].recs = Slice(G, c, c + m)
    BY DEF Files
  <2>2. file[s].recs \in Seq(Rec)
    BY DEF LogTypes, SegmentFile
  <2>3. m \in Nat /\ c \in Nat
    BY <2>1, <2>2, <1>0
  <2> HIDE DEF c, m
  <2>4. c + m <= Len(G) /\ c + m \in c..Len(G) /\ (c + m) - c = m
    BY <2>1, <2>3, <1>0
  <2>5. \A i \in 1..((c + m) - c) : Slice(G, c, c + m)[i] = G[c + i]
    BY <2>3, <2>4, SliceIs
  <2>6. \A i \in 1..m : file[s].recs[i] = G[c + i]
    BY <2>1, <2>4, <2>5
  <2> QED
    BY <2>1, <2>3, <2>4, <2>6 DEF c, m
<1>3. \A r \in recs : \E k \in 1..Len(G) : Covered(k) /\ r = G[k]
  <2> TAKE r \in recs
  <2>1. PICK s \in Name : r \in ToSet(file[s].recs)
    OBVIOUS
  <2>2. PICK i \in DOMAIN file[s].recs : r = file[s].recs[i]
    BY <2>1 DEF ToSet
  <2>3. file[s].recs \in Seq(Rec)
    BY DEF LogTypes, SegmentFile
  <2>4. file[s] # NoFile
    BY <2>2 DEF NoFile
  <2>5. i \in 1..Len(file[s].recs)
    BY <2>2, <2>3
  <2>6. /\ file[s].count \in Nat /\ Len(file[s].recs) \in Nat
        /\ file[s].count + Len(file[s].recs) <= Len(G) /\ file[s].recs[i] = G[file[s].count + i]
    BY <1>2, <2>4, <2>5
  <2>7. Holds(s, file[s].count + i) /\ file[s].count + i \in 1..Len(G)
    <3>1. /\ file[s].count < file[s].count + i /\ file[s].count + i <= file[s].count + Len(file[s].recs)
          /\ file[s].count + i \in 1..Len(G)
      <4>1. PICK c, m : c = file[s].count /\ m = Len(file[s].recs)
        OBVIOUS
      <4>2. c \in Nat /\ m \in Nat /\ c + m <= Len(G) /\ i \in 1..m
        BY <2>5, <2>6, <4>1
      <4>3. c < c + i /\ c + i <= c + m /\ c + i \in 1..Len(G)
        BY <4>2
      <4> QED
        BY <4>1, <4>3
    <3> QED
      BY <2>4, <3>1 DEF Holds
  <2> QED
    BY <2>2, <2>6, <2>7
<1>4. \A k \in 1..Len(G) : Covered(k) => G[k] \in recs
  <2> TAKE k \in 1..Len(G)
  <2> HAVE Covered(k)
  <2>1. PICK s \in Name : Holds(s, k)
    OBVIOUS
  <2>2. /\ file[s] # NoFile /\ file[s].count < k /\ k <= file[s].count + Len(file[s].recs)
    BY <2>1 DEF Holds
  <2>3. /\ file[s].count \in Nat /\ Len(file[s].recs) \in Nat
        /\ \A i \in 1..Len(file[s].recs) : file[s].recs[i] = G[file[s].count + i]
    BY <1>2, <2>2
  <2>4. k - file[s].count \in 1..Len(file[s].recs) /\ file[s].count + (k - file[s].count) = k
    BY <2>2, <2>3
  <2>5. file[s].recs[k - file[s].count] = G[k]
    BY <2>3, <2>4
  <2>6. file[s].recs \in Seq(Rec)
    BY DEF LogTypes, SegmentFile
  <2>7. k - file[s].count \in DOMAIN file[s].recs
    BY <2>4, <2>6
  <2>8. G[k] \in ToSet(file[s].recs)
    BY <2>5, <2>7 DEF ToSet
  <2> QED
    BY <2>8
<1>5. \A k \in 1..Len(G), j \in 1..Len(G) : Covered(k) /\ j <= k => Covered(j)
  <2> TAKE k \in 1..Len(G), j \in 1..Len(G)
  <2> HAVE Covered(k) /\ j <= k
  <2>1. CASE j <= live.count
    <3>1. j \in 1..live.count
      BY <2>1, <1>0
    <3> QED
      BY <3>1 DEF Files
  <2>2. CASE ~(j <= live.count)
    <3>1. PICK s \in Name : Holds(s, k)
      OBVIOUS
    <3>2. /\ file[s] # NoFile /\ file[s].count < k /\ k <= file[s].count + Len(file[s].recs)
      BY <3>1 DEF Holds
    <3>3. file[s].count \in 0..live.count /\ file[s].count \in Nat /\ Len(file[s].recs) \in Nat
      BY <1>2, <3>2
    <3>4. file[s].count < j /\ j <= file[s].count + Len(file[s].recs)
      BY <2>2, <3>2, <3>3, <1>0
    <3>5. Holds(s, j)
      BY <3>2, <3>4 DEF Holds
    <3> QED
      BY <3>5
  <2> QED
    BY <2>1, <2>2
<1>6. \A k \in 1..live.count : Covered(k)
  BY DEF Files
<1> HIDE DEF recs, Covered
<1>7. \A k \in 1..Len(G) : Covered(k) =>
        /\ \E r \in recs : r.n = N(G, k)
        /\ (CHOOSE r \in recs : r.n = N(G, k)) = G[k]
        /\ G[k].prev = N(G, k - 1)
  <2> TAKE k \in 1..Len(G)
  <2> HAVE Covered(k)
  <2>1. G[k] \in recs /\ G[k].n = N(G, k) /\ k \in 0..Len(G)
    BY <1>4, LineIsRec
  <2>2. \A r \in recs : r.n = N(G, k) => r = G[k]
    <3> TAKE r \in recs
    <3> HAVE r.n = N(G, k)
    <3>1. PICK j \in 1..Len(G) : r = G[j]
      BY <1>3
    <3>2. N(G, j) = N(G, k) /\ j \in 0..Len(G)
      BY <3>1, LineIsRec
    <3>3. j = k
      BY <2>1, <3>2, <1>0, NumbersGrow
    <3> QED
      BY <3>1, <3>3
  <2>3. (CHOOSE r \in recs : r.n = N(G, k)) = G[k]
    BY <2>1, <2>2
  <2>4. G[k].prev = N(G, k - 1)
    BY <1>0 DEF Chain
  <2> QED
    BY <2>1, <2>3, <2>4
<1>8. ~\E r \in recs : r.n = N(G, 0)
  <2> SUFFICES ASSUME NEW r \in recs, r.n = N(G, 0) PROVE FALSE
    OBVIOUS
  <2>1. PICK j \in 1..Len(G) : r = G[j]
    BY <1>3
  <2>2. N(G, j) = N(G, 0) /\ j \in 0..Len(G) /\ 0 \in 0..Len(G) /\ j # 0
    BY <2>1, LineIsRec, <1>0
  <2>3. j = 0
    BY <2>2, <1>0, NumbersGrow
  <2> QED
    BY <2>2, <2>3
\* What a solution of the recursive definition does along the chain.
<1>9. ASSUME NEW f, Def(f)
      PROVE  /\ f[N(G, 0)] = <<>>
             /\ \A k \in 1..Len(G) : Covered(k) => f[N(G, k)] = Append(f[N(G, k - 1)], G[k])
  <2>1. \A h \in 0..MaxMade : f[h] = IF \E r \in recs : r.n = h
                                     THEN LET r == CHOOSE r \in recs : r.n = h IN Append(f[r.prev], r)
                                     ELSE <<>>
    BY <1>9
  <2>2. f[N(G, 0)] = <<>>
    <3>1. N(G, 0) \in 0..MaxMade
      BY <1>0, <1>1
    <3> QED
      BY <2>1, <3>1, <1>8
  <2>3. ASSUME NEW k \in 1..Len(G), Covered(k) PROVE f[N(G, k)] = Append(f[N(G, k - 1)], G[k])
    <3>1. N(G, k) \in 0..MaxMade
      BY <1>1
    <3>2. f[N(G, k)] = LET r == CHOOSE r \in recs : r.n = N(G, k) IN Append(f[r.prev], r)
      BY <2>1, <2>3, <3>1, <1>7
    <3> QED
      BY <2>3, <3>2, <1>7
  <2> QED
    BY <2>2, <2>3
<1> DEFINE Level(h, k) == k \in 0..Len(G) /\ (k = 0 \/ Covered(k)) /\ N(G, k) = h
           g == [h \in 0..MaxMade |-> IF \E k : Level(h, k) THEN Slice(G, 0, CHOOSE k : Level(h, k)) ELSE <<>>]
<1>10. \A k \in 0..Len(G) : k = 0 \/ Covered(k) => g[N(G, k)] = Slice(G, 0, k)
  <2> TAKE k \in 0..Len(G)
  <2> HAVE k = 0 \/ Covered(k)
  <2>1. Level(N(G, k), k)
    OBVIOUS
  <2>2. \A j : Level(N(G, k), j) => j = k
    <3> TAKE j
    <3> HAVE Level(N(G, k), j)
    <3>1. j \in 0..Len(G) /\ N(G, j) = N(G, k)
      OBVIOUS
    <3> QED
      BY <3>1, <1>0, NumbersGrow
  <2>3. N(G, k) \in 0..MaxMade
    BY <1>1
  <2> HIDE DEF Level
  <2>4. (CHOOSE j : Level(N(G, k), j)) = k
    BY <2>1, <2>2
  <2> QED
    BY <2>1, <2>3, <2>4
<1>11. ASSUME NEW h \in 0..MaxMade
       PROVE  g[h] = IF \E r \in recs : r.n = h
                     THEN LET r == CHOOSE r \in recs : r.n = h IN Append(g[r.prev], r)
                     ELSE <<>>
  <2>1. CASE \E r \in recs : r.n = h
    <3>1. PICK k \in 1..Len(G) : Covered(k) /\ G[k].n = h
      BY <2>1, <1>3
    <3>2. N(G, k) = h /\ k \in 0..Len(G) /\ k - 1 \in 0..Len(G)
      BY <3>1, LineIsRec
    <3>3. k - 1 = 0 \/ Covered(k - 1)
      <4>1. k - 1 = 0 \/ (k - 1 \in 1..Len(G) /\ k - 1 <= k)
        BY <3>2
      <4> QED
        BY <3>1, <4>1, <1>5
    <3> HIDE DEF g
    <3>4. g[h] = Slice(G, 0, k) /\ g[N(G, k - 1)] = Slice(G, 0, k - 1)
      BY <3>1, <3>2, <3>3, <1>10
    <3>5. (CHOOSE r \in recs : r.n = h) = G[k] /\ G[k].prev = N(G, k - 1)
      BY <3>1, <3>2, <1>7
    <3>6. Append(Slice(G, 0, k - 1), G[k]) = Slice(G, 0, k)
      BY SliceAppend
    <3> QED
      BY <2>1, <3>4, <3>5, <3>6
  <2>2. CASE ~\E r \in recs : r.n = h
    <3>1. ASSUME NEW k, Level(h, k) PROVE Slice(G, 0, k) = <<>>
      <4>1. k = 0
        <5> SUFFICES ASSUME k # 0 PROVE FALSE
          OBVIOUS
        <5>1. k \in 1..Len(G) /\ Covered(k) /\ N(G, k) = h
          BY <3>1
        <5> QED
          BY <5>1, <2>2, <1>7
      <4> QED
        BY <4>1, <1>0, SliceEmpty
    <3>2. CASE \E k : Level(h, k)
      <4> HIDE DEF Level
      <4>1. Level(h, CHOOSE k : Level(h, k))
        BY <3>2
      <4>2. g[h] = Slice(G, 0, CHOOSE k : Level(h, k))
        BY <3>2
      <4> QED
        BY <2>2, <3>1, <4>1, <4>2
    <3>3. CASE ~\E k : Level(h, k)
      <4> HIDE DEF Level
      <4> QED
        BY <2>2, <3>3
    <3> QED
      BY <3>2, <3>3
  <2> QED
    BY <2>1, <2>2
<1>12. Def(g)
  <2> DEFINE rhs == [h \in 0..MaxMade |->
                      IF \E r \in recs : r.n = h
                      THEN LET r == CHOOSE r \in recs : r.n = h IN Append(g[r.prev], r)
                      ELSE <<>>]
  <2>1. DOMAIN g = 0..MaxMade
    OBVIOUS
  <2>2. g = [h \in 0..MaxMade |-> g[h]]
    OBVIOUS
  <2> HIDE DEF g
  <2> QED
    BY <2>2, <1>11
<1>13. Def(P)
  <2> HIDE DEF Def, g
  <2> QED
    BY <1>12
<1>14. PastRecords = P[live.head]
  BY DEF PastRecords, recs
<1>15. /\ P[N(G, 0)] = <<>>
       /\ \A k \in 1..Len(G) : Covered(k) => P[N(G, k)] = Append(P[N(G, k - 1)], G[k])
  <2> HIDE DEF Def, P
  <2> QED
    BY <1>9, <1>13
<1> HIDE DEF P, Def
<1> DEFINE Off == {k \in 0..live.count : P[N(G, k)] # Slice(G, 0, k)}
<1>16. Off = {}
  <2> SUFFICES ASSUME Off # {} PROVE FALSE
    OBVIOUS
  <2>1. PICK n \in Off : \A k \in Off : n <= k
    <3>1. Off \in SUBSET Nat
      BY <1>0
    <3> HIDE DEF Off
    <3> QED
      BY <3>1, LeastNatural
  <2>2. n # 0
    <3>1. Slice(G, 0, 0) = <<>>
      BY <1>0, SliceEmpty
    <3> QED
      BY <2>1, <3>1, <1>15
  <2>3. n - 1 \in 0..live.count /\ n \in 1..live.count /\ n - 1 \notin Off
    <3>1. n - 1 \in 0..live.count /\ n \in 1..live.count /\ ~(n <= n - 1)
      BY <2>1, <2>2, <1>0
    <3> HIDE DEF Off
    <3> QED
      BY <3>1, <2>1
  <2>4. P[N(G, n - 1)] = Slice(G, 0, n - 1)
    BY <2>3
  <2>5. n \in 1..Len(G)
    BY <2>3, <1>0
  <2>6. P[N(G, n)] = Append(P[N(G, n - 1)], G[n])
    BY <2>3, <2>5, <1>6, <1>15
  <2>7. P[N(G, n)] = Slice(G, 0, n)
    BY <2>4, <2>5, <2>6, SliceAppend
  <2> QED
    BY <2>1, <2>7
<1>17. live.count \in 0..live.count
  BY <1>0
<1> QED
  BY <1>0, <1>14, <1>16, <1>17

LEMMA LogIs ==
  ASSUME LogTypes, NEW G \in Seq(Rec), LogStory(G)
  PROVE  /\ PastRecords \o live.recs = G
         /\ Log = Slice(G, 0, End(G, ledger)) /\ Len(Log) = End(G, ledger)
         /\ Sure = Firm(G)
<1>1. /\ live \in LogFile /\ ledger \in Ledger /\ Chain(G) /\ Holding(live, G)
      /\ Lines(G) /\ Accounts(G, ledger) /\ Files(G)
  BY DEF LogTypes, LogStory, Lines, Books
<1>2. PastRecords = Slice(G, 0, live.count)
  BY <1>1, PastIs
<1>3. /\ ledger.total \in 0..Reach(G) /\ ledger.total \in Nat /\ Reach(G) \in live.count..Len(G)
      /\ End(G, ledger) \in ledger.total..Reach(G) /\ End(G, ledger) \in Nat
      /\ Len(G) \in Nat /\ live.count \in Nat /\ Reach(G) \in Nat
  BY <1>1, EndIs
<1>4. Slice(G, 0, Len(G)) = G
  BY SubSeqFull DEF Slice
<1>5. PastRecords \o live.recs = G
  <2>1. live.recs = Slice(G, live.count, Len(G))
    BY <1>1 DEF Holding
  <2>2. 0 \in Nat /\ Len(G) \in 0..Len(G) /\ live.count \in 0..Len(G)
    BY <1>3
  <2>3. Slice(G, 0, live.count) \o Slice(G, live.count, Len(G)) = Slice(G, 0, Len(G))
    BY <2>2, SlicesJoin
  <2> QED
    BY <1>2, <1>4, <2>1, <2>3
<1> DEFINE all == PastRecords \o _parse(live)
<1>6. all = Slice(G, 0, Reach(G))
  <2>1. _parse(live) = Slice(G, live.count, Reach(G))
    BY <1>1, ParseIs DEF Reach
  <2>2. 0 \in Nat /\ Reach(G) \in 0..Len(G) /\ live.count \in 0..Reach(G)
    BY <1>3
  <2>3. Slice(G, 0, live.count) \o Slice(G, live.count, Reach(G)) = Slice(G, 0, Reach(G))
    BY <2>2, SlicesJoin
  <2> QED
    BY <1>2, <2>1, <2>3
<1>7. Len(all) = Reach(G)
  <2>1. Reach(G) \in 0..Len(G)
    BY <1>3
  <2> QED
    BY <1>6, <2>1, PrefixIs
<1>8. Tip(live.head, _parse(live)) = N(G, Reach(G))
  <2>1. _parse(live) = Slice(G, live.count, Reach(G)) /\ live.head = N(G, live.count)
    BY <1>1, ParseIs DEF Reach, Holding
  <2> QED
    BY <1>3, <2>1, TipOfSlice
<1>9. /\ ledger.pending # NoPending /\ Len(all) = ledger.pending.total
      /\ Tip(live.head, _parse(live)) = ledger.pending.head
      <=> WholeOf(live, G, ledger)
  <2>1. ASSUME ledger.pending # NoPending
        PROVE  N(G, Reach(G)) = ledger.pending.head <=> Reach(G) = ledger.pending.total
    <3>1. Reach(G) \in ledger.total..Len(G)
      BY <1>3
    <3> QED
      BY <1>1, <2>1, <3>1, PendingTip
  <2>2. WholeOf(live, G, ledger) <=> ledger.pending # NoPending /\ Reach(G) = ledger.pending.total
    BY DEF WholeOf, Reach
  <2> HIDE DEF all
  <2> QED
    BY <1>7, <1>8, <2>1, <2>2
<1>10. Log = IF WholeOf(live, G, ledger) THEN all ELSE Take(all, ledger.total)
  <2>1. Log = IF /\ ledger.pending # NoPending /\ Len(all) = ledger.pending.total
                 /\ Tip(live.head, _parse(live)) = ledger.pending.head
              THEN all ELSE Take(all, ledger.total)
    BY DEF Log
  <2> HIDE DEF all
  <2> QED
    BY <1>9, <2>1
<1>11. Take(all, ledger.total) = Slice(G, 0, ledger.total)
  <2>1. 0 \in Nat /\ Reach(G) \in 0..Len(G) /\ ledger.total <= Reach(G) - 0 /\ 0 + ledger.total = ledger.total
    BY <1>3
  <2>2. Take(Slice(G, 0, Reach(G)), ledger.total) = Slice(G, 0, 0 + ledger.total)
    BY <1>3, <2>1, TakeOfSlice
  <2> QED
    BY <1>6, <2>1, <2>2
<1>12. Log = Slice(G, 0, End(G, ledger))
  <2>1. CASE WholeOf(live, G, ledger)
    <3>1. End(G, ledger) = Reach(G)
      BY <2>1 DEF End, WholeOf, Reach
    <3> HIDE DEF all
    <3> QED
      BY <2>1, <3>1, <1>6, <1>10
  <2>2. CASE ~WholeOf(live, G, ledger)
    <3>1. End(G, ledger) = ledger.total
      BY <2>2 DEF End
    <3> HIDE DEF all
    <3> QED
      BY <2>2, <3>1, <1>10, <1>11
  <2> QED
    BY <2>1, <2>2
<1>13. Len(Log) = End(G, ledger)
  <2>1. End(G, ledger) \in 0..Len(G)
    BY <1>3
  <2> QED
    BY <1>12, <2>1, PrefixIs
<1>14. Sure = Firm(G)
  BY <1>13 DEF Sure, Firm
<1> QED
  BY <1>5, <1>12, <1>13, <1>14

-----------------------------------------------------------------------------
(* What the invariant says of the runs' properties. *)

LEMMA AnswersFromStory ==
  ASSUME LogTypes, NEW G \in Seq(Rec), LogStory(G)
  PROVE  AnswersHold
<1>1. /\ PastRecords \o live.recs = G /\ Log = Slice(G, 0, End(G, ledger))
  BY LogIs
<1>2. /\ ledger.total \in Nat /\ End(G, ledger) \in 0..Len(G) /\ End(G, ledger) >= ledger.total
  <2>1. Lines(G) /\ Accounts(G, ledger)
    BY DEF LogStory, Books
  <2> QED
    BY <2>1, EndIs
<1>3. Log \in Seq(Rec) /\ Len(Log) = End(G, ledger) /\ \A i \in 1..End(G, ledger) : Log[i] = G[i]
  BY <1>1, <1>2, PrefixIs
<1>4. ASSUME NEW h \in acked PROVE h \in ToSet(Hashes(Log))
  <2>1. PICK i \in 1..ledger.total : G[i].n = h
    BY DEF LogStory, Books
  <2>2. i \in 1..End(G, ledger)
    BY <1>2
  <2>3. i \in DOMAIN Log /\ Log[i].n = h
    BY <1>3, <2>1, <2>2
  <2> QED
    BY <2>3 DEF ToSet, Hashes
<1>5. ASSUME NEW h \in ToSet(Hashes(G)) PROVE h \notin undone
  <2>1. PICK i \in DOMAIN G : h = G[i].n
    BY DEF ToSet, Hashes
  <2>2. i \in 1..Len(G)
    OBVIOUS
  <2> QED
    BY <2>1, <2>2 DEF LogStory, Lines
<1> QED
  BY <1>1, <1>4, <1>5 DEF AnswersHold

LEMMA RepairedIs ==
  ASSUME NEW l \in LogFile
  PROVE  /\ _repair_torn_tail(l) \in LogFile /\ _repair_torn_tail(l).tail = "clean"
         /\ _repair_torn_tail(l).head = l.head /\ _repair_torn_tail(l).count = l.count
         /\ _repair_torn_tail(l).recs = l.recs /\ _repair_torn_tail(l).blank = l.blank
         /\ \A G : Holding(l, G) => Holding(_repair_torn_tail(l), G)
         /\ \A G : ReachOf(_repair_torn_tail(l), G) = Len(G)
<1> DEFINE m == _repair_torn_tail(l)
<1>1. /\ m \in LogFile /\ m.tail = "clean" /\ m.head = l.head /\ m.count = l.count
      /\ m.recs = l.recs /\ m.blank = l.blank
  BY DEF _repair_torn_tail, LogFile
<1> HIDE DEF m
<1>2. \A G : Holding(l, G) => Holding(m, G)
  BY <1>1 DEF Holding
<1>3. \A G : ReachOf(m, G) = Len(G)
  BY <1>1 DEF ReachOf
<1> QED
  BY <1>1, <1>2, <1>3 DEF m

\* A log that ends at the committed lines, or behind all of the announced
\* batch, can be read and takes appends.
LEMMA UsableIs ==
  ASSUME NEW G \in Seq(Rec), Chain(G), NEW l \in LogFile, Holding(l, G), l.tail = "clean", ~l.blank,
         NEW led \in Ledger, Accounts(G, led), Archived(led.segs) = l.count,
         Len(G) = led.total \/ (led.pending # NoPending /\ Len(G) = led.pending.total)
  PROVE  Usable(l, led)
<1>1. ReachOf(l, G) = Len(G) /\ led.total <= Len(G) /\ l.count <= led.total
  <2>1. ReachOf(l, G) = Len(G)
    BY DEF ReachOf
  <2>2. led.total <= Len(G) /\ Archived(led.segs) <= led.total
    BY LedgerParts
  <2> QED
    BY <2>1, <2>2
<1>2. _verify_files(l, led)
  <2>1. VerifiedOf(l, G, led)
    BY <1>1 DEF VerifiedOf, WholeOf
  <2> QED
    BY <1>1, <2>1, VerifyIs
<1>3. _tail(l, led)
  BY <1>1, TailIs
<1> QED
  BY <1>2, <1>3 DEF Usable

LEMMA HashesIs ==
  ASSUME NEW s \in Seq(Rec)
  PROVE  /\ Hashes(s) \in Seq(Nat) /\ Len(Hashes(s)) = Len(s)
         /\ \A i \in 1..Len(s) : Hashes(s)[i] = s[i].n
<1>1. \A i \in 1..Len(s) : s[i].n \in Nat
  BY LineIsRec
<1>2. Hashes(s) = [i \in 1..Len(s) |-> s[i].n]
  BY DEF Hashes
<1>3. Hashes(s) \in [1..Len(s) -> Nat] /\ Len(s) \in Nat
  BY <1>1, <1>2
<1>4. Hashes(s) \in Seq(Nat)
  BY <1>3, IsASeq
<1>5. Len(Hashes(s)) = Len(s)
  BY <1>2, <1>4
<1> QED
  BY <1>2, <1>4, <1>5

LEMMA ClearedIs ==
  ASSUME NEW G \in Seq(Rec), NEW led \in Ledger, Accounts(G, led), Len(G) <= led.total + 1
  PROVE  /\ Cleared(led) \in Ledger /\ Accounts(G, Cleared(led))
         /\ Cleared(led).total = led.total /\ Cleared(led).head = led.head
         /\ Cleared(led).segs = led.segs /\ Cleared(led).pending = NoPending
<1>1. NoPending \in Pending
  BY DEF NoPending, Pending, GENESIS
<1>2. /\ Cleared(led) \in Ledger
      /\ Cleared(led).total = led.total /\ Cleared(led).head = led.head
      /\ Cleared(led).segs = led.segs /\ Cleared(led).pending = NoPending
  BY <1>1 DEF Cleared, Ledger
<1>3. Accounts(G, Cleared(led))
  BY <1>2 DEF Accounts
<1> QED
  BY <1>2, <1>3

\* A log that ends inside the announced batch is one that repair completes.
LEMMA TornIs ==
  ASSUME NEW G \in Seq(Rec), Chain(G), NEW l \in LogFile, Holding(l, G),
         NEW led \in Ledger, Accounts(G, led), l.count <= led.total,
         led.pending # NoPending, led.total < Len(G), Len(G) # led.pending.total
  PROVE  IsTornBatch(l, led)
<1>1. /\ After(l, led) = Slice(G, led.total, Len(G)) /\ Len(After(l, led)) = Len(G) - led.total
      /\ (After(l, led) = <<>>) <=> (Len(G) = led.total)
  BY AfterIs
<1>2. /\ led.total \in Nat /\ Len(G) \in Nat /\ Len(G) \in led.total..Len(G)
      /\ Size(led) \in Nat /\ led.pending.hashes \in Seq(Nat)
  BY LedgerParts
<1>3. /\ led.pending.total = led.total + Size(led)
      /\ led.pending.hashes = [j \in 1..Size(led) |-> Base(led) + j]
      /\ Len(G) <= led.pending.total
      /\ \A j \in 1..(Len(G) - led.total) : G[led.total + j].n = Base(led) + j
  <2>1. Announced(G, led)
    BY DEF Accounts
  <2> QED
    BY <2>1 DEF Announced
<1> DEFINE k == Len(G) - led.total
           after == After(l, led)
<1>4. k \in Nat /\ k < Size(led) /\ Len(led.pending.hashes) = Size(led)
  BY <1>2, <1>3 DEF Size
<1>5. after \in Seq(Rec) /\ Len(after) = k /\ \A j \in 1..k : after[j] = G[led.total + j]
  <2>1. /\ Slice(G, led.total, Len(G)) \in Seq(Rec) /\ Len(Slice(G, led.total, Len(G))) = k
        /\ \A j \in 1..k : Slice(G, led.total, Len(G))[j] = G[led.total + j]
    BY <1>2, SliceIs
  <2> QED
    BY <1>1, <2>1
<1>6. /\ Hashes(after) \in Seq(Nat) /\ Len(Hashes(after)) = k
      /\ \A j \in 1..k : Hashes(after)[j] = Base(led) + j
  <2>1. \A j \in 1..k : after[j].n = Base(led) + j
    BY <1>3, <1>5
  <2> HIDE DEF k, after
  <2>2. /\ Hashes(after) \in Seq(Nat) /\ Len(Hashes(after)) = k
        /\ \A j \in 1..k : Hashes(after)[j] = after[j].n
    BY <1>5, HashesIs
  <2> QED
    BY <2>1, <2>2
<1>7. Take(led.pending.hashes, k) = Slice(led.pending.hashes, 0, k)
  BY <1>4 DEF Take, Slice
<1>8. /\ Slice(led.pending.hashes, 0, k) \in Seq(Nat) /\ Len(Slice(led.pending.hashes, 0, k)) = k
      /\ \A j \in 1..k : Slice(led.pending.hashes, 0, k)[j] = led.pending.hashes[j]
  <2>1. k \in 0..Len(led.pending.hashes)
    BY <1>4
  <2> HIDE DEF k
  <2> QED
    BY <1>2, <2>1, PrefixIs
<1>9. \A j \in 1..k : led.pending.hashes[j] = Base(led) + j
  <2>1. \A j \in 1..k : j \in 1..Size(led)
    BY <1>2, <1>4
  <2> QED
    BY <1>3, <2>1
<1>10. Hashes(after) = Take(led.pending.hashes, k)
  <2> HIDE DEF k, after
  <2> QED
    BY <1>6, <1>7, <1>8, <1>9, SliceEqual, SMTT(30)
<1>11. Tip(l.head, l.recs) # led.pending.head
  BY TailIs
<1>12. after # <<>>
  BY <1>1, <1>2
<1> QED
  BY <1>4, <1>5, <1>10, <1>11, <1>12 DEF IsTornBatch, Size

\* What repair leaves of an interrupted batch is what it was appended to.
LEMMA DroppedIs ==
  ASSUME NEW G \in Seq(Rec), Chain(G), NEW l \in LogFile, Holding(l, G), l.tail = "clean",
         NEW led \in Ledger, Accounts(G, led), l.count <= led.total
  PROVE  /\ BatchDropped(l, led) \in LogFile
         /\ BatchDropped(l, led).recs = Slice(G, l.count, led.total)
         /\ BatchDropped(l, led).head = l.head /\ BatchDropped(l, led).count = l.count
         /\ BatchDropped(l, led).tail = "clean"
         /\ BatchDropped(l, led).blank = (l.count = 0 /\ led.total = 0)
<1>1. /\ led.total \in Nat /\ led.total <= Len(G) /\ l.count \in Nat /\ Len(G) \in Nat
      /\ Len(G) \in l.count..Len(G) /\ led.total \in l.count..Len(G)
      /\ l.recs = Slice(G, l.count, Len(G))
  <2>1. led.total \in Nat /\ led.total <= Len(G)
    BY LedgerParts
  <2>2. l.count \in 0..Len(G) /\ l.recs = Slice(G, l.count, Len(G))
    BY DEF Holding
  <2> QED
    BY <2>1, <2>2
<1>2. Len(l.recs) - Len(After(l, led)) = led.total - l.count
  BY <1>1, AfterIs, ParseIs, SMTT(30)
<1>3. Take(l.recs, led.total - l.count) = Slice(G, l.count, led.total)
  <2>1. led.total - l.count \in Nat /\ led.total - l.count <= Len(G) - l.count
        /\ l.count + (led.total - l.count) = led.total
    BY <1>1
  <2>2. Take(Slice(G, l.count, Len(G)), led.total - l.count) = Slice(G, l.count, l.count + (led.total - l.count))
    BY <1>1, <2>1, TakeOfSlice, ZenonT(30)
  <2> QED
    BY <1>1, <2>1, <2>2
<1>4. Slice(G, l.count, led.total) \in Seq(Rec)
  BY <1>1, SliceIs
<1>5. (Slice(G, l.count, led.total) = <<>>) <=> (l.count = led.total)
  BY <1>1, SliceEmpty
<1>6. BatchDropped(l, led) = [l EXCEPT !.recs = Slice(G, l.count, led.total),
                                       !.blank = (Slice(G, l.count, led.total) = <<>> /\ l.count = 0)]
  BY <1>2, <1>3 DEF BatchDropped
<1>7. BatchDropped(l, led) \in LogFile
  BY <1>4, <1>6 DEF LogFile
<1>8. /\ BatchDropped(l, led).recs = Slice(G, l.count, led.total)
      /\ BatchDropped(l, led).head = l.head /\ BatchDropped(l, led).count = l.count
      /\ BatchDropped(l, led).tail = "clean"
      /\ BatchDropped(l, led).blank = (Slice(G, l.count, led.total) = <<>> /\ l.count = 0)
  BY <1>6 DEF LogFile
<1>9. (Slice(G, l.count, led.total) = <<>> /\ l.count = 0) = (l.count = 0 /\ led.total = 0)
  BY <1>1, <1>5
<1> QED
  BY <1>7, <1>8, <1>9

LEMMA RecoverableFromStory ==
  ASSUME LogTypes, NEW G \in Seq(Rec), LogStory(G), op = Idle
  PROVE  Recoverable
<1> DEFINE l == _repair_torn_tail(live)
<1>1. /\ live \in LogFile /\ ledger \in Ledger /\ Chain(G) /\ Holding(live, G)
      /\ Accounts(G, ledger) /\ live.count <= ledger.total
      /\ live.blank => G = <<>>
      /\ Anchored(ledger) \/ Hanging(G)
  BY DEF LogTypes, LogStory, Lines, Books, Phase, Idle
<1>2. /\ l \in LogFile /\ l.tail = "clean" /\ l.head = live.head /\ l.count = live.count
      /\ l.recs = live.recs /\ l.blank = live.blank /\ Holding(l, G) /\ ReachOf(l, G) = Len(G)
  BY <1>1, RepairedIs
<1> HIDE DEF l
<1>3. /\ ledger.total \in Nat /\ ledger.total <= Len(G) /\ Len(G) \in Nat /\ l.count \in Nat
      /\ Len(l.recs) = Len(G) - l.count /\ l.count <= ledger.total
  BY <1>1, <1>2, LedgerParts, ParseIs
<1>4. ledger.pending = NoPending /\ Len(G) # ledger.total => Ghost(l, ledger)
  BY <1>3 DEF Ghost
<1>5. CASE Anchored(ledger)
  <2>0. Archived(ledger.segs) = l.count
    BY <1>2, <1>5 DEF Anchored
  <2>1. CASE l.blank
    <3>1. Len(G) = 0 /\ ledger.total = 0
      BY <1>1, <1>2, <1>3, <2>1
    <3>2. VerifiedOf(l, G, ledger) /\ ledger.total <= ReachOf(l, G)
      BY <1>2, <3>1 DEF VerifiedOf
    <3>3. _verify_files(l, ledger)
      BY <1>1, <1>2, <2>0, <3>2, VerifyIs
    <3> QED
      BY <2>1, <3>3 DEF Recoverable, l
  <2>2. CASE ~l.blank /\ (Len(G) = ledger.total \/ (ledger.pending # NoPending /\ Len(G) = ledger.pending.total))
    <3>1. Usable(l, ledger)
      BY <1>1, <1>2, <2>0, <2>2, UsableIs
    <3> QED
      BY <3>1 DEF Recoverable, l
  <2>3. CASE ~l.blank /\ ledger.pending = NoPending /\ Len(G) # ledger.total
    <3>1. Ghost(l, ledger)
      BY <1>4, <2>3
    <3> QED
      BY <3>1 DEF Recoverable, l
  <2>4. CASE ~l.blank /\ ledger.pending # NoPending /\ Len(G) # ledger.total /\ Len(G) # ledger.pending.total
    <3>1. IsTornBatch(l, ledger)
      <4>1. ledger.total < Len(G)
        BY <1>3, <2>4
      <4> QED
        BY <1>1, <1>2, <1>3, <2>4, <4>1, TornIs
    <3> DEFINE H == Slice(G, 0, ledger.total)
               m == [BatchDropped(l, ledger) EXCEPT !.blank = FALSE]
    <3>2. /\ H \in Seq(Rec) /\ Len(H) = ledger.total /\ Chain(H)
          /\ N(H, l.count) = N(G, l.count)
          /\ Slice(H, l.count, ledger.total) = Slice(G, l.count, ledger.total)
          /\ Accounts(H, ledger)
      <4>1. ledger.total \in 0..Len(G) /\ l.count \in 0..ledger.total /\ ledger.total \in l.count..ledger.total
        BY <1>3
      <4> QED
        BY <1>1, <1>3, <4>1, PrefixStory
    <3> HIDE DEF H
    <3>3. /\ m \in LogFile /\ m.recs = Slice(G, l.count, ledger.total) /\ m.head = l.head
          /\ m.count = l.count /\ m.tail = "clean" /\ m.blank = FALSE
      <4>1. /\ BatchDropped(l, ledger) \in LogFile
            /\ BatchDropped(l, ledger).recs = Slice(G, l.count, ledger.total)
            /\ BatchDropped(l, ledger).head = l.head /\ BatchDropped(l, ledger).count = l.count
            /\ BatchDropped(l, ledger).tail = "clean"
        BY <1>1, <1>2, <1>3, DroppedIs
      <4> QED
        BY <4>1 DEF LogFile
    <3> HIDE DEF m
    <3>4. Holding(m, H)
      BY <1>2, <1>3, <3>2, <3>3 DEF Holding
    <3>5. /\ Cleared(ledger) \in Ledger /\ Accounts(H, Cleared(ledger))
          /\ Cleared(ledger).total = ledger.total /\ Cleared(ledger).segs = ledger.segs
      BY <1>1, <1>3, <3>2, ClearedIs
    <3>6. Usable(m, Cleared(ledger))
      BY <2>0, <3>2, <3>3, <3>4, <3>5, UsableIs
    <3> QED
      BY <3>1, <3>6 DEF Recoverable, l, m
  <2> QED
    BY <2>1, <2>2, <2>3, <2>4
<1>6. CASE Hanging(G)
  <2> DEFINE e == Newest
  <2>1. /\ ledger.segs # <<>> /\ e.name \in Name /\ ledger.pending = NoPending
        /\ Archived(ledger.segs) = l.count + e.count
        /\ file[e.name] = [head |-> live.head, count |-> live.count,
                           recs |-> Slice(G, live.count, live.count + e.count)]
    BY <1>2, <1>6 DEF Hanging, Newest, Part
  <2>2. e.count > 0 /\ e.count \in Nat /\ e.head = N(G, l.count + e.count)
        /\ l.count + e.count <= ledger.total
    <3>1. e \in Segment
      <4>1. ledger.segs \in Seq(Segment)
        BY <1>1, LedgerParts
      <4>2. Len(ledger.segs) \in 1..Len(ledger.segs)
        BY <2>1, <4>1, EmptySeq
      <4> QED
        BY <4>1, <4>2, ElementOfSeq DEF Newest, Last
    <3>2. e.count > 0 /\ e.head = N(G, Archived(ledger.segs))
      BY <1>1, <2>1 DEF Accounts, Newest
    <3>3. Archived(ledger.segs) <= ledger.total
      BY <1>1, LedgerParts
    <3> QED
      BY <2>1, <3>1, <3>2, <3>3 DEF Segment
  <2> HIDE DEF e
  <2>3. CASE Len(G) # ledger.total
    BY <1>4, <2>1, <2>3 DEF Recoverable, l
  <2>4. CASE Len(G) = ledger.total
    <3>1. e.count \in 1..(ReachOf(l, G) - l.count) /\ e.count \in 1..(Len(G) - l.count)
      BY <1>2, <1>3, <2>2
    <3>2. Take(l.recs, e.count) = Slice(G, l.count, l.count + e.count)
      <4>1. Len(G) \in l.count..Len(G) /\ e.count <= Len(G) - l.count /\ l.recs = Slice(G, l.count, Len(G))
        BY <1>2, <1>3, <3>1 DEF Holding
      <4>2. Take(Slice(G, l.count, Len(G)), e.count) = Slice(G, l.count, l.count + e.count)
        <5>1. l.count \in Nat /\ e.count \in Nat
          BY <1>3, <2>2
        <5> QED
          BY <4>1, <5>1, TakeOfSlice
      <4> QED
        BY <4>1, <4>2
    <3>3. l.recs[e.count].n = e.head
      <4>1. Len(G) \in l.count..Len(G) /\ l.recs = Slice(G, l.count, Len(G))
        BY <1>2, <1>3 DEF Holding
      <4>2. Slice(G, l.count, Len(G))[e.count] = G[l.count + e.count]
        <5>1. l.count \in Nat
          BY <1>3
        <5>2. \A i \in 1..(Len(G) - l.count) : Slice(G, l.count, Len(G))[i] = G[l.count + i]
          BY <4>1, <5>1, SliceIs
        <5> QED
          BY <3>1, <5>2
      <4>3. l.count + e.count # 0
        BY <1>3, <2>2
      <4> QED
        BY <2>2, <4>1, <4>2, <4>3 DEF N
    <3>4. e.name # ""
      BY <2>1, ChainLogAssumption
    <3>5. Unswapped(l, ledger)
      BY <2>1, <3>4 DEF Unswapped, e, Newest
    <3>6. CanFinish(l, ledger)
      <4>1. file[e.name] = [head |-> l.head, count |-> l.count, recs |-> Take(l.recs, e.count)]
        BY <1>2, <2>1, <3>2
      <4>2. Len(l.recs) >= e.count
        BY <1>3, <2>2, <3>1
      <4> QED
        BY <3>3, <3>5, <4>1, <4>2 DEF CanFinish, e, Newest
    <3> DEFINE m == Reanchored(l, e.count)
    <3>7. /\ m \in LogFile /\ m.count = l.count + e.count /\ m.head = N(G, l.count + e.count)
          /\ m.recs = Slice(G, l.count + e.count, Len(G)) /\ m.tail = "clean" /\ m.blank = FALSE
          /\ l.count + e.count \in 1..Len(G)
      BY <1>2, <3>1, ReanchoredIs
    <3> HIDE DEF m
    <3>8. Holding(m, G)
      BY <3>7 DEF Holding
    <3>9. Usable(m, ledger)
      BY <1>1, <2>1, <2>4, <3>7, <3>8, UsableIs
    <3> QED
      BY <3>6, <3>9 DEF Recoverable, l, m, e
  <2> QED
    BY <2>3, <2>4
<1> QED
  BY <1>1, <1>5, <1>6

-----------------------------------------------------------------------------
(* The steps.  Each supplies the lines H of the next state, and says how   *)
(* what a reader may see and what is settled move: as AtomicLog allows.    *)

\* G and H have the same first k lines.
Same(G, H, k) == Slice(G, 0, k) = Slice(H, 0, k)

Stays(G, H) ==
  End(H, ledger)' = End(G, ledger) /\ Firm(H)' = Firm(G) /\ Same(G, H, End(G, ledger))
Settles(G, H) ==
  End(H, ledger)' = End(G, ledger) /\ Firm(H)' = End(G, ledger) /\ Same(G, H, End(G, ledger))
Withdraws(G, H) ==
  End(H, ledger)' = Firm(G) /\ Firm(H)' = Firm(G) /\ Same(G, H, Firm(G))
Extends(G, H) ==
  /\ Firm(G) = End(G, ledger) /\ End(G, ledger) < End(H, ledger)' /\ Same(G, H, End(G, ledger))
  /\ \A j \in 1..(End(H, ledger)' - End(G, ledger)) :
       H[End(G, ledger) + j].at = j /\ H[End(G, ledger) + j].of = End(H, ledger)' - End(G, ledger)
  /\ Firm(H)' \in {Firm(G), End(H, ledger)'}
Moves(G, H) == Stays(G, H) \/ Settles(G, H) \/ Withdraws(G, H) \/ Extends(G, H)

\* What a step from the lines G has to show.
Onward(G) == \E H \in Seq(Rec) : LogTypes' /\ LogStory(H)' /\ Moves(G, H)

LEMMA HolderIs ==
  ASSUME op \in Holder
  PROVE  /\ op.pc = "begin" => op.ids \subseteq RecordId /\ IsFiniteSet(op.ids)
         /\ op.pc \in {"announced", "written", "undo", "retract"} =>
              op \in [pc : {"announced", "written", "undo", "retract"}, new : Seq(Rec), start : Nat]
         /\ op.pc \in {"ids", "ledger", "trim"} =>
              op \in [pc : {"ids", "ledger", "trim"}, n : Nat, name : Name]
         /\ op.pc \in {"swap", "restore"} =>
              op \in [pc : {"swap", "restore"}, n : Nat, name : Name, old : Ledger]
         /\ op.pc = "idle" => op = Idle
BY DEF Holder, Idle

LEMMA SamePrefix ==
  ASSUME NEW S, NEW s \in Seq(S), NEW t \in Seq(S), NEW e \in Nat, e <= Len(s), e <= Len(t),
         Slice(s, 0, e) = Slice(t, 0, e), NEW a \in Nat, NEW b \in a..e
  PROVE  Slice(s, a, b) = Slice(t, a, b)
<1>1. e \in 0..Len(s) /\ e \in 0..Len(t)
  OBVIOUS
<1>2. Slice(Slice(s, 0, e), a, b) = Slice(s, a, b)
  BY <1>1, SliceOfSlice
<1>3. Slice(Slice(t, 0, e), a, b) = Slice(t, a, b)
  BY <1>1, SliceOfSlice
<1> QED
  BY <1>2, <1>3

\* Segment files stay pieces of the log when what is settled stays.
LEMMA FilesKept ==
  ASSUME LogTypes, NEW G \in Seq(Rec), LogStory(G), NEW H \in Seq(Rec),
         file' = file, live'.count = live.count, Firm(H)' \in Nat, Firm(G) <= Firm(H)',
         Firm(H)' <= Len(H), Same(G, H, Firm(G))
  PROVE  Files(H)'
<1>1. /\ live.count \in Nat /\ Firm(G) \in Nat /\ Firm(G) <= Len(G) /\ Len(G) \in Nat /\ Len(H) \in Nat
  BY EndIs DEF LogStory, Books
<1>2. ASSUME NEW s \in Name, file[s] # NoFile
      PROVE  /\ file[s].count \in 0..live.count /\ file[s].count + Len(file[s].recs) <= Firm(H)'
             /\ file[s].recs = Slice(H, file[s].count, file[s].count + Len(file[s].recs))
  <2> DEFINE c == file[s].count
             b == file[s].count + Len(file[s].recs)
  <2>1. c \in 0..live.count /\ b <= Firm(G) /\ file[s].recs = Slice(G, c, b)
    BY <1>2 DEF LogStory, Files
  <2>2. Len(file[s].recs) \in Nat
    BY DEF LogTypes, SegmentFile
  <2>3. c \in Nat /\ b \in c..Firm(G) /\ b <= Firm(H)'
    BY <1>1, <2>1, <2>2, SMTT(30)
  <2> HIDE DEF c, b
  <2>4. Firm(G) <= Len(H)
    BY <1>1
  <2>5. Slice(G, c, b) = Slice(H, c, b)
    BY <1>1, <2>3, <2>4, SamePrefix DEF Same
  <2> QED
    BY <2>1, <2>3, <2>5 DEF c, b
<1>3. \A i \in 1..live.count : \E s \in Name : Holds(s, i)
  BY DEF LogStory, Files
<1> QED
  BY <1>2, <1>3 DEF Files, Holds

\* A step of the holder alone.
LEMMA HolderStep ==
  ASSUME LogTypes, NEW G \in Seq(Rec), LogStory(G),
         UNCHANGED <<live, ledger, file, made, acked, undone>>,
         op' \in Holder, index' \in Seq(RecordId),
         op.pc \notin {"written", "undo"} => op'.pc \notin {"written", "undo"},
         Writing(G)', Archiving(G)', Phase(G)'
  PROVE  Onward(G)
<1>1. LogTypes'
  BY DEF LogTypes
<1>2. Lines(G)' /\ Books(G, ledger)'
  BY DEF LogStory, Lines, Books, Holding, Accounts, Announced, Size, Base
<1>3. End(G, ledger)' = End(G, ledger)
  BY DEF End, WholeOf, ReachOf
<1>4. /\ Firm(G) \in Nat /\ End(G, ledger) \in Nat /\ ledger.total \in Nat /\ Len(G) \in Nat
      /\ Firm(G) \in ledger.total..End(G, ledger) /\ End(G, ledger) <= Len(G)
      /\ ledger.total <= End(G, ledger)
  BY EndIs DEF LogStory, Books
<1>5. Firm(G)' \in {Firm(G), End(G, ledger)}
  BY <1>3 DEF Firm
<1>6. Firm(G)' \in Nat /\ Firm(G) <= Firm(G)' /\ Firm(G)' <= Len(G)
  BY <1>4, <1>5
<1>7. Files(G)'
  BY <1>6, FilesKept DEF Same
<1>8. LogStory(G)'
  BY <1>2, <1>7 DEF LogStory
<1>9. Moves(G, G)
  BY <1>3, <1>5 DEF Moves, Stays, Settles, Same
<1> QED
  BY <1>1, <1>8, <1>9 DEF Onward

LEMMA TakeType ==
  ASSUME NEW S, NEW s \in Seq(S), NEW k \in Nat
  PROVE  Take(s, k) \in Seq(S)
<1> DEFINE m == IF k < Len(s) THEN k ELSE Len(s)
<1>1. m \in 0..Len(s)
  OBVIOUS
<1> HIDE DEF m
<1>2. Slice(s, 0, m) \in Seq(S)
  BY <1>1, PrefixIs
<1>3. Take(s, k) = Slice(s, 0, m)
  BY DEF Take, Slice, m
<1> QED
  BY <1>2, <1>3

LEMMA NewIndexType ==
  ASSUME LogTypes, NEW G \in Seq(Rec), Lines(G), NEW n \in Nat
  PROVE  NewIndex(n) \in Seq(RecordId) /\ \A k \in Nat : Take(NewIndex(n), k) \in Seq(RecordId)
<1> DEFINE recs == Moving(n)
<1>1. live \in LogFile /\ Holding(live, G) /\ index \in Seq(RecordId) /\ live.count \in Nat
  BY DEF LogTypes, Lines, LogFile
<1>2. _parse(live) \in Seq(Rec)
  BY <1>1, ParseIs, SliceIs
<1>3. recs \in Seq(Rec)
  BY <1>2, TakeType DEF Moving
<1> HIDE DEF recs
<1>4. IdsOf(recs) \in Seq(RecordId)
  <2>1. \A i \in 1..Len(recs) : recs[i].id \in RecordId
    <3>1. \A i \in 1..Len(recs) : recs[i] \in Rec
      BY <1>3, ElementOfSeq
    <3> QED
      BY <3>1 DEF Rec
  <2>2. IdsOf(recs) = [i \in 1..Len(recs) |-> recs[i].id] /\ Len(recs) \in Nat
    BY <1>3 DEF IdsOf
  <2> QED
    BY <2>1, <2>2, IsASeq
<1>5. Take(index, live.count) \in Seq(RecordId)
  BY <1>1, TakeType
<1>6. NewIndex(n) \in Seq(RecordId)
  BY <1>4, <1>5, ConcatProperties DEF NewIndex, recs
<1> QED
  BY <1>6, TakeType

\* Between two operations the archive is whole, or its last step is missing.
LEMMA WholeOrHanging ==
  ASSUME LogTypes, NEW G \in Seq(Rec), LogStory(G)
  PROVE  Anchored(ledger) \/ Hanging(G)
BY DEF LogStory, Phase, Archiving

LEMMA IdleStep ==
  ASSUME LogTypes, NEW G \in Seq(Rec), LogStory(G),
         UNCHANGED <<live, ledger, file, made, acked, undone>>,
         op' = Idle, index' \in Seq(RecordId)
  PROVE  Onward(G)
<1>1. op' \in Holder /\ op'.pc = "idle"
  BY DEF Holder, Idle
<1>2. Writing(G)' /\ Archiving(G)'
  BY <1>1 DEF Writing, Archiving
<1>3. Anchored(ledger)' \/ Hanging(G)'
  BY WholeOrHanging DEF Anchored, Hanging, Part
<1>4. Phase(G)'
  BY <1>1, <1>3 DEF Phase
<1> QED
  BY <1>1, <1>2, <1>4, HolderStep

LEMMA GiveUpStep ==
  ASSUME LogTypes, NEW G \in Seq(Rec), LogStory(G), GiveUp
  PROVE  Onward(G)
BY IdleStep DEF GiveUp, LogTypes

LEMMA RepairEndsStep ==
  ASSUME LogTypes, NEW G \in Seq(Rec), LogStory(G), RepairEnds
  PROVE  Onward(G)
BY IdleStep DEF RepairEnds, LogTypes

LEMMA LedgerFailsStep ==
  ASSUME LogTypes, NEW G \in Seq(Rec), LogStory(G), LedgerFails
  PROVE  Onward(G)
<1>1. op.pc = "written" /\ UNCHANGED <<live, ledger, index, file, made, acked, undone>>
  BY DEF LedgerFails
<1>2. op \in [pc : {"announced", "written", "undo", "retract"}, new : Seq(Rec), start : Nat]
  BY <1>1, HolderIs DEF LogTypes
<1>3. /\ op'.pc = "undo" /\ op'.new = op.new /\ op'.start = op.start
      /\ op' \in [pc : {"announced", "written", "undo", "retract"}, new : Seq(Rec), start : Nat]
  BY <1>2 DEF LedgerFails
<1>4. op' \in Holder
  BY <1>3 DEF Holder
<1>5. Writing(G)'
  BY <1>1, <1>3 DEF LogStory, Writing, Size, Base
<1>6. Archiving(G)'
  BY <1>3 DEF Archiving
<1>7. Phase(G)'
  BY <1>1, <1>3 DEF LogStory, Phase, Anchored
<1>8. index' \in Seq(RecordId)
  BY <1>1 DEF LogTypes
<1> QED
  BY <1>1, <1>4, <1>5, <1>6, <1>7, <1>8, HolderStep

\* What archiving needs while its holder goes from one of its steps to another.
LEMMA ArchiverStep ==
  ASSUME LogTypes, NEW G \in Seq(Rec), LogStory(G),
         UNCHANGED <<live, ledger, file, made, acked, undone>>, index' \in Seq(RecordId),
         op.pc \in {"ids", "ledger"}, op'.pc \in {"ledger", "trim"}, op' = [op EXCEPT !.pc = op'.pc]
  PROVE  Onward(G)
<1>1. op \in [pc : {"ids", "ledger", "trim"}, n : Nat, name : Name]
  BY HolderIs DEF LogTypes
<1>2. /\ op'.n = op.n /\ op'.name = op.name
      /\ op' \in [pc : {"ids", "ledger", "trim"}, n : Nat, name : Name]
  BY <1>1
<1>3. op' \in Holder
  BY <1>2 DEF Holder
<1>4. Writing(G)'
  BY DEF Writing
<1>5. /\ Verified(G, ledger) /\ op.n \in 1..(Reach(G) - live.count) /\ file[op.name] = Part(G, op.n)
      /\ Anchored(ledger)
  BY DEF LogStory, Archiving, Phase
<1>6. file[op.name].count = live.count
  BY <1>5 DEF Part
<1>7. /\ Verified(G, ledger)' /\ Reach(G)' = Reach(G) /\ file'[op.name] = Part(G, op.n)' /\ Anchored(ledger)'
  <2>1. Reach(G)' = Reach(G)
    BY DEF Reach, ReachOf
  <2>2. Verified(G, ledger)'
    BY <1>5 DEF Verified, VerifiedOf, WholeOf, ReachOf
  <2>3. file'[op.name] = [head |-> live'.head, count |-> live'.count,
                          recs |-> Slice(G, live'.count, live'.count + op'.n)]
    BY <1>2, <1>5 DEF Part
  <2>4. Anchored(ledger)'
    BY <1>5 DEF Anchored
  <2> QED
    BY <1>2, <2>1, <2>2, <2>3, <2>4 DEF Part
<1>8. Archiving(G)'
  BY <1>2, <1>5, <1>6, <1>7 DEF Archiving, Part
<1>9. Phase(G)'
  BY <1>7 DEF Phase
<1> QED
  BY <1>3, <1>4, <1>8, <1>9, HolderStep

LEMMA ArchiveIdsStep ==
  ASSUME LogTypes, NEW G \in Seq(Rec), LogStory(G), ArchiveIds
  PROVE  Onward(G)
<1>1. op.pc = "ids" /\ UNCHANGED <<live, ledger, file, made, acked, undone>> /\ index' = NewIndex(op.n)
      /\ op' = [op EXCEPT !.pc = "ledger"]
  BY DEF ArchiveIds
<1>2. op \in [pc : {"ids", "ledger", "trim"}, n : Nat, name : Name]
  BY <1>1, HolderIs DEF LogTypes
<1>3. op'.pc = "ledger" /\ op.n \in Nat
  BY <1>1, <1>2
<1>4. index' \in Seq(RecordId)
  BY <1>1, <1>3, NewIndexType DEF LogStory
<1> QED
  BY <1>1, <1>3, <1>4, ArchiverStep

LEMMA IndexStops ==
  ASSUME LogTypes, NEW G \in Seq(Rec), LogStory(G), NEW next, ArchiveIdsStops(next)
  PROVE  /\ op.pc = "ids" /\ UNCHANGED <<live, ledger, file, made, acked, undone>>
         /\ index' \in Seq(RecordId) /\ op' = next
<1>1. op.pc = "ids" /\ UNCHANGED <<live, ledger, file, made, acked, undone>> /\ op' = next
  BY DEF ArchiveIdsStops
<1>2. op \in [pc : {"ids", "ledger", "trim"}, n : Nat, name : Name]
  BY <1>1, HolderIs DEF LogTypes
<1>3. PICK k \in live.count..Len(NewIndex(op.n)) : index' = Take(NewIndex(op.n), k)
  BY DEF ArchiveIdsStops
<1>4. k \in Nat
  BY DEF LogTypes, LogFile
<1>5. index' \in Seq(RecordId)
  BY <1>2, <1>3, <1>4, NewIndexType DEF LogStory
<1> QED
  BY <1>1, <1>5

LEMMA ArchiveIdsFailsStep ==
  ASSUME LogTypes, NEW G \in Seq(Rec), LogStory(G), ArchiveIdsFails
  PROVE  Onward(G)
<1>1. /\ op.pc = "ids" /\ UNCHANGED <<live, ledger, file, made, acked, undone>>
      /\ index' \in Seq(RecordId) /\ op' = [op EXCEPT !.pc = "trim"]
  BY IndexStops DEF ArchiveIdsFails
<1>2. op \in [pc : {"ids", "ledger", "trim"}, n : Nat, name : Name]
  BY <1>1, HolderIs DEF LogTypes
<1>3. op'.pc = "trim"
  BY <1>1, <1>2
<1> QED
  BY <1>1, <1>3, ArchiverStep

LEMMA ArchiveLedgerFailsStep ==
  ASSUME LogTypes, NEW G \in Seq(Rec), LogStory(G), ArchiveLedgerFails
  PROVE  Onward(G)
<1>1. /\ op.pc = "ledger" /\ UNCHANGED <<live, ledger, file, index, made, acked, undone>>
      /\ op' = [op EXCEPT !.pc = "trim"]
  BY DEF ArchiveLedgerFails
<1>2. op \in [pc : {"ids", "ledger", "trim"}, n : Nat, name : Name]
  BY <1>1, HolderIs DEF LogTypes
<1>3. op'.pc = "trim" /\ index' \in Seq(RecordId)
  BY <1>1, <1>2 DEF LogTypes
<1> QED
  BY <1>1, <1>3, ArchiverStep

LEMMA SwapFailsStep ==
  ASSUME LogTypes, NEW G \in Seq(Rec), LogStory(G), SwapFails
  PROVE  Onward(G)
<1>1. /\ op.pc = "swap" /\ UNCHANGED <<live, ledger, file, index, made, acked, undone>>
      /\ op' = [op EXCEPT !.pc = "restore"]
  BY DEF SwapFails
<1>2. op \in [pc : {"swap", "restore"}, n : Nat, name : Name, old : Ledger]
  BY <1>1, HolderIs DEF LogTypes
<1>3. /\ op'.pc = "restore" /\ op'.n = op.n /\ op'.name = op.name /\ op'.old = op.old
      /\ op' \in [pc : {"swap", "restore"}, n : Nat, name : Name, old : Ledger]
  BY <1>1, <1>2
<1>4. op' \in Holder /\ index' \in Seq(RecordId)
  BY <1>1, <1>3 DEF Holder, LogTypes
<1>5. Writing(G)' /\ Phase(G)'
  BY <1>3 DEF Writing, Phase
<1>6. /\ Hanging(G) /\ Last(ledger.segs).name = op.name /\ Last(ledger.segs).count = op.n
      /\ ledger.total = Reach(G) /\ Books(G, op.old) /\ Anchored(op.old) /\ Verified(G, op.old)
  BY <1>1 DEF LogStory, Archiving
<1>7. Hanging(G)' /\ Reach(G)' = Reach(G)
  BY <1>1, <1>6 DEF Hanging, Part, Reach, ReachOf
<1>8. Books(G, op.old)' /\ Anchored(op.old)' /\ Verified(G, op.old)'
  BY <1>1, <1>3, <1>6 DEF Books, Anchored, Verified, VerifiedOf, WholeOf, ReachOf
<1>9. Archiving(G)'
  BY <1>1, <1>3, <1>6, <1>7, <1>8 DEF Archiving
<1> QED
  BY <1>1, <1>3, <1>4, <1>5, <1>9, HolderStep

LEMMA CrashStep ==
  ASSUME LogTypes, NEW G \in Seq(Rec), LogStory(G),
         ArchiveIdsStops(Idle) \/ (/\ op' = Idle /\ UNCHANGED <<live, ledger, index, file, made, acked, undone>>)
  PROVE  Onward(G)
<1>1. CASE ArchiveIdsStops(Idle)
  BY <1>1, IndexStops, IdleStep
<1>2. CASE op' = Idle /\ UNCHANGED <<live, ledger, index, file, made, acked, undone>>
  BY <1>2, IdleStep DEF LogTypes
<1> QED
  BY <1>1, <1>2

\* An operation begins by repairing the torn tail: the announced batch may
\* become whole by that.
LEMMA BeginStep ==
  ASSUME LogTypes, NEW G \in Seq(Rec), LogStory(G), op = Idle,
         live' = _repair_torn_tail(live), op' \in Holder, op'.pc \in {"begin", "repair"},
         UNCHANGED <<ledger, index, file, made, acked, undone>>
  PROVE  Onward(G)
<1>1. /\ live \in LogFile /\ ledger \in Ledger /\ Chain(G) /\ Holding(live, G) /\ Accounts(G, ledger)
  BY DEF LogTypes, LogStory, Lines, Books
<1>2. /\ live' \in LogFile /\ live'.tail = "clean" /\ live'.head = live.head /\ live'.count = live.count
      /\ live'.recs = live.recs /\ live'.blank = live.blank /\ Holding(live', G)
      /\ ReachOf(live', G) = Len(G)
  BY <1>1, RepairedIs
<1>3. LogTypes'
  BY <1>2 DEF LogTypes
<1>4. Lines(G)'
  BY <1>1, <1>2 DEF LogStory, Lines
<1>5. Books(G, ledger)'
  BY <1>2 DEF LogStory, Books
<1>6. /\ ledger.total \in 0..Reach(G) /\ ledger.total \in Nat /\ Reach(G) \in live.count..Len(G)
      /\ End(G, ledger) \in ledger.total..Reach(G) /\ Len(G) \in Nat /\ End(G, ledger) \in Nat
      /\ ledger.pending.total \in Nat
  BY <1>1, EndIs, LedgerParts DEF LogStory
<1>7. Firm(G) = End(G, ledger) /\ Firm(G)' = End(G, ledger)'
  BY DEF Firm, Idle
<1>8. End(G, ledger)' = IF ledger.pending # NoPending /\ Len(G) = ledger.pending.total
                        THEN ledger.pending.total ELSE ledger.total
  BY <1>2 DEF End, WholeOf
<1>9. End(G, ledger) = IF ledger.pending # NoPending /\ Reach(G) = ledger.pending.total
                       THEN ledger.pending.total ELSE ledger.total
  BY DEF End, WholeOf, Reach
<1>10. ledger.pending # NoPending => Announced(G, ledger)
  BY <1>1 DEF Accounts
<1>11. ledger.pending # NoPending => Len(G) <= ledger.pending.total
  BY <1>10 DEF Announced
<1>12. ASSUME End(G, ledger)' = End(G, ledger) PROVE Moves(G, G)
  BY <1>7, <1>12 DEF Stays, Same, Moves
<1>13. ASSUME End(G, ledger)' # End(G, ledger) PROVE Moves(G, G)
  <2>1. ledger.pending # NoPending /\ Len(G) = ledger.pending.total /\ Reach(G) # ledger.pending.total
    BY <1>6, <1>8, <1>9, <1>11, <1>13
  <2>2. End(G, ledger) = ledger.total /\ End(G, ledger)' = ledger.pending.total
    BY <1>8, <1>9, <2>1
  <2>3. /\ ledger.pending.total = ledger.total + Size(ledger) /\ Size(ledger) > 0 /\ Size(ledger) \in Nat
        /\ \A j \in 1..(Len(G) - ledger.total) :
             G[ledger.total + j].at = j /\ G[ledger.total + j].of = Size(ledger)
    BY <1>1, <1>10, <2>1, LedgerParts DEF Announced
  <2>4. /\ ledger.total < ledger.pending.total /\ ledger.pending.total - ledger.total = Size(ledger)
        /\ Len(G) - ledger.total = Size(ledger)
    BY <1>6, <2>1, <2>3
  <2>5. Extends(G, G)
    BY <1>7, <2>2, <2>3, <2>4 DEF Extends, Same
  <2> QED
    BY <2>5 DEF Moves
<1>14. Moves(G, G)
  BY <1>12, <1>13
<1>15. End(G, ledger)' \in Nat /\ End(G, ledger) <= End(G, ledger)' /\ End(G, ledger)' <= Len(G)
  BY <1>6, <1>8, <1>9, <1>11
<1>16. Files(G)'
  BY <1>2, <1>7, <1>15, FilesKept DEF Same
<1>17. Writing(G)' /\ Archiving(G)'
  BY DEF Writing, Archiving
<1>18. Anchored(ledger)' \/ Hanging(G)'
  BY <1>2, WholeOrHanging DEF Anchored, Hanging, Part
<1>19. Phase(G)'
  BY <1>2, <1>18 DEF Phase
<1>20. LogStory(G)'
  BY <1>4, <1>5, <1>16, <1>17, <1>19 DEF LogStory
<1> QED
  BY <1>3, <1>14, <1>20 DEF Onward

LEMMA BeginAppendStep ==
  ASSUME LogTypes, NEW G \in Seq(Rec), LogStory(G), NEW ids \in Orders, BeginAppend(ids)
  PROVE  Onward(G)
<1>1. op' = [pc |-> "begin", ids |-> ids] /\ ids \in {s \in SUBSET RecordId : IsFiniteSet(s)}
  BY DEF BeginAppend, Orders
<1>2. op' \in Holder /\ op'.pc = "begin"
  BY <1>1 DEF Holder
<1> QED
  BY <1>2, BeginStep DEF BeginAppend

LEMMA BeginRepairStep ==
  ASSUME LogTypes, NEW G \in Seq(Rec), LogStory(G), BeginRepair
  PROVE  Onward(G)
<1>1. op' \in Holder /\ op'.pc = "repair"
  BY DEF BeginRepair, Holder
<1> QED
  BY <1>1, BeginStep DEF BeginRepair

\* The ledger is cleared of a batch of which nothing is in the log.
LEMMA ClearStep ==
  ASSUME LogTypes, NEW G \in Seq(Rec), LogStory(G), Anchored(ledger), Len(G) = ledger.total,
         op.pc \notin {"written", "undo"},
         ledger' = [ledger EXCEPT !.pending = NoPending], op' = Idle,
         UNCHANGED <<live, index, file, made, acked, undone>>
  PROVE  Onward(G)
<1>1. live \in LogFile /\ ledger \in Ledger /\ Holding(live, G) /\ Accounts(G, ledger)
  BY DEF LogTypes, LogStory, Lines, Books
<1>2. /\ ledger.total \in Nat /\ ledger.total <= Len(G) /\ Reach(G) \in live.count..Len(G)
      /\ ledger.total <= Reach(G)
  BY EndIs DEF LogStory, Books
<1>3. ledger' = Cleared(ledger)
  BY DEF Cleared
<1>4. /\ ledger' \in Ledger /\ Accounts(G, ledger')
      /\ ledger'.total = ledger.total /\ ledger'.head = ledger.head
      /\ ledger'.segs = ledger.segs /\ ledger'.pending = NoPending
  BY <1>1, <1>2, <1>3, ClearedIs
<1>5. LogTypes'
  BY <1>4 DEF LogTypes, Holder
<1>6. Lines(G)'
  BY <1>4 DEF LogStory, Lines
<1>7. Books(G, ledger)'
  <2>1. ledger'.pending.head <= made
    <3>1. made \in Nat
      BY DEF LogTypes
    <3> QED
      BY <3>1, <1>4 DEF NoPending, GENESIS
  <2> QED
    BY <1>4, <2>1 DEF LogStory, Books
<1>8. End(G, ledger)' = ledger.total
  BY <1>4 DEF End, WholeOf
<1>9. End(G, ledger) = ledger.total
  <2>1. WholeOf(live, G, ledger) => FALSE
    <3> SUFFICES ASSUME WholeOf(live, G, ledger) PROVE FALSE
      OBVIOUS
    <3>1. ledger.pending # NoPending /\ Reach(G) = ledger.pending.total
      BY DEF WholeOf, Reach
    <3>2. ledger.total < ledger.pending.total
      <4>1. ledger.total \in ledger.total..Len(G)
        BY <1>2
      <4> QED
        BY <1>1, <3>1, <4>1, PendingTip
    <3> QED
      BY <1>1, <1>2, <3>1, <3>2, LedgerParts
  <2> QED
    BY <2>1 DEF End
<1>10. Firm(G) = ledger.total /\ Firm(G)' = ledger.total
  BY <1>8, <1>9 DEF Firm, Idle
<1>11. Moves(G, G)
  BY <1>8, <1>9, <1>10 DEF Moves, Stays, Same
<1>12. Files(G)'
  BY <1>2, <1>10, FilesKept DEF Same
<1>13. Writing(G)' /\ Archiving(G)'
  BY DEF Writing, Archiving, Idle
<1>14. Anchored(ledger)'
  BY <1>4 DEF Anchored
<1>15. Phase(G)'
  BY <1>14 DEF Phase, Idle
<1>16. LogStory(G)'
  BY <1>6, <1>7, <1>12, <1>13, <1>15 DEF LogStory
<1> QED
  BY <1>5, <1>11, <1>16 DEF Onward

LEMMA RetractStep ==
  ASSUME LogTypes, NEW G \in Seq(Rec), LogStory(G), Retract
  PROVE  Onward(G)
<1>1. Anchored(ledger) /\ Len(G) = ledger.total
  BY DEF LogStory, Phase, Writing, Retract
<1> QED
  BY <1>1, ClearStep DEF Retract

LEMMA RepairClearStep ==
  ASSUME LogTypes, NEW G \in Seq(Rec), LogStory(G), RepairClear
  PROVE  Onward(G)
<1>1. Anchored(ledger) /\ Len(G) = ledger.total
  BY DEF LogStory, Phase, RepairClear
<1> QED
  BY <1>1, ClearStep DEF RepairClear

LEMMA BatchIs ==
  ASSUME made \in Nat, NEW ids \in Seq(RecordId), NEW prev \in Nat
  PROVE  /\ Batch(ids, prev) \in Seq(Rec) /\ Len(Batch(ids, prev)) = Len(ids)
         /\ \A i \in 1..Len(ids) :
              /\ Batch(ids, prev)[i].n = made + i /\ Batch(ids, prev)[i].at = i
              /\ Batch(ids, prev)[i].of = Len(ids)
              /\ Batch(ids, prev)[i].prev = IF i = 1 THEN prev ELSE made + i - 1
<1> DEFINE rec(i) == [n |-> made + i, id |-> ids[i], at |-> i, of |-> Len(ids),
                      prev |-> IF i = 1 THEN prev ELSE made + i - 1]
           new == [i \in 1..Len(ids) |-> rec(i)]
<1>0. Len(ids) \in Nat /\ DOMAIN ids = 1..Len(ids)
  OBVIOUS
<1>1. Batch(ids, prev) = new
  BY <1>0 DEF Batch
<1>2. \A i \in 1..Len(ids) : rec(i) \in Rec
  <2> TAKE i \in 1..Len(ids)
  <2>1. ids[i] \in RecordId /\ made + i \in Nat /\ i \in Nat /\ Len(ids) \in Nat
    BY <1>0
  <2>2. (IF i = 1 THEN prev ELSE made + i - 1) \in Nat
    BY <2>1
  <2> QED
    BY <2>1, <2>2 DEF Rec
<1>3. \A i \in 1..Len(ids) : new[i] = rec(i)
  OBVIOUS
<1>4. new \in Seq(Rec) /\ Len(new) = Len(ids)
  <2>1. new \in [1..Len(ids) -> Rec]
    BY <1>2
  <2> HIDE DEF rec, new
  <2>2. new \in Seq(Rec)
    BY <1>0, <2>1, IsASeq
  <2>3. DOMAIN new = 1..Len(ids)
    BY <2>1
  <2> QED
    BY <1>0, <2>2, <2>3
<1>5. \A i \in 1..Len(ids) :
        /\ rec(i).n = made + i /\ rec(i).at = i /\ rec(i).of = Len(ids)
        /\ rec(i).prev = IF i = 1 THEN prev ELSE made + i - 1
  OBVIOUS
<1> HIDE DEF rec, new
<1> QED
  BY <1>1, <1>3, <1>4, <1>5

\* No line has a number above those that were given out.
LEMMA NumbersMade ==
  ASSUME LogTypes, NEW G \in Seq(Rec), Lines(G), NEW i \in 0..Len(G)
  PROVE  N(G, i) <= made /\ N(G, i) \in Nat /\ made \in Nat
<1>1. made \in Nat
  BY DEF LogTypes
<1>2. CASE i = 0
  BY <1>1, <1>2 DEF N, GENESIS
<1>3. CASE i # 0
  <2>1. i \in 1..Len(G)
    BY <1>3
  <2> QED
    BY <1>1, <2>1, LineIsRec DEF Lines
<1> QED
  BY <1>2, <1>3

LEMMA AnnounceStep ==
  ASSUME LogTypes, NEW G \in Seq(Rec), LogStory(G), Announce
  PROVE  Onward(G)
<1> DEFINE L == Len(G)
<1>1. /\ live \in LogFile /\ ledger \in Ledger /\ Chain(G) /\ Holding(live, G) /\ Lines(G)
      /\ Accounts(G, ledger) /\ Books(G, ledger) /\ live.count <= ledger.total
      /\ op.pc = "begin" /\ live.tail = "clean" /\ _verify_files(live, ledger) /\ _tail(live, ledger)
      /\ UNCHANGED <<live, index, file, acked, undone>>
  BY DEF LogTypes, LogStory, Lines, Books, Phase, Announce
<1>2. /\ ledger.total \in 0..Reach(G) /\ ledger.total \in Nat /\ L \in Nat /\ live.count \in Nat
      /\ Reach(G) = L /\ ledger.total <= ReachOf(live, G) /\ live.count <= L
  BY <1>1, EndIs DEF Reach
<1>3. Anchored(ledger) /\ Verified(G, ledger)
  BY <1>1, <1>2, VerifyIs DEF Anchored, Verified
<1>4. /\ ~live.blank /\ TailTotal(live, ledger) = L /\ Tip(live.head, live.recs) = N(G, L)
  BY <1>1, TailIs
<1>5. N(G, L) \in Nat /\ N(G, L) <= made /\ made \in Nat
  <2>1. L \in 0..Len(G)
    BY <1>2
  <2> QED
    BY <1>1, <2>1, NumbersMade
<1>6. PICK ids \in SetToSeqs(Unseen(op.ids)) :
        LET new == Batch(ids, N(G, L))
        IN /\ ids # <<>> /\ made + Len(ids) <= MaxMade /\ made' = made + Len(ids)
           /\ ledger' = [ledger EXCEPT !.head = N(G, L), !.total = L,
                           !.pending = [head |-> Last(new).n, total |-> L + Len(new), hashes |-> Hashes(new)]]
           /\ op' = [pc |-> "announced", new |-> new, start |-> Len(live.recs)]
  BY <1>4 DEF Announce
<1> DEFINE k == Len(ids)
           new == Batch(ids, N(G, L))
<1>7. ids \in Seq(RecordId) /\ k \in Nat /\ k > 0
  <2>1. op.ids \subseteq RecordId /\ IsFiniteSet(op.ids)
    BY <1>1, HolderIs DEF LogTypes
  <2>2. Unseen(op.ids) \subseteq op.ids
    BY DEF Unseen
  <2>3. IsFiniteSet(Unseen(op.ids)) /\ Unseen(op.ids) \subseteq RecordId
    BY <2>1, <2>2, FS_Subset
  <2>4. Cardinality(Unseen(op.ids)) \in Nat
    BY <2>3, FS_CardinalityType
  <2>5. ids \in [1..Cardinality(Unseen(op.ids)) -> Unseen(op.ids)]
    BY DEF SetToSeqs
  <2>6. ids \in [1..Cardinality(Unseen(op.ids)) -> RecordId]
    BY <2>3, <2>5
  <2>7. ids \in Seq(RecordId)
    BY <2>4, <2>6, IsASeq
  <2> QED
    BY <2>7, <1>6, EmptySeq
<1>8. /\ new \in Seq(Rec) /\ Len(new) = k
      /\ \A i \in 1..k :
           /\ new[i].n = made + i /\ new[i].at = i /\ new[i].of = k
           /\ new[i].prev = IF i = 1 THEN N(G, L) ELSE made + i - 1
  BY <1>5, <1>7, BatchIs, SMTT(30)
<1>9. /\ made + k <= MaxMade /\ made' = made + k
      /\ ledger' = [ledger EXCEPT !.head = N(G, L), !.total = L,
                      !.pending = [head |-> Last(new).n, total |-> L + Len(new), hashes |-> Hashes(new)]]
      /\ op' = [pc |-> "announced", new |-> new, start |-> Len(live.recs)]
  BY <1>6
<1> HIDE DEF L, new, k
<1>10. Last(new).n = made + k
  <2>1. Len(new) \in 1..k
    BY <1>7, <1>8
  <2> QED
    BY <1>8, <2>1 DEF Last
<1>11. Hashes(new) \in Seq(Nat) /\ Len(Hashes(new)) = k /\ Hashes(new) = [j \in 1..k |-> made + j]
  <2>1. Hashes(new) \in Seq(Nat) /\ Len(Hashes(new)) = k
    BY <1>8, HashesIs
  <2>2. DOMAIN new = 1..k
    BY <1>8
  <2>3. Hashes(new) = [j \in 1..k |-> made + j]
    BY <1>8, <2>2 DEF Hashes
  <2> QED
    BY <2>1, <2>3
<1>12. /\ ledger' \in Ledger /\ ledger'.head = N(G, L) /\ ledger'.total = L /\ ledger'.segs = ledger.segs
       /\ ledger'.pending = [head |-> made + k, total |-> L + k, hashes |-> Hashes(new)]
       /\ ledger'.pending.head = made + k /\ ledger'.pending.total = L + k
       /\ ledger'.pending.hashes = [j \in 1..k |-> made + j]
  <2>1. [head |-> made + k, total |-> L + k, hashes |-> Hashes(new)] \in Pending
    <3>1. made + k \in Nat /\ L + k \in Nat
      BY <1>2, <1>5, <1>7
    <3> QED
      BY <3>1, <1>11 DEF Pending
  <2>2. ledger' = [ledger EXCEPT !.head = N(G, L), !.total = L,
                     !.pending = [head |-> made + k, total |-> L + k, hashes |-> Hashes(new)]]
    BY <1>8, <1>9, <1>10
  <2> HIDE DEF L
  <2>3. /\ ledger' \in Ledger /\ ledger'.head = N(G, L) /\ ledger'.total = L /\ ledger'.segs = ledger.segs
        /\ ledger'.pending = [head |-> made + k, total |-> L + k, hashes |-> Hashes(new)]
    BY <1>1, <1>2, <1>5, <2>1, <2>2 DEF Ledger
  <2> QED
    BY <2>3, <1>11
<1>13. Size(ledger') = k /\ Base(ledger') = made
  <2>1. Size(ledger') = k
    BY <1>11, <1>12 DEF Size
  <2> QED
    BY <1>5, <1>7, <1>12, <2>1 DEF Base
<1>14. ledger'.pending # NoPending
  <2>1. ledger'.pending.head > 0
    BY <1>5, <1>7, <1>12
  <2> QED
    BY <2>1 DEF NoPending, GENESIS
<1>15. op' \in Holder /\ op'.pc = "announced" /\ op'.new = new /\ op'.start = L - live.count
  <2>1. Len(live.recs) = L - live.count /\ Len(live.recs) \in Nat
    BY <1>1, ParseIs DEF L, LogFile
  <2> QED
    BY <1>8, <1>9, <2>1 DEF Holder
<1>16. LogTypes'
  <2>1. made' \in 0..MaxMade
    <3>1. MaxMade \in Nat
      BY ChainLogAssumption
    <3> QED
      BY <3>1, <1>5, <1>7, <1>9
  <2>2. acked' \subseteq 1..made' /\ undone' \subseteq 1..made'
    <3>1. 1..made \subseteq 1..made'
      BY <1>5, <1>7, <1>9
    <3> QED
      BY <1>1, <3>1 DEF LogTypes
  <2> QED
    BY <1>1, <1>12, <1>15, <2>1, <2>2 DEF LogTypes
<1>17. Lines(G)'
  <2>1. \A i \in 1..Len(G) : G[i].n <= made' /\ G[i].n \notin undone'
    <3> TAKE i \in 1..Len(G)
    <3>1. G[i].n <= made /\ G[i].n \notin undone /\ G[i].n \in Nat
      BY <1>1, LineIsRec DEF Lines
    <3> QED
      BY <3>1, <1>1, <1>5, <1>7, <1>9
  <2> QED
    BY <1>1, <2>1 DEF Lines
<1>18. Accounts(G, ledger')
  <2>1. Announced(G, ledger')
    <3>1. Len(G) - ledger'.total = 0 /\ Len(G) <= L + k
      BY <1>2, <1>7, <1>12 DEF L
    <3>2. \A j \in 1..(Len(G) - ledger'.total) : FALSE
      BY <3>1
    <3> QED
      BY <1>5, <1>7, <1>12, <1>13, <3>1, <3>2 DEF Announced
  <2>2. ledger'.total \in 0..Len(G) /\ Archived(ledger'.segs) \in 0..ledger'.total
    <3>1. Archived(ledger.segs) \in Nat /\ Archived(ledger.segs) <= ledger.total
      BY <1>1, LedgerParts
    <3> QED
      BY <3>1, <1>2, <1>12 DEF L
  <2> QED
    BY <1>1, <1>12, <1>14, <2>1, <2>2 DEF Accounts
<1>19. Books(G, ledger)'
  <2>1. live'.count <= ledger'.total /\ ledger'.pending.head <= made'
    BY <1>1, <1>2, <1>5, <1>7, <1>9, <1>12
  <2>2. \A h \in acked' : \E i \in 1..ledger'.total : G[i].n = h
    <3>1. 1..ledger.total \subseteq 1..L
      BY <1>2
    <3> QED
      BY <1>1, <1>12, <3>1 DEF Books
  <2> QED
    BY <1>18, <2>1, <2>2 DEF Books
<1>20. End(G, ledger)' = L
  <2>1. Reach(G)' = L /\ L # L + k
    BY <1>1, <1>2, <1>7 DEF Reach, ReachOf
  <2> QED
    BY <1>12, <2>1 DEF End, WholeOf, Reach
<1>21. End(G, ledger) = L
  BY <1>2, <1>3 DEF Verified, VerifiedOf, WholeOf, End, Reach
<1>22. Firm(G) = L /\ Firm(G)' = L
  BY <1>1, <1>15, <1>20, <1>21 DEF Firm
<1>23. Moves(G, G)
  BY <1>20, <1>21, <1>22 DEF Moves, Stays, Same
<1>24. Files(G)'
  BY <1>1, <1>2, <1>22, FilesKept DEF Same, L
<1>25. Writing(G)'
  <2>1. \A h \in acked' \union undone' : h <= made
    BY <1>1, <1>5 DEF LogTypes
  <2> QED
    BY <1>1, <1>4, <1>8, <1>12, <1>13, <1>14, <1>15, <2>1 DEF Writing, L
<1>26. Archiving(G)'
  BY <1>15 DEF Archiving
<1>27. Phase(G)'
  BY <1>1, <1>3, <1>12, <1>15 DEF Phase, Anchored
<1>28. LogStory(G)'
  BY <1>17, <1>19, <1>24, <1>25, <1>26, <1>27 DEF LogStory
<1> QED
  BY <1>16, <1>23, <1>28 DEF Onward

LEMMA PositiveNumbers ==
  ASSUME LogTypes, NEW G \in Seq(Rec), Lines(G), NEW i \in 1..Len(G)
  PROVE  G[i].n \in 1..made /\ G[i].n \notin undone
<1>1. Chain(G) /\ G[i].n <= made /\ G[i].n \notin undone /\ made \in Nat
  BY DEF Lines, LogTypes
<1>2. G[i].n \in Nat /\ N(G, i) = G[i].n
  BY LineIsRec
<1>3. 0 \in 0..Len(G) /\ i \in 0..Len(G) /\ 0 < i
  OBVIOUS
<1>4. N(G, 0) < N(G, i)
  BY <1>1, <1>3 DEF Chain
<1>5. N(G, 0) = 0
  BY DEF N, GENESIS
<1> QED
  BY <1>1, <1>2, <1>4, <1>5

\* The announced batch, all of which is in the log, becomes the committed state.
LEMMA CommitStep ==
  ASSUME LogTypes, NEW G \in Seq(Rec), LogStory(G), Anchored(ledger), live.tail = "clean",
         ledger.pending # NoPending, Len(G) = ledger.pending.total,
         ledger' = [ledger EXCEPT !.head = ledger.pending.head, !.total = ledger.pending.total,
                                  !.pending = NoPending],
         op' = Idle, UNCHANGED <<live, index, file, made, undone>>,
         \A h \in acked' : \E i \in 1..Len(G) : G[i].n = h
  PROVE  Onward(G)
<1>1. /\ live \in LogFile /\ ledger \in Ledger /\ Chain(G) /\ Holding(live, G) /\ Accounts(G, ledger)
      /\ Lines(G) /\ live.count <= ledger.total
  BY DEF LogTypes, LogStory, Lines, Books
<1>2. /\ ledger.total \in Nat /\ ledger.total <= Len(G) /\ Len(G) \in Nat /\ Reach(G) = Len(G)
      /\ Firm(G) \in ledger.total..End(G, ledger) /\ live.count \in Nat
  BY <1>1, EndIs
<1>3. /\ ledger.segs \in Seq(Segment) /\ Archived(ledger.segs) \in Nat
      /\ Archived(ledger.segs) <= ledger.total /\ ledger.pending.head \in Nat
  BY <1>1, LedgerParts
<1>4. N(G, Len(G)) = ledger.pending.head
  <2>1. Len(G) \in ledger.total..Len(G)
    BY <1>2
  <2> QED
    BY <1>1, <2>1, PendingTip
<1>5. /\ ledger' \in Ledger /\ ledger'.head = N(G, Len(G)) /\ ledger'.total = Len(G)
      /\ ledger'.segs = ledger.segs /\ ledger'.pending = NoPending
  <2>1. NoPending \in Pending
    BY DEF NoPending, GENESIS, Pending
  <2> QED
    BY <1>1, <1>2, <1>3, <1>4, <2>1 DEF Ledger
<1>6. acked' \subseteq 1..made'
  BY <1>1, PositiveNumbers
<1>7. LogTypes'
  BY <1>5, <1>6 DEF LogTypes, Holder
<1>8. Lines(G)'
  BY <1>1 DEF Lines
<1>9. Accounts(G, ledger')
  <2>1. ledger'.total \in 0..Len(G) /\ Archived(ledger'.segs) \in 0..ledger'.total
    BY <1>2, <1>3, <1>5
  <2>2. Len(G) <= ledger'.total + 1
    BY <1>2, <1>5
  <2> QED
    BY <1>1, <1>5, <2>1, <2>2 DEF Accounts
<1>10. Books(G, ledger)'
  <2>1. live'.count <= ledger'.total
    BY <1>1, <1>2, <1>5
  <2>2. ledger'.pending.head <= made'
    <3>1. made \in Nat
      BY DEF LogTypes
    <3> QED
      BY <3>1, <1>5 DEF NoPending, GENESIS
  <2> QED
    BY <1>5, <1>9, <2>1, <2>2 DEF Books
<1>11. End(G, ledger) = Len(G) /\ End(G, ledger)' = Len(G)
  <2>1. End(G, ledger) = Len(G)
    BY <1>2 DEF End, WholeOf, Reach
  <2>2. End(G, ledger)' = Len(G)
    BY <1>5 DEF End, WholeOf
  <2> QED
    BY <2>1, <2>2
<1>12. Firm(G)' = Len(G)
  BY <1>11 DEF Firm, Idle
<1>13. Moves(G, G)
  BY <1>11, <1>12 DEF Moves, Settles, Same
<1>14. Files(G)'
  BY <1>2, <1>11, <1>12, FilesKept DEF Same
<1>15. Writing(G)' /\ Archiving(G)' /\ Phase(G)'
  BY <1>5 DEF Writing, Archiving, Phase, Anchored, Idle
<1> QED
  BY <1>7, <1>8, <1>10, <1>13, <1>14, <1>15 DEF Onward, LogStory

LEMMA CommitLedgerStep ==
  ASSUME LogTypes, NEW G \in Seq(Rec), LogStory(G), CommitLedger
  PROVE  Onward(G)
<1>1. /\ op.pc = "written" /\ acked' = acked \union ToSet(Hashes(op.new)) /\ op' = Idle
      /\ ledger' = [ledger EXCEPT !.head = ledger.pending.head, !.total = ledger.pending.total,
                                  !.pending = NoPending]
      /\ UNCHANGED <<live, index, file, made, undone>>
  BY DEF CommitLedger
<1>2. /\ Anchored(ledger) /\ live.tail = "clean" /\ ledger.pending # NoPending
      /\ Len(G) = ledger.pending.total /\ Len(op.new) = Size(ledger)
      /\ \A j \in 1..Len(op.new) : op.new[j].n = Base(ledger) + j
  BY <1>1 DEF LogStory, Phase, Writing
<1>3. op.new \in Seq(Rec)
  BY <1>1, HolderIs DEF LogTypes
<1>4. /\ ledger.pending.total = ledger.total + Size(ledger)
      /\ \A j \in 1..(Len(G) - ledger.total) : G[ledger.total + j].n = Base(ledger) + j
  BY <1>2 DEF LogStory, Books, Accounts, Announced
<1>5. ledger.total \in Nat /\ ledger.total <= Len(G) /\ Size(ledger) \in Nat
  BY LedgerParts DEF LogStory, Books, LogTypes
<1>6. \A h \in acked' : \E i \in 1..Len(G) : G[i].n = h
  <2> TAKE h \in acked'
  <2>1. CASE h \in acked
    <3>1. PICK i \in 1..ledger.total : G[i].n = h
      BY <2>1 DEF LogStory, Books
    <3> QED
      BY <3>1, <1>5
  <2>2. CASE h \in ToSet(Hashes(op.new))
    <3>1. PICK j \in 1..Len(op.new) : h = op.new[j].n
      <4>1. /\ Hashes(op.new) \in Seq(Nat) /\ Len(Hashes(op.new)) = Len(op.new)
            /\ \A i \in 1..Len(op.new) : Hashes(op.new)[i] = op.new[i].n
        BY <1>3, HashesIs
      <4>2. DOMAIN Hashes(op.new) = 1..Len(op.new)
        BY <4>1
      <4> QED
        BY <2>2, <4>1, <4>2 DEF ToSet
    <3>2. h = Base(ledger) + j /\ j \in 1..Size(ledger)
      BY <3>1, <1>2
    <3>3. j \in 1..(Len(G) - ledger.total) /\ ledger.total + j \in 1..Len(G)
      BY <3>2, <1>2, <1>4, <1>5
    <3>4. h = G[ledger.total + j].n
      BY <3>2, <3>3, <1>4
    <3> QED
      BY <3>3, <3>4
  <2> QED
    BY <1>1, <2>1, <2>2
<1> QED
  BY <1>1, <1>2, <1>6, CommitStep

\* An archive whose last step is missing is one that repair sees.
LEMMA HangingIsUnswapped ==
  ASSUME NEW G, Hanging(G)
  PROVE  Unswapped(live, ledger)
BY ChainLogAssumption DEF Hanging, Unswapped

LEMMA RepairSettleStep ==
  ASSUME LogTypes, NEW G \in Seq(Rec), LogStory(G), RepairSettle
  PROVE  Onward(G)
<1>1. /\ op.pc = "repair" /\ ~Unswapped(live, ledger) /\ ledger.pending # NoPending
      /\ Tip(live.head, live.recs) = ledger.pending.head /\ op' = Idle
      /\ ledger' = [ledger EXCEPT !.head = ledger.pending.head, !.total = ledger.pending.total,
                                  !.pending = NoPending]
      /\ UNCHANGED <<live, index, file, made, undone, acked>>
  BY DEF RepairSettle
<1>2. Anchored(ledger) /\ live.tail = "clean"
  BY <1>1, HangingIsUnswapped DEF LogStory, Phase
<1>3. Len(G) = ledger.pending.total
  BY <1>1, TailIs DEF LogTypes, LogStory, Lines, Books
<1>4. ledger.total \in Nat /\ ledger.total <= Len(G)
  BY LedgerParts DEF LogStory, Books, LogTypes
<1>5. \A h \in acked' : \E i \in 1..Len(G) : G[i].n = h
  <2> TAKE h \in acked'
  <2>1. PICK i \in 1..ledger.total : G[i].n = h
    BY <1>1 DEF LogStory, Books
  <2> QED
    BY <1>4, <2>1
<1> QED
  BY <1>1, <1>2, <1>3, <1>5, CommitStep

\* Lines are cut down to the committed ones.
LEMMA CutStory ==
  ASSUME LogTypes, NEW G \in Seq(Rec), LogStory(G), NEW H, H = Slice(G, 0, ledger.total)
  PROVE  /\ H \in Seq(Rec) /\ Len(H) = ledger.total /\ ledger.total \in Nat /\ ledger.total <= Len(G)
         /\ Chain(H) /\ live.count \in 0..ledger.total /\ live.head = N(H, live.count)
         /\ Accounts(H, ledger) /\ Same(G, H, ledger.total)
         /\ \A i \in 1..ledger.total : H[i] = G[i]
         /\ Slice(H, live.count, Len(H)) = Slice(G, live.count, ledger.total)
<1>1. /\ live \in LogFile /\ ledger \in Ledger /\ Chain(G) /\ Holding(live, G) /\ Accounts(G, ledger)
      /\ live.count <= ledger.total /\ live.count \in Nat
  BY DEF LogTypes, LogStory, Lines, Books, LogFile
<1>2. ledger.total \in Nat /\ ledger.total <= Len(G) /\ ledger.total \in 0..Len(G)
  BY <1>1, LedgerParts
<1>3. /\ H \in Seq(Rec) /\ Len(H) = ledger.total /\ Chain(H)
      /\ \A i \in 1..ledger.total : H[i] = G[i]
      /\ \A i \in 0..ledger.total : N(H, i) = N(G, i)
      /\ \A a \in 0..ledger.total : \A b \in a..ledger.total : Slice(H, a, b) = Slice(G, a, b)
      /\ \A led \in Ledger : Accounts(G, led) /\ led.total <= ledger.total => Accounts(H, led)
  BY <1>1, <1>2, PrefixStory
<1>4. live.count \in 0..ledger.total /\ live.head = N(H, live.count)
  BY <1>1, <1>2, <1>3 DEF Holding
<1>5. Accounts(H, ledger)
  BY <1>1, <1>2, <1>3
<1>6. Same(G, H, ledger.total)
  <2>1. 0 \in 0..ledger.total /\ ledger.total \in 0..ledger.total
    BY <1>2
  <2> QED
    BY <1>3, <2>1 DEF Same
<1>7. Slice(H, live.count, Len(H)) = Slice(G, live.count, ledger.total)
  <2>1. ledger.total \in live.count..ledger.total
    BY <1>2, <1>4
  <2> QED
    BY <1>3, <1>4, <2>1
<1> QED
  BY <1>2, <1>3, <1>4, <1>5, <1>6, <1>7

\* What is written of a batch is taken back.
LEMMA TruncateStep ==
  ASSUME LogTypes, NEW G \in Seq(Rec), LogStory(G), Truncate
  PROVE  Onward(G)
<1>1. /\ op.pc = "undo" /\ live' = [live EXCEPT !.recs = Take(@, op.start), !.tail = "clean"]
      /\ undone' = undone \union ToSet(Hashes(op.new)) /\ op' = [op EXCEPT !.pc = "retract"]
      /\ UNCHANGED <<ledger, index, file, made, acked>>
  BY DEF Truncate, TruncateTo
<1>2. op \in [pc : {"announced", "written", "undo", "retract"}, new : Seq(Rec), start : Nat]
  BY <1>1, HolderIs DEF LogTypes
<1>3. /\ op' \in Holder /\ op'.pc = "retract" /\ op'.new = op.new /\ op'.start = op.start
      /\ op.new \in Seq(Rec)
  <2>1. /\ op' \in [pc : {"announced", "written", "undo", "retract"}, new : Seq(Rec), start : Nat]
        /\ op'.pc = "retract" /\ op'.new = op.new /\ op'.start = op.start
    BY <1>1, <1>2
  <2> QED
    BY <1>2, <2>1 DEF Holder
<1>4. /\ ~live.blank /\ ledger.pending # NoPending /\ op.start = ledger.total - live.count
      /\ Len(op.new) = Size(ledger)
      /\ \A j \in 1..Len(op.new) :
           /\ op.new[j].n = Base(ledger) + j /\ op.new[j].at = j /\ op.new[j].of = Len(op.new)
           /\ op.new[j].prev = IF j = 1 THEN ledger.head ELSE Base(ledger) + j - 1
      /\ Anchored(ledger)
  BY <1>1 DEF LogStory, Writing, Phase
<1>5. /\ live \in LogFile /\ ledger \in Ledger /\ Holding(live, G) /\ Accounts(G, ledger) /\ made \in Nat
      /\ Lines(G) /\ Chain(G) /\ Len(G) \in Nat /\ live.count \in Nat /\ live.count <= ledger.total
  BY DEF LogTypes, LogStory, Lines, Books, LogFile
<1>0. PICK H : H = Slice(G, 0, ledger.total)
  OBVIOUS
<1>6. /\ H \in Seq(Rec) /\ Len(H) = ledger.total /\ ledger.total \in Nat /\ ledger.total <= Len(G)
      /\ Chain(H) /\ live.count \in 0..ledger.total /\ live.head = N(H, live.count)
      /\ Accounts(H, ledger) /\ Same(G, H, ledger.total)
      /\ \A i \in 1..ledger.total : H[i] = G[i]
      /\ Slice(H, live.count, Len(H)) = Slice(G, live.count, ledger.total)
  BY <1>0, CutStory
<1>7. /\ ledger.head = N(G, ledger.total) /\ ledger.head <= Base(ledger) /\ Base(ledger) \in Int
      /\ Size(ledger) \in Nat /\ ledger.head \in Nat /\ ledger.pending.head = Base(ledger) + Size(ledger)
      /\ ledger.pending.head <= made /\ ledger.total < ledger.pending.total
  <2>1. ledger.total \in ledger.total..Len(G)
    BY <1>6
  <2>2. ledger.total < ledger.pending.total
    BY <1>4, <1>5, <2>1, PendingTip
  <2>3. /\ ledger.head = N(G, ledger.total) /\ Announced(G, ledger) /\ ledger.pending.head <= made
    BY <1>4 DEF LogStory, Books, Accounts
  <2>4. Base(ledger) \in Int /\ Size(ledger) \in Nat /\ ledger.head \in Nat /\ ledger.pending.head \in Nat
    BY <1>5, LedgerParts
  <2>5. ledger.pending.head = Base(ledger) + Size(ledger)
    BY <2>4 DEF Base
  <2> QED
    BY <2>2, <2>3, <2>4, <2>5 DEF Announced
<1>8. /\ live' \in LogFile /\ live'.head = live.head /\ live'.count = live.count /\ live'.tail = "clean"
      /\ live'.blank = live.blank /\ live'.recs = Slice(H, live.count, Len(H))
  <2>1. Take(live.recs, op.start) = Slice(G, live.count, ledger.total)
    <3>1. op.start \in Nat /\ op.start <= Len(G) - live.count /\ live.count + op.start = ledger.total
      BY <1>4, <1>5, <1>6
    <3>2. live.recs = Slice(G, live.count, Len(G)) /\ Len(G) \in live.count..Len(G)
      BY <1>5, <1>6 DEF Holding
    <3> QED
      BY <1>5, <3>1, <3>2, TakeOfSlice
  <2>2. Slice(G, live.count, ledger.total) \in Seq(Rec)
    <3>1. ledger.total \in live.count..Len(G)
      BY <1>5, <1>6
    <3> QED
      BY <1>5, <3>1, SliceIs
  <2> QED
    BY <1>1, <1>5, <1>6, <2>1, <2>2 DEF LogFile
<1>9. undone' \subseteq 1..made /\ \A h \in undone' : h \in undone \/ ledger.head < h
  <2>1. ToSet(Hashes(op.new)) = {op.new[j].n : j \in 1..Len(op.new)}
    <3>1. /\ Hashes(op.new) \in Seq(Nat) /\ Len(Hashes(op.new)) = Len(op.new)
          /\ \A i \in 1..Len(op.new) : Hashes(op.new)[i] = op.new[i].n
      BY <1>3, HashesIs
    <3>2. DOMAIN Hashes(op.new) = 1..Len(op.new)
      BY <3>1
    <3> QED
      BY <3>1, <3>2 DEF ToSet
  <2>2. \A j \in 1..Len(op.new) : op.new[j].n = Base(ledger) + j
    BY <1>4
  <2>3. \A j \in 1..Len(op.new) : Base(ledger) + j \in 1..made /\ ledger.head < Base(ledger) + j
    BY <1>4, <1>5, <1>7
  <2>4. undone \subseteq 1..made
    BY DEF LogTypes
  <2> QED
    BY <1>1, <2>1, <2>2, <2>3, <2>4
<1>10. LogTypes'
  BY <1>1, <1>3, <1>8, <1>9 DEF LogTypes
<1>11. Lines(H)'
  <2>1. \A i \in 1..Len(H) : H[i].n <= made' /\ H[i].n \notin undone'
    <3> TAKE i \in 1..Len(H)
    <3>1. i \in 1..Len(G) /\ H[i] = G[i] /\ i \in 1..ledger.total
      BY <1>6
    <3>2. G[i].n \in 1..made /\ G[i].n \notin undone /\ N(G, i) = G[i].n
      BY <1>5, <3>1, PositiveNumbers, LineIsRec
    <3>3. G[i].n <= ledger.head
      <4>1. i \in 0..Len(G) /\ ledger.total \in 0..Len(G) /\ (i < ledger.total \/ i = ledger.total)
        BY <1>6, <3>1
      <4>2. i < ledger.total => N(G, i) < N(G, ledger.total)
        BY <1>5, <4>1 DEF Chain
      <4> QED
        BY <1>5, <1>7, <3>2, <4>1, <4>2
    <3> QED
      BY <1>1, <1>5, <1>7, <1>9, <3>1, <3>2, <3>3
  <2>2. Holding(live', H)
    BY <1>6, <1>8 DEF Holding
  <2> QED
    BY <1>4, <1>6, <1>8, <2>1, <2>2 DEF Lines
<1>12. Books(H, ledger)'
  BY <1>1, <1>6, <1>8 DEF LogStory, Books
<1>13. End(H, ledger)' = ledger.total
  BY <1>1, <1>6, <1>7, <1>8 DEF End, WholeOf, ReachOf
<1>14. Firm(G) = ledger.total /\ Firm(H)' = ledger.total
  BY <1>1, <1>3, <1>13 DEF Firm
<1>15. Moves(G, H)
  BY <1>6, <1>13, <1>14 DEF Moves, Withdraws
<1>16. Files(H)'
  BY <1>1, <1>6, <1>8, <1>14, FilesKept
<1>17. Writing(H)'
  BY <1>1, <1>3, <1>4, <1>6, <1>8 DEF Writing, Size, Base
<1>18. Archiving(H)'
  BY <1>3 DEF Archiving
<1>19. Phase(H)'
  BY <1>1, <1>3, <1>4, <1>8 DEF Phase, Anchored
<1>20. LogStory(H)'
  BY <1>11, <1>12, <1>16, <1>17, <1>18, <1>19 DEF LogStory
<1> QED
  BY <1>6, <1>10, <1>15, <1>20 DEF Onward

\* repair drops what is there of a torn batch.
LEMMA RepairDropStep ==
  ASSUME LogTypes, NEW G \in Seq(Rec), LogStory(G), RepairDrop
  PROVE  Onward(G)
<1>1. /\ op.pc = "repair" /\ ~Unswapped(live, ledger) /\ IsTornBatch(live, ledger)
      /\ live' = BatchDropped(live, ledger) /\ op' = [pc |-> "clear"]
      /\ UNCHANGED <<ledger, index, file, made, acked, undone>>
  BY DEF RepairDrop
<1>2. Anchored(ledger) /\ live.tail = "clean"
  BY <1>1, HangingIsUnswapped DEF LogStory, Phase
<1>3. /\ live \in LogFile /\ ledger \in Ledger /\ Holding(live, G) /\ Accounts(G, ledger) /\ made \in Nat
      /\ Lines(G) /\ Chain(G) /\ Len(G) \in Nat /\ live.count \in Nat /\ live.count <= ledger.total
  BY DEF LogTypes, LogStory, Lines, Books, LogFile
<1>4. ledger.pending # NoPending /\ Len(G) # ledger.pending.total
  <2>1. ledger.pending # NoPending /\ Tip(live.head, live.recs) # ledger.pending.head
    BY <1>1 DEF IsTornBatch
  <2> QED
    BY <1>3, <2>1, TailIs
<1>0. PICK H : H = Slice(G, 0, ledger.total)
  OBVIOUS
<1>5. /\ H \in Seq(Rec) /\ Len(H) = ledger.total /\ ledger.total \in Nat /\ ledger.total <= Len(G)
      /\ Chain(H) /\ live.count \in 0..ledger.total /\ live.head = N(H, live.count)
      /\ Accounts(H, ledger) /\ Same(G, H, ledger.total)
      /\ \A i \in 1..ledger.total : H[i] = G[i]
      /\ Slice(H, live.count, Len(H)) = Slice(G, live.count, ledger.total)
  BY <1>0, CutStory
<1>6. ledger.total # ledger.pending.total
  <2>1. ledger.total \in ledger.total..Len(G)
    BY <1>5
  <2>2. ledger.total < ledger.pending.total
    BY <1>3, <1>4, <2>1, PendingTip
  <2> QED
    BY <1>5, <2>2
<1>7. /\ live' \in LogFile /\ live'.head = live.head /\ live'.count = live.count /\ live'.tail = "clean"
      /\ live'.blank = (live.count = 0 /\ ledger.total = 0) /\ live'.recs = Slice(H, live.count, Len(H))
  BY <1>1, <1>2, <1>3, <1>5, DroppedIs
<1>8. op' \in Holder /\ op'.pc = "clear"
  BY <1>1 DEF Holder
<1>9. LogTypes'
  BY <1>1, <1>7, <1>8 DEF LogTypes
<1>10. Lines(H)'
  <2>1. \A i \in 1..Len(H) : H[i].n <= made' /\ H[i].n \notin undone'
    <3> TAKE i \in 1..Len(H)
    <3>1. i \in 1..Len(G) /\ H[i] = G[i]
      BY <1>5
    <3> QED
      BY <1>1, <1>3, <3>1 DEF Lines
  <2>2. Holding(live', H)
    BY <1>5, <1>7 DEF Holding
  <2>3. live'.blank => H = <<>>
    BY <1>5, <1>7, EmptySeq
  <2> QED
    BY <1>5, <1>7, <2>1, <2>2, <2>3 DEF Lines
<1>11. Books(H, ledger)'
  BY <1>1, <1>5, <1>7 DEF LogStory, Books
<1>12. End(G, ledger) = ledger.total /\ End(H, ledger)' = ledger.total
  BY <1>1, <1>2, <1>4, <1>5, <1>6, <1>7 DEF End, WholeOf, ReachOf
<1>13. Firm(G) = ledger.total /\ Firm(H)' = ledger.total
  BY <1>1, <1>8, <1>12 DEF Firm
<1>14. Moves(G, H)
  BY <1>5, <1>12, <1>13 DEF Moves, Stays
<1>15. Files(H)'
  BY <1>1, <1>5, <1>7, <1>13, FilesKept
<1>16. Writing(H)' /\ Archiving(H)'
  BY <1>8 DEF Writing, Archiving
<1>17. Phase(H)'
  BY <1>1, <1>2, <1>5, <1>7, <1>8 DEF Phase, Anchored
<1>18. LogStory(H)'
  BY <1>10, <1>11, <1>15, <1>16, <1>17 DEF LogStory
<1> QED
  BY <1>5, <1>9, <1>14, <1>18 DEF Onward

\* Some lines of the announced batch reach the file.
Grown(G, H, k) ==
  /\ H \in Seq(Rec) /\ Len(H) = ledger.total + k /\ Chain(H)
  /\ Same(G, H, ledger.total) /\ live.count \in 0..ledger.total /\ live.head = N(H, live.count)
  /\ live.recs \o Take(op.new, k) = Slice(H, live.count, Len(H))
  /\ Accounts(H, ledger)
  /\ \A i \in 1..ledger.total : H[i] = G[i]
  /\ \A j \in 1..k : H[ledger.total + j] = op.new[j]

LEMMA WrittenLines ==
  ASSUME LogTypes, NEW G \in Seq(Rec), LogStory(G), op.pc = "announced", NEW k \in 0..Len(op.new)
  PROVE  \E H : Grown(G, H, k)
<1>0. PICK H : H = G \o Take(op.new, k)
  OBVIOUS
<1>1. /\ live \in LogFile /\ ledger \in Ledger /\ Holding(live, G) /\ Accounts(G, ledger)
      /\ Lines(G) /\ Chain(G) /\ Len(G) \in Nat /\ live.count \in Nat /\ live.count <= ledger.total
      /\ op.new \in Seq(Rec)
  BY HolderIs DEF LogTypes, LogStory, Lines, Books, LogFile
<1>2. /\ ledger.pending # NoPending /\ Len(op.new) = Size(ledger) /\ Len(G) = ledger.total
      /\ \A j \in 1..Len(op.new) :
         /\ op.new[j].n = Base(ledger) + j /\ op.new[j].at = j /\ op.new[j].of = Len(op.new)
         /\ op.new[j].prev = IF j = 1 THEN ledger.head ELSE Base(ledger) + j - 1
  BY DEF LogStory, Writing
<1>3. /\ ledger.head = N(G, ledger.total) /\ Announced(G, ledger) /\ Archived(ledger.segs) \in 0..ledger.total
      /\ ledger.segs # <<>> => Last(ledger.segs).count > 0 /\ Last(ledger.segs).head = N(G, Archived(ledger.segs))
  BY <1>1, <1>2 DEF Accounts
<1>4. /\ Base(ledger) \in Int /\ Size(ledger) \in Nat /\ ledger.head \in Nat /\ ledger.head <= Base(ledger)
      /\ ledger.total \in Nat /\ ledger.pending.total = ledger.total + Size(ledger)
  BY <1>1, <1>3, LedgerParts DEF Announced
<1>5. PICK L : L = ledger.total
  OBVIOUS
<1>6. PICK B : B = Base(ledger)
  OBVIOUS
<1>7. PICK T : T = Take(op.new, k)
  OBVIOUS
<1>8. T \in Seq(Rec) /\ Len(T) = k /\ (\A j \in 1..k : T[j] = op.new[j]) /\ k \in Nat /\ k <= Size(ledger)
  <2>1. T = Slice(op.new, 0, k)
    BY <1>1, <1>7 DEF Take, Slice
  <2>2. T \in Seq(Rec) /\ Len(T) = k /\ \A j \in 1..k : T[j] = op.new[j]
    BY <1>1, <2>1, PrefixIs
  <2>3. k \in Nat /\ k <= Size(ledger)
    BY <1>2, <1>4
  <2> QED
    BY <2>2, <2>3
<1>9. /\ H \in Seq(Rec) /\ Len(H) = L + k
      /\ \A i \in 1..L : H[i] = G[i]
      /\ \A j \in 1..k : H[L + j] = T[j]
      /\ Joins(Slice(H, live.count, Len(H)), Slice(G, live.count, L), T)
      /\ Slice(H, 0, L) = Slice(G, 0, L)
  <2>1. /\ live.count \in 0..Len(G) /\ 0 \in 0..Len(G) /\ Len(G) \in 0..Len(G) /\ Joins(H, G, T)
        /\ Len(G) = L /\ L \in Nat
    BY <1>0, <1>1, <1>2, <1>5, <1>7 DEF Joins
  <2>2. /\ H \in Seq(Rec) /\ Len(H) = Len(G) + Len(T)
        /\ \A i \in 1..Len(G) : H[i] = G[i]
        /\ \A j \in 1..Len(T) : H[Len(G) + j] = T[j]
        /\ Joins(Slice(H, live.count, Len(H)), Slice(G, live.count, Len(G)), T)
    <3>0. T \in Seq(Rec)
      BY <1>8
    <3>1. H \in Seq(Rec) /\ Len(H) = Len(G) + Len(T)
      BY <3>0, <2>1, SliceOfConcat
    <3>2. \A i \in 1..Len(G) : H[i] = G[i]
      BY <3>0, <2>1, SliceOfConcat
    <3>3. \A j \in 1..Len(T) : H[Len(G) + j] = T[j]
      <4> TAKE j \in 1..Len(T)
      <4>1. H = G \o T /\ Len(T) \in Nat /\ Len(G) \in Nat
        BY <3>0, <2>1 DEF Joins
      <4>2. Len(G) + j \in 1..Len(G) + Len(T) /\ Len(G) + j > Len(G) /\ (Len(G) + j) - Len(G) = j
        BY <4>1
      <4> QED
        BY <3>0, <4>1, <4>2
    <3>4. Joins(Slice(H, live.count, Len(H)), Slice(G, live.count, Len(G)), T)
      BY <3>0, <2>1, SliceOfConcat
    <3> QED
      BY <3>1, <3>2, <3>3, <3>4
  <2>3. Slice(H, 0, Len(G)) = Slice(G, 0, Len(G))
    BY <1>8, <2>1, SliceOfConcat
  <2>4. Len(H) = L + k /\ \A j \in 1..k : H[L + j] = T[j]
    BY <1>8, <2>1, <2>2
  <2> QED
    BY <2>1, <2>2, <2>3, <2>4
<1>9a. L \in Nat /\ k \in Nat /\ Len(H) = L + k /\ B \in Int /\ Len(G) = L
  BY <1>2, <1>4, <1>5, <1>6, <1>8, <1>9
<1>10. \A j \in 1..k : /\ H[L + j] = op.new[j] /\ H[L + j].n = B + j
                       /\ H[L + j].prev = IF j = 1 THEN ledger.head ELSE B + j - 1
  <2> TAKE j \in 1..k
  <2>1. j \in 1..Len(op.new)
    BY <1>2, <1>4, <1>8
  <2>2. H[L + j] = op.new[j]
    BY <1>8, <1>9
  <2> QED
    BY <1>2, <1>6, <2>1, <2>2
<1>11. /\ \A i \in 0..L : N(H, i) = N(G, i)
       /\ \A j \in 1..k : N(H, L + j) = B + j
  <2>1. \A j \in 1..k : L + j # 0
    BY <1>9a
  <2>2. \A j \in 1..k : N(H, L + j) = B + j
    BY <1>10, <2>1 DEF N
  <2>3. ASSUME NEW i \in 0..L PROVE N(H, i) = N(G, i)
    <3>1. i = 0 \/ i \in 1..L
      BY <1>9a
    <3> QED
      BY <1>9, <3>1 DEF N
  <2> QED
    BY <2>2, <2>3
<1>12. \A i \in 0..L : N(G, i) \in Nat /\ N(G, i) <= B
  <2> TAKE i \in 0..L
  <2>1. i \in 0..Len(G) /\ L \in 0..Len(G) /\ (i < L \/ i = L)
    BY <1>2, <1>4, <1>5
  <2>2. N(G, i) \in Nat /\ N(G, L) \in Nat /\ (i < L => N(G, i) < N(G, L))
    BY <1>1, <2>1, NumbersGrow DEF Chain
  <2> QED
    BY <1>3, <1>4, <1>5, <1>6, <2>1, <2>2
<1>13. \A i, j \in 0..Len(H) : i < j => N(H, i) < N(H, j)
  <2> SUFFICES ASSUME NEW i \in 0..Len(H), NEW j \in 0..Len(H), i < j PROVE N(H, i) < N(H, j)
    OBVIOUS
  <2>1. CASE j <= L
    <3>1. i \in 0..L /\ j \in 0..L /\ i \in 0..Len(G) /\ j \in 0..Len(G)
      BY <1>2, <1>4, <1>5, <2>1
    <3>2. N(G, i) < N(G, j)
      BY <1>1, <3>1 DEF Chain
    <3> QED
      BY <1>11, <3>1, <3>2
  <2>2. CASE i <= L /\ j > L
    <3>1. i \in 0..L /\ j - L \in 1..k /\ L + (j - L) = j
      BY <1>9a, <2>2
    <3>2. N(H, j) = B + (j - L) /\ N(H, i) = N(G, i) /\ N(G, i) \in Nat /\ N(G, i) <= B
      BY <1>11, <1>12, <3>1
    <3>3. B \in Int
      BY <1>4, <1>6
    <3> QED
      BY <3>1, <3>2, <3>3
  <2>3. CASE i > L
    <3>1. i - L \in 1..k /\ L + (i - L) = i /\ j - L \in 1..k /\ L + (j - L) = j /\ L \in Nat
      BY <1>9a, <2>3
    <3>2. N(H, j) = B + (j - L) /\ N(H, i) = B + (i - L)
      BY <1>11, <3>1
    <3>3. B \in Int
      BY <1>4, <1>6
    <3> QED
      BY <3>1, <3>2, <3>3
  <2> QED
    BY <1>4, <1>5, <2>1, <2>2, <2>3
<1>14. \A i \in 1..Len(H) : H[i].prev = N(H, i - 1)
  <2> TAKE i \in 1..Len(H)
  <2>1. CASE i <= L
    <3>1. i \in 1..L /\ i \in 1..Len(G) /\ i - 1 \in 0..L
      BY <1>2, <1>4, <1>5, <2>1
    <3> QED
      BY <1>1, <1>9, <1>11, <3>1 DEF Chain
  <2>2. CASE i = L + 1
    <3>1. 1 \in 1..k /\ L \in 0..L /\ i - 1 = L
      BY <1>9a, <2>2
    <3>2. H[L + 1].prev = ledger.head
      BY <1>10, <3>1
    <3>3. N(H, L) = ledger.head
      BY <1>3, <1>5, <1>11, <3>1
    <3> QED
      BY <2>2, <3>1, <3>2, <3>3
  <2>3. CASE i > L + 1
    <3> DEFINE j == i - L
    <3>1. j \in 1..k /\ j # 1 /\ L + j = i /\ j - 1 \in 1..k /\ L + (j - 1) = i - 1
      BY <1>9a, <2>3
    <3> HIDE DEF j
    <3>2. H[L + j].prev = B + j - 1 /\ N(H, L + (j - 1)) = B + (j - 1)
      BY <1>10, <1>11, <3>1
    <3>3. B + j - 1 = B + (j - 1)
      BY <1>4, <1>6, <3>1
    <3> QED
      BY <3>1, <3>2, <3>3
  <2> QED
    BY <1>4, <1>5, <2>1, <2>2, <2>3
<1>15. Chain(H)
  BY <1>13, <1>14 DEF Chain
<1>16. live.count \in 0..L /\ live.head = N(H, live.count) /\ live.recs = Slice(G, live.count, L)
  <2>1. live.count \in 0..L
    BY <1>1, <1>4, <1>5
  <2> QED
    BY <1>1, <1>2, <1>5, <1>11, <2>1 DEF Holding
<1>17. Announced(H, ledger)
  <2>1. Len(H) - L = k /\ Len(H) <= ledger.pending.total
    BY <1>4, <1>5, <1>8, <1>9
  <2>2. \A j \in 1..k : LET r == H[L + j] IN r.n = B + j /\ r.at = j /\ r.of = Size(ledger)
    <3> TAKE j \in 1..k
    <3>1. j \in 1..Len(op.new)
      BY <1>2, <1>4, <1>8
    <3>2. H[L + j] = op.new[j] /\ H[L + j].n = B + j
      BY <1>10
    <3>3. op.new[j].at = j /\ op.new[j].of = Size(ledger)
      BY <1>2, <3>1
    <3> QED
      BY <3>2, <3>3
  <2> QED
    BY <1>3, <1>5, <1>6, <2>1, <2>2 DEF Announced
<1>18. Accounts(H, ledger)
  <2>1. L \in 0..Len(H) /\ L \in 0..L /\ Archived(ledger.segs) \in 0..L
    BY <1>3, <1>4, <1>5, <1>8, <1>9
  <2>2. N(H, L) = N(G, L) /\ N(H, Archived(ledger.segs)) = N(G, Archived(ledger.segs))
    BY <1>11, <2>1
  <2> QED
    BY <1>2, <1>3, <1>5, <1>17, <2>1, <2>2 DEF Accounts
<1>19. live.recs \o Take(op.new, k) = Slice(H, live.count, Len(H))
  BY <1>7, <1>9, <1>16 DEF Joins
<1>20. \A j \in 1..k : H[ledger.total + j] = op.new[j]
  BY <1>5, <1>10
<1>21. Grown(G, H, k)
  BY <1>5, <1>9, <1>15, <1>16, <1>18, <1>19, <1>20 DEF Grown, Same
<1> QED
  BY <1>21

LEMMA WriteStep ==
  ASSUME LogTypes, NEW G \in Seq(Rec), LogStory(G), op.pc = "announced",
         NEW k \in 0..Len(op.new), NEW tail \in {"clean", "part", "whole"}, tail = "whole" => k > 0,
         live' = [live EXCEPT !.recs = @ \o Take(op.new, k), !.tail = tail],
         NEW pc \in {"idle", "written", "undo"},
         op' = IF pc = "idle" THEN Idle ELSE [op EXCEPT !.pc = pc],
         pc = "written" => k = Len(op.new) /\ tail = "clean",
         UNCHANGED <<ledger, index, file, made, acked, undone>>
  PROVE  Onward(G)
<1>1. /\ live \in LogFile /\ ledger \in Ledger /\ Holding(live, G) /\ Accounts(G, ledger) /\ made \in Nat
      /\ Lines(G) /\ live.count \in Nat /\ live.count <= ledger.total /\ live.tail = "clean"
      /\ Anchored(ledger) /\ op \in Holder /\ Len(G) \in Nat
  BY DEF LogTypes, LogStory, Lines, Books, LogFile, Phase
<1>2. op \in [pc : {"announced", "written", "undo", "retract"}, new : Seq(Rec), start : Nat]
  BY <1>1, HolderIs
<1>3. /\ op' \in Holder /\ op'.pc = pc
      /\ pc # "idle" => op'.new = op.new /\ op'.start = op.start
  <2>1. CASE pc = "idle"
    BY <2>1 DEF Idle, Holder
  <2>2. CASE pc # "idle"
    <3>1. /\ op' \in [pc : {"announced", "written", "undo", "retract"}, new : Seq(Rec), start : Nat]
          /\ op'.pc = pc /\ op'.new = op.new /\ op'.start = op.start
      BY <1>2, <2>2
    <3> QED
      BY <3>1 DEF Holder
  <2> QED
    BY <2>1, <2>2
<1>4. /\ ~live.blank /\ ledger.pending # NoPending /\ Len(op.new) = Size(ledger) /\ Len(G) = ledger.total
      /\ op.start = ledger.total - live.count
      /\ \A h \in acked \union undone : h <= Base(ledger)
      /\ \A j \in 1..Len(op.new) :
         /\ op.new[j].n = Base(ledger) + j /\ op.new[j].at = j /\ op.new[j].of = Len(op.new)
         /\ op.new[j].prev = IF j = 1 THEN ledger.head ELSE Base(ledger) + j - 1
  BY DEF LogStory, Writing
<1>5. /\ Base(ledger) \in Int /\ Size(ledger) \in Nat /\ ledger.total \in Nat /\ Size(ledger) > 0
      /\ ledger.pending.total = ledger.total + Size(ledger) /\ ledger.pending.head \in Nat
      /\ ledger.pending.head = Base(ledger) + Size(ledger) /\ ledger.pending.head <= made
  <2>1. Announced(G, ledger) /\ ledger.pending.head <= made
    BY <1>1, <1>4 DEF LogStory, Books, Accounts
  <2>2. Base(ledger) \in Int /\ Size(ledger) \in Nat /\ ledger.total \in Nat /\ ledger.pending.head \in Nat
    BY <1>1, LedgerParts
  <2>3. ledger.pending.head = Base(ledger) + Size(ledger)
    BY <2>2 DEF Base
  <2> QED
    BY <2>1, <2>2, <2>3 DEF Announced
<1>6. PICK H : Grown(G, H, k)
  BY WrittenLines
<1>7. /\ H \in Seq(Rec) /\ Len(H) = ledger.total + k /\ Chain(H)
      /\ Same(G, H, ledger.total) /\ live.count \in 0..ledger.total /\ live.head = N(H, live.count)
      /\ live.recs \o Take(op.new, k) = Slice(H, live.count, Len(H))
      /\ Accounts(H, ledger)
      /\ \A i \in 1..ledger.total : H[i] = G[i]
      /\ \A j \in 1..k : H[ledger.total + j] = op.new[j]
  BY <1>6 DEF Grown
<1>8. /\ live' \in LogFile /\ live'.head = live.head /\ live'.count = live.count /\ live'.tail = tail
      /\ live'.blank = live.blank /\ live'.recs = Slice(H, live.count, Len(H))
  <2>1. Slice(H, live.count, Len(H)) \in Seq(Rec)
    <3>1. Len(H) = ledger.total + k /\ live.count \in 0..ledger.total /\ ledger.total \in Nat /\ k \in Nat
      BY <1>5, <1>7
    <3>2. Len(H) \in live.count..Len(H)
      BY <3>1
    <3> QED
      BY <1>1, <1>7, <3>2, SliceIs
  <2> QED
    BY <1>1, <1>7, <2>1 DEF LogFile
<1>9. LogTypes'
  BY <1>3, <1>8 DEF LogTypes
<1>10. k \in Nat /\ k <= Size(ledger) /\ Len(H) \in Nat /\ live.count \in 0..Len(H)
       /\ (tail = "whole" => live.count < Len(H) /\ ledger.total < Len(H))
  BY <1>1, <1>4, <1>5, <1>7, SMTT(30)
<1>11. Lines(H)'
  <2>1. \A i \in 1..Len(H) : H[i].n <= made' /\ H[i].n \notin undone'
    <3> TAKE i \in 1..Len(H)
    <3>1. CASE i <= ledger.total
      <4>1. i \in 1..ledger.total /\ i \in 1..Len(G)
        BY <1>4, <1>5, <1>10, <3>1
      <4> QED
        BY <1>1, <1>7, <4>1 DEF Lines
    <3>2. CASE i > ledger.total
      <4> DEFINE j == i - ledger.total
      <4>1. j \in 1..k /\ ledger.total + j = i /\ j \in 1..Len(op.new) /\ j > 0
        <5>1. Len(H) = ledger.total + k /\ ledger.total \in Nat /\ k \in Nat /\ k <= Len(op.new)
          BY <1>4, <1>5, <1>7, <1>10
        <5> QED
          BY <3>2, <5>1
      <4> HIDE DEF j
      <4>2. H[i].n = Base(ledger) + j
        BY <1>4, <1>7, <4>1
      <4>3. Base(ledger) + j <= made
        BY <1>1, <1>4, <1>5, <4>1
      <4>4. Base(ledger) + j \notin undone
        <5>1. ~(Base(ledger) + j <= Base(ledger))
          BY <1>5, <4>1
        <5> QED
          BY <1>4, <5>1
      <4> QED
        BY <4>2, <4>3, <4>4
    <3> QED
      BY <1>5, <3>1, <3>2
  <2>2. Holding(live', H)
    BY <1>7, <1>8, <1>10 DEF Holding
  <2> QED
    BY <1>4, <1>7, <1>8, <1>10, <2>1, <2>2 DEF Lines
<1>12. Books(H, ledger)'
  BY <1>7, <1>8 DEF LogStory, Books
<1>13. Reach(G) = ledger.total
  BY <1>1, <1>4 DEF Reach, ReachOf
<1>14. End(G, ledger) = ledger.total /\ Firm(G) = ledger.total
  <2>1. ledger.total # ledger.pending.total
    BY <1>5
  <2> QED
    BY <1>13, <2>1 DEF End, WholeOf, Reach, Firm
<1>15. End(H, ledger)' = IF k = Size(ledger) /\ tail # "whole" THEN ledger.total + k ELSE ledger.total
  <2>1. ReachOf(live', H) = IF tail = "whole" THEN ledger.total + k - 1 ELSE ledger.total + k
    <3>1. live'.tail = tail /\ Len(H) = ledger.total + k
      BY <1>7, <1>8
    <3> QED
      BY <3>1, <1>5, <1>10 DEF ReachOf
  <2>2. (ReachOf(live', H) = ledger.pending.total) <=> (k = Size(ledger) /\ tail # "whole")
    BY <1>5, <1>10, <2>1
  <2>3. End(H, ledger)' = IF ReachOf(live', H) = ledger.pending.total THEN ledger.pending.total ELSE ledger.total
    BY <1>4 DEF End, WholeOf
  <2> QED
    BY <1>5, <2>2, <2>3
<1>16. Firm(H)' = IF pc = "idle" THEN End(H, ledger)' ELSE ledger.total
  BY <1>3 DEF Firm
<1>17. Moves(G, H)
  <2>1. CASE k = Size(ledger) /\ tail # "whole"
    <3>1. End(H, ledger)' = ledger.total + k /\ k > 0 /\ (ledger.total + k) - ledger.total = k
          /\ ledger.total < ledger.total + k
      BY <1>5, <1>15, <2>1
    <3>2. \A j \in 1..k : H[ledger.total + j].at = j /\ H[ledger.total + j].of = k
      <4> TAKE j \in 1..k
      <4>1. j \in 1..Len(op.new) /\ Len(op.new) = k /\ H[ledger.total + j] = op.new[j]
        BY <1>4, <1>7, <2>1
      <4> QED
        BY <1>4, <4>1
    <3>3. Firm(H)' \in {Firm(G), End(H, ledger)'}
      BY <1>14, <1>16
    <3> QED
      BY <1>7, <1>14, <3>1, <3>2, <3>3 DEF Moves, Extends
  <2>2. CASE ~(k = Size(ledger) /\ tail # "whole")
    BY <1>7, <1>14, <1>15, <1>16, <2>2 DEF Moves, Stays
  <2> QED
    BY <2>1, <2>2
<1>18. Files(H)'
  <2>1. Firm(H)' \in Nat /\ Firm(G) <= Firm(H)' /\ Firm(H)' <= Len(H)
    BY <1>5, <1>7, <1>10, <1>14, <1>15, <1>16, SMTT(30)
  <2> QED
    BY <1>7, <1>8, <1>14, <2>1, FilesKept
<1>19. Writing(H)'
  <2>1. pc = "written" => Len(H) = ledger.pending.total
    BY <1>4, <1>5, <1>7
  <2> QED
    BY <1>3, <1>4, <1>8, <2>1 DEF Writing, Size, Base
<1>20. Archiving(H)' /\ Phase(H)'
  <2>1. Anchored(ledger)'
    BY <1>1, <1>8 DEF Anchored
  <2> QED
    BY <1>3, <1>8, <2>1 DEF Archiving, Phase
<1>21. LogStory(H)'
  BY <1>11, <1>12, <1>18, <1>19, <1>20 DEF LogStory
<1> QED
  BY <1>7, <1>9, <1>17, <1>21 DEF Onward

LEMMA WriteAllStep ==
  ASSUME LogTypes, NEW G \in Seq(Rec), LogStory(G), Write
  PROVE  Onward(G)
<1>1. /\ op.pc = "announced" /\ op' = [op EXCEPT !.pc = "written"]
      /\ UNCHANGED <<ledger, index, file, made, acked, undone>>
      /\ live' = [live EXCEPT !.recs = @ \o op.new]
  BY DEF Write
<1>2. op.new \in Seq(Rec) /\ live \in LogFile /\ live.tail = "clean" /\ Len(op.new) \in 0..Len(op.new)
  BY <1>1, HolderIs DEF LogTypes, LogStory, Phase
<1>3. Take(op.new, Len(op.new)) = op.new
  BY <1>2, SubSeqFull DEF Take
<1>4. live' = [live EXCEPT !.recs = @ \o Take(op.new, Len(op.new)), !.tail = "clean"]
  BY <1>1, <1>2, <1>3 DEF LogFile
<1> QED
  BY <1>1, <1>2, <1>4, WriteStep

LEMMA WriteStopsStep ==
  ASSUME LogTypes, NEW G \in Seq(Rec), LogStory(G), WriteFails \/ WriteStops(Idle)
  PROVE  Onward(G)
<1>1. PICK pc \in {"idle", "undo"} : WriteStops(IF pc = "idle" THEN Idle ELSE [op EXCEPT !.pc = pc])
  BY DEF WriteFails
<1>2. /\ op.pc = "announced" /\ op' = IF pc = "idle" THEN Idle ELSE [op EXCEPT !.pc = pc]
      /\ UNCHANGED <<ledger, index, file, made, acked, undone>>
  BY <1>1 DEF WriteStops
<1>3. PICK k \in 0..Len(op.new), tail \in {"clean", "part", "whole"} :
        /\ tail = "whole" => k > 0
        /\ live' = [live EXCEPT !.recs = @ \o Take(op.new, k), !.tail = tail]
  BY <1>1 DEF WriteStops
<1> QED
  BY <1>2, <1>3, WriteStep

\* A segment file is written, or a piece of it.
LEMMA SegmentStep ==
  ASSUME LogTypes, NEW G \in Seq(Rec), LogStory(G), op = Idle, _verify_files(live, ledger),
         NEW s \in Name, file[s] = NoFile, NEW n \in 0..(Reach(G) - live.count),
         file' = [file EXCEPT ![s] = Part(G, n)],
         op' = Idle \/ (n > 0 /\ op' = [pc |-> "ids", n |-> n, name |-> s]),
         UNCHANGED <<live, ledger, index, made, acked, undone>>
  PROVE  Onward(G)
<1>1. /\ live \in LogFile /\ ledger \in Ledger /\ Holding(live, G) /\ Accounts(G, ledger)
      /\ Lines(G) /\ Chain(G) /\ live.count \in Nat /\ live.head \in Nat
  BY DEF LogTypes, LogStory, Lines, Books, LogFile
<1>2. /\ ledger.total \in 0..Reach(G) /\ Reach(G) \in live.count..Len(G)
      /\ Len(G) \in Nat /\ End(G, ledger) \in Nat /\ Reach(G) \in Nat
  BY <1>1, EndIs
<1>3. Anchored(ledger) /\ Verified(G, ledger)
  <2>1. ledger.total <= ReachOf(live, G)
    BY <1>2 DEF Reach
  <2> QED
    BY <1>1, <2>1, VerifyIs DEF Anchored, Verified
<1>4. End(G, ledger) = Reach(G) /\ Firm(G) = Reach(G)
  <2>1. End(G, ledger) = Reach(G)
    BY <1>3 DEF Verified, VerifiedOf, End, WholeOf, Reach
  <2> QED
    BY <2>1 DEF Firm, Idle
<1>5. PICK p : p = Part(G, n)
  OBVIOUS
<1>6. PICK c : c = live.count
  OBVIOUS
<1>7. c \in Nat /\ n \in Nat /\ c + n \in c..Len(G) /\ c + n <= Reach(G) /\ (c + n) - c = n
  BY <1>1, <1>2, <1>6
<1>8. /\ p.head = live.head /\ p.count = c /\ p.recs = Slice(G, c, c + n) /\ p \in SegmentFile /\ Len(p.recs) = n
      /\ p # NoFile
  <2>1. p.head = live.head /\ p.count = c /\ p.recs = Slice(G, c, c + n)
    BY <1>5, <1>6 DEF Part
  <2>2. Slice(G, c, c + n) \in Seq(Rec) /\ Len(Slice(G, c, c + n)) = n
    BY <1>7, SliceIs
  <2>3. p \in SegmentFile
    BY <1>1, <1>5, <1>6, <1>7, <2>2 DEF Part, SegmentFile
  <2>4. p # NoFile
    BY <1>7, <2>1 DEF NoFile
  <2> QED
    BY <2>1, <2>2, <2>3, <2>4
<1>9. /\ file' \in [Name -> SegmentFile] /\ file'[s] = p
      /\ \A t \in Name : t # s => file'[t] = file[t]
  BY <1>5, <1>8 DEF LogTypes
<1>10. /\ op' \in Holder /\ op'.pc \in {"idle", "ids"}
       /\ op'.pc = "ids" => n > 0 /\ op'.n = n /\ op'.name = s
  <2>1. CASE op' = Idle
    BY <2>1 DEF Idle, Holder
  <2>2. CASE n > 0 /\ op' = [pc |-> "ids", n |-> n, name |-> s]
    <3>1. op' \in [pc : {"ids", "ledger", "trim"}, n : Nat, name : Name]
      BY <1>7, <2>2
    <3> QED
      BY <2>2, <3>1 DEF Holder
  <2> QED
    BY <2>1, <2>2
<1>11. LogTypes'
  BY <1>9, <1>10 DEF LogTypes
<1>12. Lines(G)' /\ Books(G, ledger)'
  BY DEF LogStory, Lines, Books
<1>13. End(G, ledger)' = Reach(G) /\ Firm(G)' = Reach(G) /\ Reach(G)' = Reach(G)
  <2>1. End(G, ledger)' = End(G, ledger) /\ Reach(G)' = Reach(G)
    BY DEF End, WholeOf, Reach, ReachOf
  <2> QED
    BY <1>4, <1>10, <2>1 DEF Firm
<1>14. Moves(G, G)
  BY <1>4, <1>13 DEF Moves, Stays, Same
<1>15. Files(G)'
  <2>1. ASSUME NEW t \in Name, file'[t] # NoFile
        PROVE  /\ file'[t].count \in 0..live.count /\ file'[t].count + Len(file'[t].recs) <= Firm(G)'
               /\ file'[t].recs = Slice(G, file'[t].count, file'[t].count + Len(file'[t].recs))
    <3>1. CASE t = s
      BY <1>6, <1>7, <1>8, <1>9, <1>13, <3>1
    <3>2. CASE t # s
      BY <1>4, <1>9, <1>13, <2>1, <3>2 DEF LogStory, Files
    <3> QED
      BY <3>1, <3>2
  <2>2. ASSUME NEW i \in 1..live.count PROVE \E t \in Name : Holds(t, i)'
    <3>1. PICK t \in Name : Holds(t, i)
      BY DEF LogStory, Files
    <3>2. file'[t] = file[t]
      BY <1>9, <3>1 DEF Holds
    <3> QED
      BY <3>1, <3>2 DEF Holds
  <2> QED
    BY <2>1, <2>2 DEF Files
<1>16. Writing(G)'
  BY <1>10 DEF Writing
<1>17. Archiving(G)'
  <2>1. Verified(G, ledger)'
    BY <1>3 DEF Verified, VerifiedOf, WholeOf, ReachOf
  <2>2. op'.pc = "ids" => op'.n \in 1..(Reach(G)' - live'.count)
    BY <1>7, <1>10, <1>13
  <2>3. op'.pc = "ids" => file'[op'.name] = [head |-> live'.head, count |-> live'.count,
                                   recs |-> Slice(G, live'.count, live'.count + op'.n)]
    BY <1>5, <1>9, <1>10 DEF Part
  <2> QED
    BY <1>10, <2>1, <2>2, <2>3 DEF Archiving, Part
<1>18. Phase(G)'
  BY <1>3, <1>10 DEF Phase, Anchored
<1>19. LogStory(G)'
  BY <1>12, <1>15, <1>16, <1>17, <1>18 DEF LogStory
<1> QED
  BY <1>11, <1>14, <1>19 DEF Onward

\* The first n records a reader parses.
LEMMA MovingIs ==
  ASSUME LogTypes, NEW G \in Seq(Rec), Lines(G), NEW n \in 0..(Reach(G) - live.count)
  PROVE  /\ Moving(n) = Slice(G, live.count, live.count + n) /\ live.count + n \in live.count..Len(G)
         /\ Len(_parse(live)) = Reach(G) - live.count
<1>1. /\ live \in LogFile /\ Holding(live, G) /\ live.count \in Nat
  BY DEF LogTypes, Lines, LogFile
<1>2. /\ Reach(G) \in live.count..Len(G) /\ Reach(G) \in Nat
      /\ _parse(live) = Slice(G, live.count, Reach(G)) /\ Len(_parse(live)) = Reach(G) - live.count
  BY <1>1, ParseIs DEF Reach
<1>3. n \in Nat /\ n <= Reach(G) - live.count
  BY <1>1, <1>2
<1>4. Take(Slice(G, live.count, Reach(G)), n) = Slice(G, live.count, live.count + n)
  BY <1>1, <1>2, <1>3, TakeOfSlice
<1>5. live.count + n \in live.count..Len(G)
  <2>1. Len(G) \in Nat
    OBVIOUS
  <2> QED
    BY <2>1, <1>1, <1>2, <1>3
<1> QED
  BY <1>2, <1>4, <1>5 DEF Moving

LEMMA ArchiveSegmentStep ==
  ASSUME LogTypes, NEW G \in Seq(Rec), LogStory(G), NEW s \in Name, NEW m \in Nat, ArchiveSegment(m, s)
  PROVE  Onward(G)
<1>1. /\ op = Idle /\ _verify_files(live, ledger) /\ m \in 1..Len(_parse(live)) /\ file[s] = NoFile
      /\ file' = [file EXCEPT ![s] = [head |-> live.head, count |-> live.count, recs |-> Moving(m)]]
      /\ op' = [pc |-> "ids", n |-> m, name |-> s]
      /\ UNCHANGED <<live, ledger, index, made, acked, undone>>
  BY DEF ArchiveSegment
<1>2. Lines(G)
  BY DEF LogStory
<1>3. live.count \in Nat /\ Reach(G) \in live.count..Len(G) /\ 0 \in 0..(Reach(G) - live.count)
  BY <1>2, EndIs DEF LogStory, Books
<1>4. Len(_parse(live)) = Reach(G) - live.count
  BY <1>2, <1>3, MovingIs
<1>5. m \in 0..(Reach(G) - live.count) /\ m > 0
  BY <1>1, <1>3, <1>4
<1>6. Moving(m) = Slice(G, live.count, live.count + m)
  BY <1>2, <1>5, MovingIs
<1>7. file' = [file EXCEPT ![s] = Part(G, m)]
  BY <1>1, <1>6 DEF Part
<1> QED
  BY <1>1, <1>5, <1>7, SegmentStep

LEMMA SegmentFailsStep ==
  ASSUME LogTypes, NEW G \in Seq(Rec), LogStory(G), NEW s \in Name, SegmentFails(s)
  PROVE  Onward(G)
<1>1. /\ op = Idle /\ _verify_files(live, ledger) /\ file[s] = NoFile /\ op' = Idle
      /\ file' = [file EXCEPT ![s] = [head |-> live.head, count |-> live.count, recs |-> <<>>]]
      /\ UNCHANGED <<live, ledger, index, made, acked, undone>>
  BY DEF SegmentFails
<1>2. live.count \in Nat /\ Reach(G) \in live.count..Len(G) /\ 0 \in 0..(Reach(G) - live.count)
      /\ live.count \in live.count..Len(G) /\ live.count + 0 = live.count
  BY EndIs DEF LogStory, Books
<1>3. Slice(G, live.count, live.count + 0) = <<>>
  BY <1>2, SliceEmpty
<1>4. file' = [file EXCEPT ![s] = Part(G, 0)]
  BY <1>1, <1>3 DEF Part
<1> QED
  BY <1>1, <1>2, <1>4, SegmentStep

\* Undoing an archive: the index and the segment file may go.
LEMMA TrimStep ==
  ASSUME LogTypes, NEW G \in Seq(Rec), LogStory(G), Trim
  PROVE  Onward(G)
<1>1. /\ op.pc = "trim" /\ index' \in {index, Take(index, live.count)} /\ op' = Idle
      /\ file' \in {file, [file EXCEPT ![op.name] = NoFile]}
      /\ UNCHANGED <<live, ledger, made, acked, undone>>
  BY DEF Trim
<1>2. Anchored(ledger) /\ file[op.name].count = live.count
  BY <1>1 DEF LogStory, Phase, Archiving
<1>3. live.count \in Nat /\ index \in Seq(RecordId) /\ file \in [Name -> SegmentFile]
  BY DEF LogTypes, LogFile
<1>4. index' \in Seq(RecordId)
  <2>1. Take(index, live.count) \in Seq(RecordId)
    BY <1>3, TakeType
  <2> QED
    BY <1>1, <1>3, <2>1
<1>5. NoFile \in SegmentFile
  <2>1. <<>> \in Seq(Rec)
    OBVIOUS
  <2> QED
    BY <2>1 DEF NoFile, GENESIS, SegmentFile
<1>6. /\ file' \in [Name -> SegmentFile]
      /\ \A s \in Name : file'[s] = file[s] \/ (s = op.name /\ file'[s] = NoFile)
  BY <1>1, <1>3, <1>5
<1>7. LogTypes'
  BY <1>1, <1>4, <1>6 DEF LogTypes, Holder
<1>8. Lines(G)' /\ Books(G, ledger)'
  BY <1>1 DEF LogStory, Lines, Books
<1>9. End(G, ledger)' = End(G, ledger) /\ Firm(G)' = Firm(G)
  BY <1>1 DEF End, WholeOf, ReachOf, Firm, Idle
<1>10. Moves(G, G)
  BY <1>9 DEF Moves, Stays, Same
<1>11. Files(G)'
  <2>1. ASSUME NEW t \in Name, file'[t] # NoFile
        PROVE  /\ file'[t].count \in 0..live.count /\ file'[t].count + Len(file'[t].recs) <= Firm(G)'
               /\ file'[t].recs = Slice(G, file'[t].count, file'[t].count + Len(file'[t].recs))
    BY <1>6, <1>9, <2>1 DEF LogStory, Files
  <2>2. ASSUME NEW i \in 1..live.count PROVE \E t \in Name : Holds(t, i)'
    <3>1. PICK t \in Name : Holds(t, i)
      BY DEF LogStory, Files
    <3>2. t # op.name
      BY <1>2, <1>3, <3>1 DEF Holds
    <3>3. file'[t] = file[t]
      BY <1>6, <3>2
    <3> QED
      BY <3>1, <3>3 DEF Holds
  <2> QED
    BY <1>1, <2>1, <2>2 DEF Files
<1>12. Writing(G)' /\ Archiving(G)' /\ Phase(G)'
  BY <1>1, <1>2 DEF Writing, Archiving, Phase, Anchored, Idle
<1>13. LogStory(G)'
  BY <1>8, <1>11, <1>12 DEF LogStory
<1> QED
  BY <1>7, <1>10, <1>13 DEF Onward

\* The ledger names the segment; from now on the log file is behind it.
LEMMA ArchiveLedgerStep ==
  ASSUME LogTypes, NEW G \in Seq(Rec), LogStory(G), ArchiveLedger
  PROVE  Onward(G)
<1>1. /\ op.pc = "ledger"
      /\ ledger' = [head |-> Tip(live.head, _parse(live)), total |-> live.count + Len(_parse(live)),
                    segs |-> Folded(Append(ledger.segs, Entry(op.n))), pending |-> NoPending]
      /\ op' = [pc |-> "swap", n |-> op.n, name |-> op.name, old |-> ledger]
      /\ UNCHANGED <<live, index, file, made, acked, undone>>
  BY DEF ArchiveLedger
<1>2. /\ live \in LogFile /\ ledger \in Ledger /\ Holding(live, G) /\ Accounts(G, ledger)
      /\ Lines(G) /\ Chain(G) /\ live.count \in Nat /\ index \in Seq(RecordId) /\ made \in Nat
  BY DEF LogTypes, LogStory, Lines, Books, LogFile
<1>3. op \in [pc : {"ids", "ledger", "trim"}, n : Nat, name : Name]
  BY <1>1, HolderIs DEF LogTypes
<1>4. /\ Verified(G, ledger) /\ op.n \in 1..(Reach(G) - live.count) /\ file[op.name] = Part(G, op.n)
      /\ Archived(ledger.segs) = live.count
  BY <1>1 DEF LogStory, Archiving, Phase, Anchored
<1>5. /\ ledger.total \in 0..Reach(G) /\ Reach(G) \in live.count..Len(G) /\ Reach(G) \in Nat
      /\ Len(G) \in Nat /\ End(G, ledger) \in Nat /\ Len(G) <= Reach(G) + 1
      /\ ledger.total \in Nat /\ (live.tail = "whole" => Reach(G) < Len(G))
  <2>1. /\ ledger.total \in 0..Reach(G) /\ Reach(G) \in live.count..Len(G) /\ Reach(G) \in Nat
        /\ Len(G) \in Nat /\ End(G, ledger) \in Nat /\ ledger.total \in Nat
    BY <1>2, EndIs
  <2> QED
    BY <2>1 DEF Reach, ReachOf
<1>6. PICK n : n = op.n
  OBVIOUS
<1>7. /\ n \in Nat /\ n > 0 /\ n \in 0..(Reach(G) - live.count) /\ live.count + n <= Reach(G)
      /\ live.count + n \in 0..Reach(G) /\ live.count + n \in live.count..Len(G)
      /\ live.count < live.count + n /\ live.count + n \in Nat
  BY <1>2, <1>4, <1>5, <1>6, SMTT(30)
<1>8. Moving(n) = Slice(G, live.count, live.count + n) /\ Len(_parse(live)) = Reach(G) - live.count
  BY <1>2, <1>7, MovingIs
<1>9. PICK e : e = Entry(n)
  OBVIOUS
<1>10. e \in Segment /\ e.name = op.name /\ e.count = n /\ e.head = N(G, live.count + n) /\ op.name \in Name
  <2>1. Last(Moving(n)).n = N(G, live.count + n)
    <3>1. /\ Moving(n) \in Seq(Rec) /\ Len(Moving(n)) = n /\ n \in 1..n
          /\ Moving(n)[n] = G[live.count + n]
      <4>1. (live.count + n) - live.count = n /\ n \in 1..n
        BY <1>2, <1>7
      <4>2. /\ Slice(G, live.count, live.count + n) \in Seq(Rec)
            /\ Len(Slice(G, live.count, live.count + n)) = n
            /\ \A i \in 1..n : Slice(G, live.count, live.count + n)[i] = G[live.count + i]
        <5>1. PICK c, m : c = live.count /\ m = live.count + n
          OBVIOUS
        <5>2. c \in Nat /\ m \in c..Len(G) /\ m - c = n /\ G \in Seq(Rec)
          BY <1>2, <1>7, <4>1, <5>1
        <5>3. /\ Slice(G, c, m) \in Seq(Rec) /\ Len(Slice(G, c, m)) = m - c
              /\ \A i \in 1..(m - c) : Slice(G, c, m)[i] = G[c + i]
          BY <5>2, SliceIs
        <5>4. /\ Slice(G, c, m) \in Seq(Rec) /\ Len(Slice(G, c, m)) = n
              /\ \A i \in 1..n : Slice(G, c, m)[i] = G[c + i]
          BY <5>2, <5>3
        <5> QED
          BY <5>1, <5>4
      <4> QED
        BY <1>8, <4>1, <4>2
    <3>2. live.count + n # 0
      BY <1>2, <1>7
    <3> QED
      BY <3>1, <3>2 DEF Last, N
  <2>2. Take(index, live.count + n) \in Seq(RecordId)
    BY <1>2, <1>7, TakeType
  <2>3. N(G, live.count + n) \in Nat
    <3>1. live.count + n \in 0..Len(G)
      BY <1>2, <1>7
    <3> QED
      BY <1>2, <3>1, NumbersGrow
  <2>4. op.name \in Name
    BY <1>3
  <2>5. e = [name |-> op.name, head |-> N(G, live.count + n), count |-> n, ids |-> Take(index, live.count + n)]
    BY <1>9, <2>1 DEF Entry
  <2>6. e \in Segment
    BY <1>7, <2>2, <2>3, <2>4, <2>5 DEF Segment
  <2> QED
    BY <2>4, <2>5, <2>6
<1>11. PICK t : t = Append(ledger.segs, e)
  OBVIOUS
<1>12. t \in Seq(Segment) /\ t # <<>> /\ Last(t) = e /\ Archived(t) = live.count + n
  <2>1. ledger.segs \in Seq(Segment)
    BY <1>2, LedgerParts
  <2>2. t \in Seq(Segment) /\ Len(t) = Len(ledger.segs) + 1 /\ t[Len(t)] = e /\ Len(ledger.segs) \in Nat
    BY <1>10, <1>11, <2>1, AppendProperties
  <2>3. t # <<>>
    BY <2>2, EmptySeq
  <2>4. Archived(t) = live.count + n
    BY <1>4, <1>10, <1>11, <2>1, ArchivedAppend
  <2> QED
    BY <2>2, <2>3, <2>4 DEF Last
<1>13. /\ Folded(t) \in Seq(Segment) /\ Folded(t) # <<>> /\ Last(Folded(t)) = e
       /\ Archived(Folded(t)) = live.count + n
  BY <1>12, FoldedIs
<1>14. Tip(live.head, _parse(live)) = N(G, Reach(G)) /\ N(G, Reach(G)) \in Nat
  <2>1. _parse(live) = Slice(G, live.count, Reach(G)) /\ live.head = N(G, live.count)
    BY <1>2, ParseIs DEF Reach, Holding
  <2>2. Reach(G) \in 0..Len(G)
    BY <1>5
  <2> QED
    BY <1>2, <1>5, <2>1, <2>2, TipOfSlice, NumbersGrow
<1>15. live.count + Len(_parse(live)) = Reach(G)
  BY <1>2, <1>5, <1>8
<1>16. /\ ledger' \in Ledger /\ ledger'.head = N(G, Reach(G)) /\ ledger'.total = Reach(G)
       /\ ledger'.segs = Folded(t) /\ ledger'.pending = NoPending
  <2>1. ledger' = [head |-> N(G, Reach(G)), total |-> Reach(G), segs |-> Folded(t), pending |-> NoPending]
    BY <1>1, <1>6, <1>9, <1>11, <1>14, <1>15
  <2>2. NoPending \in Pending
    BY DEF NoPending, GENESIS, Pending
  <2> QED
    BY <1>5, <1>13, <1>14, <2>1, <2>2 DEF Ledger
<1>17. /\ op' \in Holder /\ op'.pc = "swap" /\ op'.n = n /\ op'.name = op.name /\ op'.old = ledger
  <2>1. op' \in [pc : {"swap", "restore"}, n : Nat, name : Name, old : Ledger]
    BY <1>1, <1>2, <1>6, <1>7, <1>10
  <2> QED
    BY <1>1, <1>6, <2>1 DEF Holder
<1>18. LogTypes'
  BY <1>1, <1>16, <1>17 DEF LogTypes
<1>19. Lines(G)'
  BY <1>1, <1>2, <1>5, <1>16 DEF Lines
<1>20. Accounts(G, ledger')
  <2>1. ledger'.total \in 0..Len(G) /\ Len(G) <= ledger'.total + 1 /\ Archived(ledger'.segs) \in 0..ledger'.total
    BY <1>5, <1>7, <1>13, <1>16
  <2>2. Last(ledger'.segs).count > 0 /\ Last(ledger'.segs).head = N(G, Archived(ledger'.segs))
    BY <1>7, <1>10, <1>13, <1>16
  <2> QED
    BY <1>16, <2>1, <2>2 DEF Accounts
<1>21. Books(G, ledger)'
  <2>1. live'.count <= ledger'.total /\ ledger'.pending.head <= made'
    BY <1>1, <1>2, <1>5, <1>16 DEF NoPending, GENESIS
  <2>2. \A h \in acked' : \E i \in 1..ledger'.total : G[i].n = h
    <3>1. 1..ledger.total \subseteq 1..ledger'.total
      BY <1>5, <1>16
    <3> QED
      BY <1>1, <3>1 DEF LogStory, Books
  <2> QED
    BY <1>20, <2>1, <2>2 DEF Books
<1>22. End(G, ledger) = Reach(G) /\ End(G, ledger)' = Reach(G)
  <2>1. End(G, ledger) = Reach(G)
    BY <1>4 DEF Verified, VerifiedOf, End, WholeOf, Reach
  <2>2. End(G, ledger)' = Reach(G)
    BY <1>16 DEF End, WholeOf
  <2> QED
    BY <2>1, <2>2
<1>23. Firm(G) = Reach(G) /\ Firm(G)' = Reach(G)
  BY <1>1, <1>17, <1>22 DEF Firm
<1>24. Moves(G, G)
  BY <1>22, <1>23 DEF Moves, Stays, Same
<1>25. Files(G)'
  BY <1>1, <1>5, <1>23, FilesKept DEF Same
<1>26. Hanging(G)'
  BY <1>1, <1>4, <1>6, <1>10, <1>13, <1>16 DEF Hanging, Part
<1>27. Archiving(G)'
  <2>1. Reach(G)' = Reach(G)
    BY <1>1 DEF Reach, ReachOf
  <2>2. Last(ledger'.segs).name = op'.name /\ Last(ledger'.segs).count = op'.n
    BY <1>10, <1>13, <1>16, <1>17
  <2>3. Books(G, op.old)' /\ Anchored(op.old)' /\ Verified(G, op.old)'
    BY <1>1, <1>4, <1>17 DEF LogStory, Books, Anchored, Verified, VerifiedOf, WholeOf, ReachOf
  <2> QED
    BY <1>16, <1>17, <1>26, <2>1, <2>2, <2>3 DEF Archiving
<1>28. Writing(G)' /\ Phase(G)'
  BY <1>17 DEF Writing, Phase
<1>29. LogStory(G)'
  BY <1>19, <1>21, <1>25, <1>27, <1>28 DEF LogStory
<1> QED
  BY <1>18, <1>24, <1>29 DEF Onward

\* The old ledger is put back.
LEMMA RestoreStep ==
  ASSUME LogTypes, NEW G \in Seq(Rec), LogStory(G), Restore
  PROVE  Onward(G)
<1>1. /\ op.pc = "restore" /\ ledger' = op.old /\ op' = [pc |-> "trim", n |-> op.n, name |-> op.name]
      /\ UNCHANGED <<live, index, file, made, acked, undone>>
  BY DEF Restore
<1>2. op \in [pc : {"swap", "restore"}, n : Nat, name : Name, old : Ledger]
  BY <1>1, HolderIs DEF LogTypes
<1>3. /\ Hanging(G) /\ Last(ledger.segs).name = op.name /\ ledger.total = Reach(G)
      /\ Books(G, op.old) /\ Anchored(op.old) /\ Verified(G, op.old)
  BY <1>1 DEF LogStory, Archiving
<1>4. /\ live \in LogFile /\ ledger \in Ledger /\ Holding(live, G) /\ Accounts(G, ledger)
      /\ Lines(G) /\ live.count \in Nat /\ Len(G) \in Nat
  BY DEF LogTypes, LogStory, Lines, Books, LogFile
<1>5. Reach(G) \in live.count..Len(G) /\ Reach(G) \in Nat /\ (live.tail = "whole" => Reach(G) < Len(G))
  <2>1. Reach(G) \in live.count..Len(G) /\ Reach(G) \in Nat
    BY <1>4, EndIs
  <2> QED
    BY <1>4, <2>1 DEF Reach, ReachOf
<1>6. /\ op' \in Holder /\ op'.pc = "trim" /\ op'.name = op.name
  <2>1. op' \in [pc : {"ids", "ledger", "trim"}, n : Nat, name : Name]
    BY <1>1, <1>2
  <2> QED
    BY <1>1, <2>1 DEF Holder
<1>7. ledger' \in Ledger /\ Accounts(G, ledger')
  BY <1>1, <1>2, <1>3 DEF Books
<1>8. LogTypes'
  BY <1>1, <1>6, <1>7 DEF LogTypes
<1>9. ledger'.total <= Reach(G) /\ ledger'.total \in Nat /\ ledger'.total <= Len(G)
  <2>1. ledger'.total \in Nat /\ ledger'.total <= Len(G)
    BY <1>7, LedgerParts
  <2>2. CASE Reach(G) = ledger'.total
    BY <1>5, <2>1, <2>2
  <2>3. CASE WholeOf(live, G, op.old)
    <3>1. ledger'.pending # NoPending /\ Reach(G) = ledger'.pending.total
      BY <1>1, <2>3 DEF WholeOf, Reach
    <3>2. ledger'.total \in ledger'.total..Len(G) /\ ledger'.pending.total \in Nat
      BY <1>7, <2>1, LedgerParts
    <3>3. ledger'.total < ledger'.pending.total
      BY <1>7, <3>1, <3>2, PendingTip
    <3> QED
      BY <2>1, <3>1, <3>2, <3>3
  <2> QED
    BY <1>1, <1>3, <2>2, <2>3 DEF Verified, VerifiedOf, Reach
<1>10. Lines(G)'
  BY <1>1, <1>4, <1>5, <1>9 DEF Lines
<1>11. Books(G, ledger)'
  BY <1>1, <1>3 DEF Books
<1>12. End(G, ledger) = Reach(G) /\ End(G, ledger)' = Reach(G)
  <2>1. End(G, ledger) = Reach(G)
    BY <1>3 DEF Hanging, End, WholeOf
  <2>2. End(G, ledger)' = Reach(G)
    BY <1>1, <1>3 DEF Verified, VerifiedOf, End, WholeOf, Reach
  <2> QED
    BY <2>1, <2>2
<1>13. Firm(G) = Reach(G) /\ Firm(G)' = Reach(G)
  BY <1>1, <1>6, <1>12 DEF Firm
<1>14. Moves(G, G)
  BY <1>12, <1>13 DEF Moves, Stays, Same
<1>15. Files(G)'
  BY <1>1, <1>5, <1>13, FilesKept DEF Same
<1>16. Archiving(G)'
  BY <1>1, <1>3, <1>6 DEF Archiving, Hanging, Part
<1>17. Writing(G)' /\ Phase(G)'
  BY <1>1, <1>3, <1>6 DEF Writing, Phase, Anchored
<1>18. LogStory(G)'
  BY <1>10, <1>11, <1>15, <1>16, <1>17 DEF LogStory
<1> QED
  BY <1>8, <1>14, <1>18 DEF Onward

\* The log file is replaced by what the archive left of it.
LEMMA SwapStep ==
  ASSUME LogTypes, NEW G \in Seq(Rec), LogStory(G), Hanging(G),
         op.pc \in {"swap", "repair"}, live' = Reanchored(live, Last(ledger.segs).count),
         op' = Idle \/ (op.pc = "repair" /\ op' = op),
         UNCHANGED <<ledger, index, file, made, acked, undone>>
  PROVE  Onward(G)
<1>1. /\ live \in LogFile /\ ledger \in Ledger /\ Holding(live, G) /\ Accounts(G, ledger)
      /\ Lines(G) /\ Chain(G) /\ live.count \in Nat /\ Len(G) \in Nat /\ op \in Holder
      /\ file \in [Name -> SegmentFile]
  <2>1. /\ Holding(live, G) /\ Accounts(G, ledger) /\ Lines(G) /\ Chain(G)
    BY DEF LogStory, Lines, Books
  <2>2. /\ live \in LogFile /\ ledger \in Ledger /\ op \in Holder /\ file \in [Name -> SegmentFile]
    BY DEF LogTypes
  <2> QED
    BY <2>1, <2>2 DEF LogFile
<1>2. /\ ledger.total \in 0..Reach(G) /\ Reach(G) \in live.count..Len(G) /\ Reach(G) \in Nat
      /\ ledger.total \in Nat
  BY <1>1, EndIs
<1>3. PICK e : e = Last(ledger.segs)
  OBVIOUS
<1>4. PICK n : n = e.count
  OBVIOUS
<1>5. PICK c : c = live.count
  OBVIOUS
<1>6. /\ ledger.segs # <<>> /\ e.name \in Name /\ Archived(ledger.segs) = c + n
      /\ ledger.pending = NoPending /\ file[e.name] = Part(G, n)
  BY <1>3, <1>4, <1>5 DEF Hanging
<1>7. /\ n \in Nat /\ n > 0 /\ c \in Nat /\ c + n <= ledger.total /\ c + n <= Reach(G)
      /\ n \in 1..(Reach(G) - c) /\ c + n \in c..Len(G) /\ c + n \in Nat /\ c + n \in 0..Reach(G)
  <2>1. e \in Segment
    <3>1. ledger.segs \in Seq(Segment)
      BY <1>1, LedgerParts
    <3>2. Len(ledger.segs) \in 1..Len(ledger.segs)
      BY <1>6, <3>1, EmptySeq
    <3> QED
      BY <1>3, <3>1, <3>2, ElementOfSeq DEF Last
  <2>2. n \in Nat
    BY <1>4, <2>1 DEF Segment
  <2>3. n > 0 /\ c + n \in 0..ledger.total
    BY <1>1, <1>3, <1>4, <1>6 DEF Accounts
  <2> QED
    BY <1>1, <1>2, <1>5, <2>2, <2>3
<1>8. PICK H : H = Slice(G, 0, Reach(G))
  OBVIOUS
<1>9. /\ H \in Seq(Rec) /\ Len(H) = Reach(G) /\ Chain(H)
      /\ \A i \in 1..Reach(G) : H[i] = G[i]
      /\ \A i \in 0..Reach(G) : N(H, i) = N(G, i)
      /\ \A a \in 0..Reach(G) : \A b \in a..Reach(G) : Slice(H, a, b) = Slice(G, a, b)
      /\ Accounts(H, ledger)
  <2>1. Reach(G) \in 0..Len(G)
    BY <1>2
  <2>2. /\ H \in Seq(Rec) /\ Len(H) = Reach(G) /\ Chain(H)
        /\ \A i \in 1..Reach(G) : H[i] = G[i]
        /\ \A i \in 0..Reach(G) : N(H, i) = N(G, i)
        /\ \A a \in 0..Reach(G) : \A b \in a..Reach(G) : Slice(H, a, b) = Slice(G, a, b)
        /\ \A led \in Ledger : Accounts(G, led) /\ led.total <= Reach(G) => Accounts(H, led)
    BY <1>1, <1>8, <2>1, PrefixStory
  <2> QED
    BY <1>1, <1>2, <2>2
<1>10. /\ live' \in LogFile /\ live'.count = c + n /\ live'.head = N(G, c + n)
       /\ live'.recs = Slice(G, c + n, Reach(G)) /\ live'.tail = "clean" /\ live'.blank = FALSE
  <2>1. n \in 1..(ReachOf(live, G) - live.count)
    BY <1>5, <1>7 DEF Reach
  <2>2. live' = Reanchored(live, n)
    BY <1>3, <1>4
  <2> QED
    BY <1>1, <1>5, <2>1, <2>2, ReanchoredIs, ZenonT(30) DEF Reach
<1>11. op' \in Holder /\ op'.pc \in {"idle", "repair"}
  BY <1>1 DEF Idle, Holder
<1>12. LogTypes'
  BY <1>10, <1>11 DEF LogTypes
<1>13. Holding(live', H)
  <2>1. Slice(H, c + n, Len(H)) = Slice(G, c + n, Reach(G))
    <3>1. Reach(G) \in (c + n)..Reach(G)
      BY <1>2, <1>7
    <3> QED
      BY <1>7, <1>9, <3>1
  <2>2. N(H, c + n) = N(G, c + n)
    BY <1>7, <1>9
  <2> QED
    BY <1>7, <1>9, <1>10, <2>1, <2>2 DEF Holding
<1>14. Lines(H)'
  <2>1. \A i \in 1..Len(H) : H[i].n <= made' /\ H[i].n \notin undone'
    <3> TAKE i \in 1..Len(H)
    <3>1. i \in 1..Len(G) /\ H[i] = G[i]
      BY <1>1, <1>2, <1>9
    <3> QED
      BY <1>1, <3>1 DEF Lines
  <2> QED
    BY <1>9, <1>10, <1>13, <2>1 DEF Lines
<1>15. Books(H, ledger)'
  <2>1. \A h \in acked : \E i \in 1..ledger.total : H[i].n = h
    <3>1. \A i \in 1..ledger.total : H[i] = G[i]
      BY <1>2, <1>9
    <3> QED
      BY <3>1 DEF LogStory, Books
  <2> QED
    BY <1>7, <1>9, <1>10, <2>1 DEF LogStory, Books
<1>16. End(G, ledger) = ledger.total /\ End(H, ledger)' = ledger.total
  BY <1>6 DEF End, WholeOf
<1>17. Firm(G) = ledger.total /\ Firm(H)' = ledger.total
  BY <1>11, <1>16 DEF Firm
<1>18. Same(G, H, ledger.total)
  BY <1>2, <1>9 DEF Same
<1>19. Moves(G, H)
  BY <1>16, <1>17, <1>18 DEF Moves, Stays
<1>20. Files(H)'
  <2>1. ASSUME NEW t \in Name, file[t] # NoFile
        PROVE  /\ file[t].count \in 0..(c + n) /\ file[t].count + Len(file[t].recs) <= Firm(H)'
               /\ file[t].recs = Slice(H, file[t].count, file[t].count + Len(file[t].recs))
    <3>1. /\ file[t].count \in 0..c /\ file[t].count + Len(file[t].recs) <= ledger.total
          /\ file[t].recs = Slice(G, file[t].count, file[t].count + Len(file[t].recs))
          /\ Len(file[t].recs) \in Nat
      BY <1>1, <1>5, <1>17, <2>1 DEF LogStory, Files, SegmentFile
    <3>2. /\ file[t].count \in 0..Reach(G) /\ file[t].count \in 0..(c + n)
          /\ file[t].count + Len(file[t].recs) \in file[t].count..Reach(G)
      <4>1. file[t].count \in 0..(c + n) /\ file[t].count \in 0..Reach(G)
        BY <1>2, <1>7, <3>1
      <4>2. file[t].count + Len(file[t].recs) <= Reach(G)
        BY <1>2, <3>1
      <4> QED
        BY <1>2, <3>1, <4>1, <4>2
    <3> QED
      BY <1>9, <1>17, <3>1, <3>2
  <2>2. ASSUME NEW i \in 1..(c + n) PROVE \E t \in Name : Holds(t, i)
    <3>1. CASE i <= c
      <4>1. i \in 1..live.count
        BY <1>5, <1>7, <3>1
      <4> QED
        BY <4>1 DEF LogStory, Files
    <3>2. CASE i > c
      <4>1. file[e.name].count = c /\ Len(file[e.name].recs) = n
        <5>1. file[e.name].count = c /\ file[e.name].recs = Slice(G, c, c + n)
          BY <1>5, <1>6 DEF Part
        <5>2. (c + n) - c = n
          BY <1>7
        <5> QED
          BY <1>7, <5>1, <5>2, SliceIs
      <4>2. file[e.name] # NoFile
        BY <1>7, <4>1 DEF NoFile
      <4>3. i <= c + n /\ c < i
        BY <1>7, <3>2
      <4>4. Holds(e.name, i)
        BY <4>1, <4>2, <4>3 DEF Holds
      <4> QED
        BY <1>6, <4>4
    <3> QED
      BY <1>7, <3>1, <3>2
  <2> QED
    BY <1>10, <2>1, <2>2 DEF Files, Holds
<1>21. Writing(H)' /\ Archiving(H)'
  BY <1>11 DEF Writing, Archiving
<1>22. Phase(H)'
  BY <1>6, <1>10, <1>11 DEF Phase, Anchored
<1>23. LogStory(H)'
  BY <1>14, <1>15, <1>20, <1>21, <1>22 DEF LogStory
<1> QED
  BY <1>9, <1>12, <1>19, <1>23 DEF Onward

LEMMA ArchiveSwapStep ==
  ASSUME LogTypes, NEW G \in Seq(Rec), LogStory(G), ArchiveSwap
  PROVE  Onward(G)
<1>1. /\ op.pc = "swap" /\ live' = Reanchored(live, op.n) /\ op' = Idle
      /\ UNCHANGED <<ledger, index, file, made, acked, undone>>
  BY DEF ArchiveSwap
<1>2. Hanging(G) /\ Last(ledger.segs).count = op.n
  BY <1>1 DEF LogStory, Archiving
<1> QED
  BY <1>1, <1>2, SwapStep

LEMMA FinishArchiveStep ==
  ASSUME LogTypes, NEW G \in Seq(Rec), LogStory(G), _finish_archive
  PROVE  Onward(G)
<1>1. /\ op.pc = "repair" /\ Unswapped(live, ledger) /\ live' = Reanchored(live, Last(ledger.segs).count)
      /\ UNCHANGED <<ledger, index, file, op, made, acked, undone>>
  BY DEF _finish_archive, CanFinish, Newest
<1>2. ~Anchored(ledger)
  <2>1. ledger.segs # <<>> /\ Archived(ledger.segs) = live.count + Last(ledger.segs).count
    BY <1>1 DEF Unswapped
  <2>2. Last(ledger.segs).count > 0
    BY <2>1 DEF LogStory, Books, Accounts
  <2>3. Last(ledger.segs).count \in Nat /\ live.count \in Nat
    <3>1. ledger.segs \in Seq(Segment)
      BY LedgerParts DEF LogTypes, LogStory, Books
    <3>2. Len(ledger.segs) \in 1..Len(ledger.segs)
      BY <2>1, <3>1, EmptySeq
    <3>3. Last(ledger.segs) \in Segment
      BY <3>1, <3>2, ElementOfSeq DEF Last
    <3> QED
      BY <3>3 DEF Segment, LogTypes, LogFile
  <2> QED
    BY <2>1, <2>2, <2>3 DEF Anchored
<1>3. Hanging(G)
  BY <1>1, <1>2 DEF LogStory, Phase
<1> QED
  BY <1>1, <1>3, SwapStep

-----------------------------------------------------------------------------
(* The invariant, and what follows from it. *)

LEMMA InitStory == LogInit => LogTypes /\ LogStory(<<>>)
<1> SUFFICES ASSUME LogInit PROVE LogTypes /\ LogStory(<<>>)
  OBVIOUS
<1>1. /\ live = EmptyLog /\ ledger = EmptyLedger /\ index = <<>> /\ file = [s \in Name |-> NoFile]
      /\ op = Idle /\ made = 0 /\ acked = {} /\ undone = {}
  BY DEF LogInit
<1>2. MaxMade \in Nat
  BY ChainLogAssumption
<1>3. PICK G : G = <<>>
  OBVIOUS
<1>4. G \in Seq(Rec) /\ Len(G) = 0 /\ Slice(G, 0, 0) = <<>> /\ <<>> \in Seq(Rec)
  <2>1. G \in Seq(Rec) /\ Len(G) = 0 /\ 0 \in 0..Len(G) /\ <<>> \in Seq(Rec)
    BY <1>3
  <2>2. Slice(G, 0, 0) = <<>>
    <3>1. G \in Seq(Rec) /\ 0 \in 0..Len(G)
      BY <2>1
    <3> QED
      BY <3>1, SliceEmpty
  <2> QED
    BY <2>1, <2>2
<1>5. /\ live \in LogFile /\ live.head = 0 /\ live.count = 0 /\ live.recs = <<>> /\ live.tail = "clean" /\ ~live.blank
  BY <1>1, <1>4 DEF EmptyLog, GENESIS, LogFile
<1>6. /\ ledger \in Ledger /\ ledger.head = 0 /\ ledger.total = 0 /\ ledger.segs = <<>>
      /\ ledger.pending = NoPending /\ NoPending.head = 0
  <2>1. NoPending \in Pending /\ <<>> \in Seq(Segment)
    BY DEF NoPending, GENESIS, Pending
  <2> QED
    BY <1>1, <2>1 DEF EmptyLedger, Ledger, NoPending, GENESIS
<1>7. LogTypes
  <2>1. NoFile \in SegmentFile
    BY <1>4 DEF NoFile, GENESIS, SegmentFile
  <2>2. index \in Seq(RecordId)
    BY <1>1
  <2>3. made \in 0..MaxMade
    BY <1>1, <1>2
  <2>4. op \in Holder
    BY <1>1 DEF Holder
  <2> QED
    BY <1>1, <1>5, <1>6, <2>1, <2>2, <2>3, <2>4 DEF LogTypes
<1>8. Lines(G)
  <2>1. Chain(G)
    BY <1>4 DEF Chain
  <2>2. Holding(live, G)
    BY <1>4, <1>5 DEF Holding, N, GENESIS
  <2> QED
    BY <1>4, <1>5, <2>1, <2>2 DEF Lines
<1>9. Archived(ledger.segs) = 0
  BY <1>6, ArchivedNothing
<1>10. Books(G, ledger)
  <2>1. Accounts(G, ledger)
    BY <1>4, <1>6, <1>9 DEF Accounts, N, GENESIS
  <2> QED
    BY <1>1, <1>5, <1>6, <2>1 DEF Books
<1>11. Files(G)
  BY <1>1, <1>5 DEF Files
<1>12. Writing(G) /\ Archiving(G) /\ Phase(G)
  BY <1>1, <1>5, <1>9 DEF Writing, Archiving, Phase, Anchored, Idle
<1> QED
  BY <1>3, <1>7, <1>8, <1>10, <1>11, <1>12 DEF LogStory

\* One step of the log, from one sequence of lines to another.
LEMMA NextStep ==
  ASSUME LogTypes, NEW G \in Seq(Rec), LogStory(G), [LogNext]_logVars
  PROVE  Onward(G)
<1>1. CASE UNCHANGED logVars
  <2>1. /\ UNCHANGED <<live, ledger, file, made, acked, undone>> /\ UNCHANGED <<op, index>>
    BY <1>1 DEF logVars
  <2>2. op' \in Holder /\ index' \in Seq(RecordId)
    BY <2>1 DEF LogTypes
  <2>3. Writing(G)'
    BY <2>1 DEF LogStory, Writing, Size, Base
  <2>4. Archiving(G)'
    BY <2>1 DEF LogStory, Archiving, Verified, VerifiedOf, WholeOf, Reach, ReachOf, Part, Hanging, Books, Anchored
  <2>5. Phase(G)'
    BY <2>1 DEF LogStory, Phase, Anchored, Hanging, Part
  <2> QED
    BY <2>1, <2>2, <2>3, <2>4, <2>5, HolderStep
<1>2. CASE \E ids \in Orders : BeginAppend(ids)
  BY <1>2, BeginAppendStep
<1>3. CASE Append_
  BY <1>3, AnnounceStep, GiveUpStep, WriteAllStep, WriteStopsStep, CommitLedgerStep, LedgerFailsStep,
     TruncateStep, RetractStep DEF Append_
<1>4. CASE Archive_
  <2>1. CASE \E s \in Name : SegmentFails(s)
    BY <2>1, SegmentFailsStep
  <2>2. CASE \E s \in Name : \E n \in 1..MaxMade : ArchiveSegment(n, s)
    <3>1. PICK s \in Name, n \in 1..MaxMade : ArchiveSegment(n, s)
      BY <2>2
    <3>2. MaxMade \in Nat
      BY ChainLogAssumption
    <3>3. n \in Nat
      BY <3>2
    <3> QED
      BY <3>1, <3>3, ArchiveSegmentStep
  <2>3. CASE ArchiveIds \/ ArchiveIdsFails \/ ArchiveLedger \/ ArchiveLedgerFails
    BY <2>3, ArchiveIdsStep, ArchiveIdsFailsStep, ArchiveLedgerStep, ArchiveLedgerFailsStep
  <2>4. CASE ArchiveSwap \/ SwapFails \/ Restore \/ Trim
    BY <2>4, ArchiveSwapStep, SwapFailsStep, RestoreStep, TrimStep
  <2> QED
    BY <1>4, <2>1, <2>2, <2>3, <2>4 DEF Archive_
<1>5. CASE Repair_
  BY <1>5, BeginRepairStep, FinishArchiveStep, RepairSettleStep, RepairDropStep, RepairClearStep,
     RepairEndsStep DEF Repair_
<1>6. CASE Crash
  <2>1. CASE WriteStops(Idle)
    BY <2>1, WriteStopsStep
  <2>2. CASE ArchiveIdsStops(Idle) \/ (/\ op' = Idle /\ UNCHANGED <<live, ledger, index, file, made, acked, undone>>)
    BY <2>2, CrashStep
  <2> QED
    BY <1>6, <2>1, <2>2 DEF Crash
<1> QED
  BY <1>1, <1>2, <1>3, <1>4, <1>5, <1>6 DEF LogNext

\* The files of the log are at every moment statements about one sequence of
\* lines, whatever was interrupted.
THEOREM LogInvariant == LogSpec => []LogInv
<1>1. LogInit => LogInv
  <2>1. <<>> \in Seq(Rec)
    OBVIOUS
  <2> QED
    BY <2>1, InitStory DEF LogInv
<1>2. LogInv /\ [LogNext]_logVars => LogInv'
  BY NextStep DEF LogInv, Onward
<1> QED
  BY <1>1, <1>2, PTL DEF LogSpec

\* _chainlog.py, append and its variants: what was acknowledged is there for
\* good, what was withdrawn is nowhere.
THEOREM AnswersAlwaysHold == LogSpec => []AnswersHold
<1>1. LogInv => AnswersHold
  BY AnswersFromStory DEF LogInv
<1> QED
  BY <1>1, LogInvariant, PTL

\* _chainlog.py, repair: nothing that is interrupted leaves a log that one
\* repair does not make readable and appendable, the two exceptions aside.
THEOREM AlwaysRecoverable == LogSpec => []Recoverable
<1>1. LogInv => Recoverable
  <2> SUFFICES ASSUME LogInv PROVE Recoverable
    OBVIOUS
  <2>1. LogTypes
    BY DEF LogInv
  <2>2. PICK G \in Seq(Rec) : LogStory(G)
    BY DEF LogInv
  <2>3. CASE op = Idle
    BY <2>1, <2>2, <2>3, RecoverableFromStory
  <2>4. CASE op # Idle
    BY <2>4 DEF Recoverable
  <2> QED
    BY <2>3, <2>4
<1> QED
  BY <1>1, LogInvariant, PTL

\* What a reader sees, in terms of the lines.
Seen ==
  \A G \in Seq(Rec) : LogTypes /\ LogStory(G) =>
    /\ Log = Slice(G, 0, End(G, ledger)) /\ Len(Log) = End(G, ledger) /\ Sure = Firm(G)
    /\ End(G, ledger) \in 0..Len(G) /\ Firm(G) \in 0..End(G, ledger)

LEMMA SeenAlways == Seen
<1> SUFFICES ASSUME NEW G \in Seq(Rec), LogTypes, LogStory(G)
    PROVE  /\ Log = Slice(G, 0, End(G, ledger)) /\ Len(Log) = End(G, ledger) /\ Sure = Firm(G)
           /\ End(G, ledger) \in 0..Len(G) /\ Firm(G) \in 0..End(G, ledger)
  BY DEF Seen
<1>1. Log = Slice(G, 0, End(G, ledger)) /\ Len(Log) = End(G, ledger) /\ Sure = Firm(G)
  BY LogIs
<1>2. /\ ledger.total \in Nat /\ Reach(G) \in live.count..Len(G) /\ Reach(G) \in Nat /\ Len(G) \in Nat
      /\ End(G, ledger) \in ledger.total..Reach(G) /\ Firm(G) \in ledger.total..End(G, ledger)
  BY EndIs DEF LogStory, Books
<1> QED
  BY <1>1, <1>2

LEMMA SeenNext == Seen'
BY SeenAlways, PTL

LEMMA AtomicStep ==
  ASSUME LogTypes, NEW G \in Seq(Rec), LogStory(G), Onward(G)
  PROVE  [Abstract!Next]_(Abstract!vars)
<1>1. PICK H \in Seq(Rec) : LogTypes' /\ LogStory(H)' /\ Moves(G, H)
  BY DEF Onward
<1>2. PICK e : e = End(G, ledger)
  OBVIOUS
<1>3. PICK f : f = Firm(G)
  OBVIOUS
<1>4. PICK d : d = End(H, ledger)'
  OBVIOUS
<1>5. PICK g : g = Firm(H)'
  OBVIOUS
<1>6. Log = Slice(G, 0, e) /\ Len(Log) = e /\ Sure = f /\ e \in 0..Len(G) /\ f \in 0..e
  BY <1>2, <1>3, SeenAlways DEF Seen
<1>7. Log' = Slice(H, 0, d) /\ Len(Log') = d /\ Sure' = g /\ d \in 0..Len(H) /\ g \in 0..d
  BY <1>1, <1>4, <1>5, SeenNext DEF Seen
<1>8. CASE Stays(G, H)
  <2>1. d = e /\ g = f /\ Slice(G, 0, e) = Slice(H, 0, e)
    BY <1>2, <1>3, <1>4, <1>5, <1>8 DEF Stays, Same
  <2> QED
    BY <1>6, <1>7, <2>1 DEF Abstract!vars
<1>9. CASE Settles(G, H)
  <2>1. d = e /\ g = e /\ Slice(G, 0, e) = Slice(H, 0, e)
    BY <1>2, <1>3, <1>4, <1>5, <1>9 DEF Settles, Same
  <2> QED
    BY <1>6, <1>7, <2>1 DEF Abstract!Next, Abstract!Settle
<1>10. CASE Withdraws(G, H)
  <2>1. d = f /\ g = f /\ Slice(G, 0, f) = Slice(H, 0, f)
    BY <1>2, <1>3, <1>4, <1>5, <1>10 DEF Withdraws, Same
  <2>2. Slice(Slice(G, 0, e), 0, f) = Slice(G, 0, f)
    BY <1>6, SliceOfSlice
  <2>3. Log' = Slice(Log, 0, f)
    BY <1>6, <1>7, <2>1, <2>2
  <2>4. Log' = SubSeq(Log, 1, Sure)
    BY <1>6, <2>3 DEF Slice
  <2> QED
    BY <1>6, <1>7, <2>1, <2>4 DEF Abstract!Next, Abstract!Withdraw
<1>11. CASE Extends(G, H)
  <2>1. /\ f = e /\ e < d /\ Slice(G, 0, e) = Slice(H, 0, e) /\ g \in {f, d}
        /\ \A j \in 1..(d - e) : H[e + j].at = j /\ H[e + j].of = d - e
    BY <1>2, <1>3, <1>4, <1>5, <1>11 DEF Extends, Same
  <2>2. e \in Nat /\ d \in Nat /\ e \in 0..d /\ d \in e..d /\ d - e \in Nat /\ d \in e..Len(H)
    BY <1>6, <1>7, <2>1
  <2>3. Slice(Slice(H, 0, d), 0, e) = Slice(H, 0, e) /\ Slice(Slice(H, 0, d), e, d) = Slice(H, e, d)
    BY <1>7, <2>2, SliceOfSlice
  <2>4. SubSeq(Log', 1, Sure) = Log
    <3>1. Slice(Log', 0, e) = Log
      BY <1>6, <1>7, <2>1, <2>3
    <3>2. Sure = e
      BY <1>6, <2>1
    <3> QED
      BY <3>1, <3>2 DEF Slice
  <2>5. PICK b : b = Slice(H, e, d)
    OBVIOUS
  <2>6. SubSeq(Log', Sure + 1, Len(Log')) = b
    <3>1. Slice(Log', e, d) = b
      BY <1>7, <2>3, <2>5
    <3>2. Sure = e /\ Len(Log') = d
      BY <1>6, <1>7, <2>1
    <3> QED
      BY <3>1, <3>2 DEF Slice
  <2>7. Abstract!IsBatch(b)
    <3>1. Len(b) = d - e /\ (\A j \in 1..(d - e) : b[j] = H[e + j]) /\ b \in Seq(Rec)
      BY <2>2, <2>5, SliceIs
    <3>2. DOMAIN b = 1..(d - e)
      BY <3>1
    <3> QED
      BY <2>1, <3>1, <3>2 DEF Abstract!IsBatch
  <2>8. Sure = Len(Log) /\ Len(Log') > Sure /\ Sure' \in {Sure, Len(Log')}
    BY <1>6, <1>7, <2>1, <2>2
  <2> QED
    BY <2>4, <2>6, <2>7, <2>8 DEF Abstract!Next, Abstract!Extend
<1> QED
  BY <1>1, <1>8, <1>9, <1>10, <1>11 DEF Moves

\* _chainlog.py: the log, the ledger, the segment files and the id index are
\* together one log that grows by whole batches; only the batch being written
\* may be withdrawn.
THEOREM LogIsAtomic == LogSpec => Atomic
<1>1. LogInit => Abstract!Init
  <2> SUFFICES ASSUME LogInit PROVE Abstract!Init
    OBVIOUS
  <2>1. LogTypes /\ LogStory(<<>>) /\ <<>> \in Seq(Rec)
    BY InitStory
  <2>2. PICK G \in Seq(Rec) : G = <<>> /\ LogTypes /\ LogStory(G)
    BY <2>1
  <2>3. /\ Log = Slice(G, 0, End(G, ledger)) /\ Sure = Firm(G)
        /\ End(G, ledger) \in 0..Len(G) /\ Firm(G) \in 0..End(G, ledger)
    BY <2>2, SeenAlways DEF Seen
  <2>4. Len(G) = 0
    BY <2>2
  <2>5. End(G, ledger) = 0 /\ Firm(G) = 0
    BY <2>3, <2>4
  <2>6. Slice(G, 0, 0) = <<>>
    <3>1. 0 \in 0..Len(G)
      BY <2>4
    <3> QED
      BY <2>2, <3>1, SliceEmpty, ZenonT(30)
  <2> QED
    BY <2>3, <2>5, <2>6 DEF Abstract!Init
<1>2. LogInv /\ [LogNext]_logVars => [Abstract!Next]_(Abstract!vars)
  BY NextStep, AtomicStep DEF LogInv
<1> QED
  BY <1>1, <1>2, LogInvariant, PTL DEF LogSpec, Atomic, Abstract!Spec

-----------------------------------------------------------------------------
(* Ids.  Of the lines in the files no two carry one id, and the newest     *)
(* ledger entry lists the ids of all that is archived: so the checks of an *)
(* append, one against the live lines and one against the index, find      *)
(* every id there is.                                                      *)

ToCome == IF op.pc = "announced" THEN ToSet(op.new) ELSE {}
Filed == UNION {ToSet(file[s].recs) : s \in Name}
Known == ToSet(live.recs) \union Filed \union ToCome
OneEach == \A q, r \in Known : q.id = r.id => q = r

\* The ids of the first k lines.
FirstIds(G, k) == IdsOf(Slice(G, 0, k))
ListsIds(G, led) == led.segs # <<>> => Last(led.segs).ids = FirstIds(G, Archived(led.segs))

IdStory(G) ==
  /\ OneEach /\ ListsIds(G, ledger)
  /\ op.pc \in {"swap", "restore"} => ListsIds(G, op.old)
  /\ op.pc = "ledger" => Take(index, live.count + op.n) = FirstIds(G, live.count + op.n)

LEMMA IdsIs ==
  ASSUME NEW s \in Seq(Rec)
  PROVE  /\ IdsOf(s) \in Seq(RecordId) /\ Len(IdsOf(s)) = Len(s)
         /\ \A i \in 1..Len(s) : IdsOf(s)[i] = s[i].id
<1>1. DOMAIN s = 1..Len(s) /\ Len(s) \in Nat
  OBVIOUS
<1>2. \A i \in 1..Len(s) : s[i].id \in RecordId
  <2> TAKE i \in 1..Len(s)
  <2>1. s[i] \in Rec
    BY ElementOfSeq
  <2> QED
    BY <2>1 DEF Rec
<1>3. IdsOf(s) = [i \in 1..Len(s) |-> s[i].id]
  BY <1>1 DEF IdsOf
<1> QED
  BY <1>1, <1>2, <1>3, IsASeq

LEMMA ConcatIs ==
  ASSUME NEW S, NEW s \in Seq(S), NEW t \in Seq(S)
  PROVE  /\ s \o t \in Seq(S) /\ Len(s \o t) = Len(s) + Len(t)
         /\ \A i \in 1..Len(s) : (s \o t)[i] = s[i]
         /\ \A i \in 1..Len(t) : (s \o t)[Len(s) + i] = t[i]
BY ConcatProperties

LEMMA IdsJoin ==
  ASSUME NEW s \in Seq(Rec), NEW t \in Seq(Rec)
  PROVE  IdsOf(s) \o IdsOf(t) = IdsOf(s \o t)
<1>1. /\ s \o t \in Seq(Rec) /\ Len(s \o t) = Len(s) + Len(t)
      /\ \A i \in 1..Len(s) : (s \o t)[i] = s[i]
      /\ \A i \in 1..Len(t) : (s \o t)[Len(s) + i] = t[i]
  BY ConcatProperties
<1>2. PICK a, b, u, c : a = IdsOf(s) /\ b = IdsOf(t) /\ u = s \o t /\ c = IdsOf(u)
  OBVIOUS
<1>3. /\ a \in Seq(RecordId) /\ Len(a) = Len(s) /\ \A i \in 1..Len(s) : a[i] = s[i].id
      /\ b \in Seq(RecordId) /\ Len(b) = Len(t) /\ \A i \in 1..Len(t) : b[i] = t[i].id
      /\ c \in Seq(RecordId) /\ Len(c) = Len(u) /\ \A i \in 1..Len(u) : c[i] = u[i].id
  BY <1>1, <1>2, IdsIs
<1>4. /\ a \o b \in Seq(RecordId) /\ Len(a \o b) = Len(s) + Len(t)
      /\ \A i \in 1..Len(s) : (a \o b)[i] = a[i]
      /\ \A i \in 1..Len(t) : (a \o b)[Len(s) + i] = b[i]
  <2>1. a \in Seq(RecordId) /\ b \in Seq(RecordId)
    BY <1>3
  <2>2. /\ a \o b \in Seq(RecordId) /\ Len(a \o b) = Len(a) + Len(b)
        /\ \A i \in 1..Len(a) : (a \o b)[i] = a[i]
        /\ \A i \in 1..Len(b) : (a \o b)[Len(a) + i] = b[i]
    BY <2>1, ConcatIs
  <2>3. Len(a) = Len(s) /\ Len(b) = Len(t)
    BY <1>3
  <2> QED
    BY <2>2, <2>3
<1>5. \A i \in 1..(Len(s) + Len(t)) : (a \o b)[i] = c[i]
  <2> TAKE i \in 1..(Len(s) + Len(t))
  <2>0. i \in 1..Len(u) /\ c[i] = u[i].id
    BY <1>1, <1>2, <1>3
  <2>1. CASE i \in 1..Len(s)
    <3>1. (a \o b)[i] = a[i] /\ a[i] = s[i].id /\ u[i] = s[i]
      BY <1>1, <1>2, <1>3, <1>4, <2>1
    <3> QED
      BY <2>0, <3>1
  <2>2. CASE i \notin 1..Len(s)
    <3>1. i - Len(s) \in 1..Len(t) /\ Len(s) + (i - Len(s)) = i
      BY <2>2
    <3>2. (a \o b)[i] = b[i - Len(s)] /\ u[i] = t[i - Len(s)]
      BY <1>1, <1>2, <1>4, <3>1
    <3>3. b[i - Len(s)] = t[i - Len(s)].id
      BY <1>3, <3>1
    <3> QED
      BY <2>0, <3>2, <3>3
  <2> QED
    BY <2>1, <2>2
<1>6. a \o b = c
  <2>1. a \o b \in Seq(RecordId) /\ c \in Seq(RecordId) /\ Len(a \o b) = Len(c)
    BY <1>1, <1>2, <1>3, <1>4
  <2>2. \A i \in 1..Len(a \o b) : (a \o b)[i] = c[i]
    BY <1>4, <1>5
  <2> QED
    BY <2>1, <2>2, SliceEqual
<1> QED
  BY <1>2, <1>6

LEMMA TakeLines ==
  ASSUME NEW s \in Seq(Rec), NEW k \in Int
  PROVE  ToSet(Take(s, k)) \subseteq ToSet(s)
<1>1. PICK m : m = IF k < Len(s) THEN k ELSE Len(s)
  OBVIOUS
<1>2. Take(s, k) = SubSeq(s, 1, m) /\ m \in Int /\ m <= Len(s) /\ Len(s) \in Nat
  BY <1>1 DEF Take
<1>3. SubSeq(s, 1, m) = [i \in 1..m |-> s[i]]
  BY <1>2
<1> QED
  BY <1>2, <1>3 DEF ToSet

LEMMA DropLines ==
  ASSUME NEW s \in Seq(Rec), NEW k \in Nat
  PROVE  ToSet(Drop(s, k)) \subseteq ToSet(s)
<1>1. Len(s) \in Nat /\ Drop(s, k) = [i \in 1..(Len(s) - k) |-> s[k + i]]
  BY DEF Drop
<1> QED
  BY <1>1 DEF ToSet

LEMMA JoinedLines ==
  ASSUME NEW s \in Seq(Rec), NEW t \in Seq(Rec)
  PROVE  ToSet(s \o t) \subseteq ToSet(s) \union ToSet(t)
<1>1. /\ s \o t \in Seq(Rec) /\ Len(s \o t) = Len(s) + Len(t)
      /\ \A i \in 1..Len(s) : (s \o t)[i] = s[i]
      /\ \A i \in 1..Len(t) : (s \o t)[Len(s) + i] = t[i]
  BY ConcatProperties
<1>2. ASSUME NEW i \in 1..(Len(s) + Len(t)) PROVE (s \o t)[i] \in ToSet(s) \union ToSet(t)
  <2>1. CASE i \in 1..Len(s)
    BY <1>1, <2>1 DEF ToSet
  <2>2. CASE i \notin 1..Len(s)
    <3>1. i - Len(s) \in 1..Len(t) /\ Len(s) + (i - Len(s)) = i
      BY <2>2
    <3>2. (s \o t)[i] = t[i - Len(s)]
      BY <1>1, <3>1
    <3> QED
      BY <3>1, <3>2 DEF ToSet
  <2> QED
    BY <2>1, <2>2
<1>3. DOMAIN (s \o t) = 1..(Len(s) + Len(t))
  BY <1>1
<1> QED
  BY <1>2, <1>3 DEF ToSet

\* What a reader parses are lines of the file.
LEMMA ParsedLines ==
  ASSUME NEW l \in LogFile, NEW G \in Seq(Rec), Holding(l, G)
  PROVE  _parse(l) \in Seq(Rec) /\ ToSet(_parse(l)) \subseteq ToSet(l.recs)
<1>1. l.recs \in Seq(Rec)
  BY DEF LogFile
<1>2. CASE l.tail = "whole"
  <2>1. _parse(l) = SubSeq(l.recs, 1, Len(l.recs) - 1)
    BY <1>2 DEF _parse, Front
  <2>2. Len(l.recs) \in Nat
    BY <1>1
  <2>3. Take(l.recs, Len(l.recs) - 1) = SubSeq(l.recs, 1, Len(l.recs) - 1)
    BY <2>2 DEF Take
  <2>4. _parse(l) \in Seq(Rec)
    BY ParseIs, SliceIs
  <2>5. PICK k : k = Len(l.recs) - 1
    OBVIOUS
  <2>6. ToSet(Take(l.recs, k)) \subseteq ToSet(l.recs)
    <3>1. k \in Int
      BY <2>2, <2>5
    <3> QED
      BY <1>1, <3>1, TakeLines
  <2> QED
    BY <2>1, <2>3, <2>4, <2>5, <2>6
<1>3. CASE l.tail # "whole"
  BY <1>1, <1>3 DEF _parse
<1> QED
  BY <1>2, <1>3

\* Every line of G is in a file, and nothing else is.
LEMMA KnownIs ==
  ASSUME LogTypes, NEW G \in Seq(Rec), LogStory(G)
  PROVE  ToSet(G) \subseteq Known /\ (op.pc # "announced" => Known = ToSet(G))
<1>1. /\ live.count \in Nat /\ live.count <= Len(G) /\ Len(G) \in Nat /\ Firm(G) \in Nat /\ Firm(G) <= Len(G)
      /\ live.recs = Slice(G, live.count, Len(G)) /\ DOMAIN G = 1..Len(G)
  <2>1. Lines(G) /\ Accounts(G, ledger) /\ Holding(live, G)
    BY DEF LogStory, Lines, Books
  <2> QED
    BY <2>1, EndIs DEF Holding
<1>2. /\ live.recs \in Seq(Rec) /\ Len(live.recs) = Len(G) - live.count
      /\ \A i \in 1..(Len(G) - live.count) : live.recs[i] = G[live.count + i]
  <2>1. PICK c, b : c = live.count /\ b = Len(G)
    OBVIOUS
  <2>2. c \in Nat /\ b \in c..Len(G)
    BY <1>1, <2>1
  <2>3. /\ Slice(G, c, b) \in Seq(Rec) /\ Len(Slice(G, c, b)) = b - c
        /\ \A i \in 1..(b - c) : Slice(G, c, b)[i] = G[c + i]
    BY <2>2, SliceIs
  <2> QED
    BY <1>1, <2>1, <2>3
<1>3. ASSUME NEW s \in Name, file[s] # NoFile
      PROVE  /\ file[s].count \in Nat /\ Len(file[s].recs) \in Nat /\ DOMAIN file[s].recs = 1..Len(file[s].recs)
             /\ file[s].count + Len(file[s].recs) <= Len(G)
             /\ \A i \in 1..Len(file[s].recs) : file[s].recs[i] = G[file[s].count + i]
  <2>1. PICK c, n, recs : c = file[s].count /\ recs = file[s].recs /\ n = Len(recs)
    OBVIOUS
  <2>2. c \in 0..live.count /\ c + n <= Firm(G) /\ recs = Slice(G, c, c + n)
    BY <1>3, <2>1 DEF LogStory, Files
  <2>3. recs \in Seq(Rec)
    BY <2>1 DEF LogTypes, SegmentFile
  <2>4. n \in Nat /\ c \in Nat /\ c + n \in c..Len(G) /\ c + n <= Len(G) /\ (c + n) - c = n
    BY <1>1, <2>1, <2>2, <2>3
  <2>5. \A i \in 1..n : recs[i] = G[c + i]
    <3>1. PICK b : b = c + n
      OBVIOUS
    <3>2. c \in Nat /\ b \in c..Len(G) /\ b - c = n
      BY <2>4, <3>1
    <3>3. \A i \in 1..(b - c) : Slice(G, c, b)[i] = G[c + i]
      BY <3>2, SliceIs
    <3> QED
      BY <2>2, <3>1, <3>2, <3>3
  <2>6. DOMAIN recs = 1..n
    BY <2>1, <2>3
  <2> QED
    BY <2>1, <2>4, <2>5, <2>6
<1>4. ASSUME NEW i \in 1..Len(G) PROVE G[i] \in Known
  <2>1. CASE i <= live.count
    <3>1. PICK s \in Name : Holds(s, i)
      BY <1>1, <2>1 DEF LogStory, Files
    <3>2. file[s] # NoFile /\ file[s].count < i /\ i <= file[s].count + Len(file[s].recs)
      BY <3>1 DEF Holds
    <3>3. PICK j : j = i - file[s].count
      OBVIOUS
    <3>4. j \in 1..Len(file[s].recs) /\ file[s].count + j = i
      BY <1>3, <3>2, <3>3
    <3>5. file[s].recs[j] = G[i] /\ j \in DOMAIN file[s].recs
      BY <1>3, <3>2, <3>4
    <3>6. G[i] \in ToSet(file[s].recs)
      BY <3>5 DEF ToSet
    <3> QED
      BY <3>6 DEF Known, Filed
  <2>2. CASE ~(i <= live.count)
    <3>1. i - live.count \in 1..(Len(G) - live.count) /\ live.count + (i - live.count) = i
      BY <1>1, <2>2
    <3>2. live.recs[i - live.count] = G[i] /\ i - live.count \in DOMAIN live.recs
      BY <1>2, <3>1
    <3>3. G[i] \in ToSet(live.recs)
      BY <3>2 DEF ToSet
    <3> QED
      BY <3>3 DEF Known
  <2> QED
    BY <2>1, <2>2
<1>5. ToSet(live.recs) \subseteq ToSet(G)
  <2>1. ASSUME NEW i \in DOMAIN live.recs PROVE live.recs[i] \in ToSet(G)
    <3>1. i \in 1..(Len(G) - live.count)
      BY <1>2
    <3>2. live.count + i \in 1..Len(G) /\ live.recs[i] = G[live.count + i]
      BY <1>1, <1>2, <3>1
    <3> QED
      BY <1>1, <3>2 DEF ToSet
  <2> QED
    BY <2>1 DEF ToSet
<1>6. ASSUME NEW s \in Name PROVE ToSet(file[s].recs) \subseteq ToSet(G)
  <2>1. CASE file[s] = NoFile
    BY <2>1 DEF NoFile, ToSet
  <2>2. CASE file[s] # NoFile
    <3>1. ASSUME NEW i \in DOMAIN file[s].recs PROVE file[s].recs[i] \in ToSet(G)
      <4>1. PICK c, n : c = file[s].count /\ n = Len(file[s].recs)
        OBVIOUS
      <4>2. c \in Nat /\ n \in Nat /\ i \in 1..n /\ c + n <= Len(G) /\ file[s].recs[i] = G[c + i]
        BY <1>3, <2>2, <4>1
      <4>3. c + i \in 1..Len(G)
        BY <1>1, <4>2
      <4> QED
        BY <1>1, <4>2, <4>3 DEF ToSet
    <3> QED
      BY <3>1 DEF ToSet
  <2> QED
    BY <2>1, <2>2
<1>7. ToSet(G) \subseteq Known
  BY <1>1, <1>4 DEF ToSet
<1>8. op.pc # "announced" => Known \subseteq ToSet(G)
  BY <1>5, <1>6 DEF Known, Filed, ToCome
<1> QED
  BY <1>7, <1>8

\* Of two lines of the log one has the other's id only if it is the same line.
LEMMA DecidedFromStory ==
  ASSUME LogTypes, NEW G \in Seq(Rec), LogStory(G), IdStory(G)
  PROVE  DecidedOnce
<1>1. /\ Log = Slice(G, 0, End(G, ledger)) /\ Chain(G) /\ End(G, ledger) \in 0..Len(G) /\ DOMAIN G = 1..Len(G)
      /\ Len(G) \in Nat
  BY SeenAlways DEF Seen, LogStory, Lines
<1>2. PICK e : e = End(G, ledger)
  OBVIOUS
<1>3. Log \in Seq(Rec) /\ Len(Log) = e /\ (\A i \in 1..e : Log[i] = G[i]) /\ e \in 0..Len(G)
  BY <1>1, <1>2, PrefixIs
<1>4. /\ \A i \in 1..e : IdsOf(Log)[i] = Log[i].id
      /\ DOMAIN IdsOf(Log) = 1..e
  BY <1>3, IdsIs
<1>5. ASSUME NEW i \in 1..e, NEW j \in 1..e, IdsOf(Log)[i] = IdsOf(Log)[j] PROVE i = j
  <2>1. i \in 1..Len(G) /\ j \in 1..Len(G) /\ G[i].id = G[j].id
    BY <1>1, <1>3, <1>4, <1>5
  <2>2. G[i] \in Known /\ G[j] \in Known
    BY <1>1, <2>1, KnownIs DEF ToSet
  <2>3. G[i] = G[j]
    BY <2>1, <2>2 DEF IdStory, OneEach
  <2>4. N(G, i) = N(G, j)
    BY <2>1, <2>3, LineIsRec
  <2>5. i \in 0..Len(G) /\ j \in 0..Len(G)
    BY <2>1
  <2> QED
    BY <1>1, <2>4, <2>5, NumbersGrow
<1> QED
  BY <1>4, <1>5 DEF DecidedOnce, IsInjective

\* A step that announces nothing brings no new line.
LEMMA NoMoreLines ==
  ASSUME ToSet(live'.recs) \subseteq Known, \A s \in Name : ToSet(file'[s].recs) \subseteq Known,
         op'.pc = "announced" => op.pc = "announced" /\ op'.new = op.new
  PROVE  Known' \subseteq Known
BY DEF Known, Filed, ToCome

LEMMA FilesAreKnown ==
  /\ ToSet(live.recs) \subseteq Known /\ \A s \in Name : ToSet(file[s].recs) \subseteq Known
  /\ op.pc = "announced" => ToSet(op.new) \subseteq Known
<1>1. ToSet(live.recs) \subseteq Known
  BY DEF Known
<1>2. \A s \in Name : ToSet(file[s].recs) \subseteq Known
  <2>1. \A s \in Name : ToSet(file[s].recs) \subseteq Filed
    BY DEF Filed
  <2> QED
    BY <2>1 DEF Known
<1>3. ASSUME op.pc = "announced" PROVE ToSet(op.new) \subseteq Known
  <2>1. ToCome = ToSet(op.new)
    BY <1>3 DEF ToCome
  <2>2. ToCome \subseteq Known
    BY DEF Known
  <2> QED
    BY <2>1, <2>2, Zenon
<1> QED
  BY <1>1, <1>2, <1>3

\* What most steps do: no line is made, no segment named, no archive's step taken.
Plain ==
  /\ Known' \subseteq Known
  /\ ledger'.segs = ledger.segs
  /\ op'.pc \in {"swap", "restore"} => op.pc \in {"swap", "restore"} /\ op'.old = op.old
  /\ op'.pc = "ledger" => op.pc = "ledger" /\ op'.n = op.n /\ index' = index /\ live' = live

LEMMA AppendIsPlain ==
  ASSUME LogTypes, NEW G \in Seq(Rec), LogStory(G)
  PROVE  /\ (\E ids \in Orders : BeginAppend(ids)) => Plain
         /\ GiveUp \/ Write \/ WriteFails \/ CommitLedger \/ LedgerFails \/ Truncate \/ Retract => Plain
         /\ WriteStops(Idle) => Plain
<1>1. live \in LogFile /\ ledger \in Ledger /\ live.recs \in Seq(Rec)
  BY DEF LogTypes, LogFile
<1>2. op.pc \in {"announced", "written", "undo", "retract"} =>
        op \in [pc : {"announced", "written", "undo", "retract"}, new : Seq(Rec), start : Nat]
  BY HolderIs DEF LogTypes
<1>3. ASSUME NEW ids \in Orders, BeginAppend(ids) PROVE Plain
  <2>1. live'.recs = live.recs /\ file' = file /\ ledger' = ledger /\ op'.pc = "begin"
    BY <1>1, <1>3 DEF BeginAppend, _repair_torn_tail, LogFile
  <2> QED
    BY <2>1, FilesAreKnown, NoMoreLines DEF Plain
<1>4. CASE GiveUp
  <2>1. live' = live /\ file' = file /\ ledger' = ledger /\ op'.pc = "idle"
    BY <1>4 DEF GiveUp, Idle
  <2> QED
    BY <2>1, FilesAreKnown, NoMoreLines DEF Plain
<1>5. CASE Write
  <2>1. op.pc = "announced" /\ op.new \in Seq(Rec) /\ op \in [pc : {"announced", "written", "undo", "retract"}, new : Seq(Rec), start : Nat]
    BY <1>2, <1>5 DEF Write
  <2>2. live'.recs = live.recs \o op.new /\ file' = file /\ ledger' = ledger /\ op'.pc = "written"
    BY <1>1, <1>5, <2>1 DEF Write, LogFile
  <2>3. ToSet(live'.recs) \subseteq Known
    BY <1>1, <2>1, <2>2, FilesAreKnown, JoinedLines
  <2> QED
    BY <2>2, <2>3, FilesAreKnown, NoMoreLines DEF Plain
<1>6. ASSUME NEW next, WriteStops(next), next.pc \in {"idle", "undo"} PROVE Plain
  <2>1. op.pc = "announced" /\ op.new \in Seq(Rec)
    BY <1>2, <1>6 DEF WriteStops
  <2>2. PICK k \in 0..Len(op.new), tail \in {"clean", "part", "whole"} :
          live' = [live EXCEPT !.recs = @ \o Take(op.new, k), !.tail = tail]
    BY <1>6 DEF WriteStops
  <2>3. live'.recs = live.recs \o Take(op.new, k) /\ file' = file /\ ledger' = ledger /\ op' = next
    BY <1>1, <1>6, <2>2 DEF WriteStops, LogFile
  <2>4. k \in Nat /\ k \in Int
    BY <2>1
  <2>5. Take(op.new, k) \in Seq(Rec) /\ ToSet(Take(op.new, k)) \subseteq ToSet(op.new)
    BY <2>1, <2>4, TakeType, TakeLines
  <2>6. ToSet(live'.recs) \subseteq Known
    BY <1>1, <2>1, <2>3, <2>5, FilesAreKnown, JoinedLines
  <2> QED
    BY <1>6, <2>3, <2>6, FilesAreKnown, NoMoreLines DEF Plain
<1>7. CASE WriteFails
  <2>1. op.pc = "announced"
    BY <1>7 DEF WriteFails, WriteStops
  <2>2. PICK next : next = [op EXCEPT !.pc = "undo"]
    OBVIOUS
  <2>3. next.pc = "undo"
    BY <1>2, <2>1, <2>2
  <2> QED
    BY <1>6, <1>7, <2>2, <2>3 DEF WriteFails
<1>8. CASE WriteStops(Idle)
  BY <1>6, <1>8 DEF Idle
<1>9. CASE CommitLedger \/ Retract
  <2>1. live' = live /\ file' = file /\ op'.pc = "idle"
    BY <1>9 DEF CommitLedger, Retract, Idle
  <2>2. ledger'.segs = ledger.segs
    <3>1. CASE CommitLedger
      BY <1>1, <3>1 DEF CommitLedger, Ledger
    <3>2. CASE Retract
      BY <1>1, <3>2 DEF Retract, Ledger
    <3> QED
      BY <1>9, <3>1, <3>2
  <2> QED
    BY <2>1, <2>2, FilesAreKnown, NoMoreLines DEF Plain
<1>10. CASE LedgerFails
  <2>1. live' = live /\ file' = file /\ ledger' = ledger /\ op'.pc = "undo"
    BY <1>2, <1>10 DEF LedgerFails
  <2> QED
    BY <2>1, FilesAreKnown, NoMoreLines DEF Plain
<1>11. CASE Truncate
  <2>1. op.pc = "undo" /\ op.start \in Nat /\ op \in [pc : {"announced", "written", "undo", "retract"}, new : Seq(Rec), start : Nat]
    BY <1>2, <1>11 DEF Truncate, TruncateTo
  <2>2. live'.recs = Take(live.recs, op.start) /\ file' = file /\ ledger' = ledger /\ op'.pc = "retract"
    BY <1>1, <1>11, <2>1 DEF Truncate, TruncateTo, LogFile
  <2>3. ToSet(live'.recs) \subseteq Known
    BY <1>1, <2>1, <2>2, FilesAreKnown, TakeLines
  <2> QED
    BY <2>2, <2>3, FilesAreKnown, NoMoreLines DEF Plain
<1> QED
  BY <1>3, <1>4, <1>5, <1>7, <1>8, <1>9, <1>10, <1>11

\* The live log without its first lines.
LEMMA ReanchoredLines ==
  ASSUME LogTypes, NEW G \in Seq(Rec), LogStory(G), NEW n \in Nat
  PROVE  ToSet(Reanchored(live, n).recs) \subseteq Known
<1>1. _parse(live) \in Seq(Rec) /\ ToSet(_parse(live)) \subseteq ToSet(live.recs)
  BY ParsedLines DEF LogTypes, LogStory, Lines
<1>2. Reanchored(live, n).recs = Drop(_parse(live), n)
  BY DEF Reanchored, EmptyLog
<1> QED
  BY <1>1, <1>2, FilesAreKnown, DropLines

LEMMA ArchiveIsPlain ==
  ASSUME LogTypes, NEW G \in Seq(Rec), LogStory(G)
  PROVE  /\ \A s \in Name : SegmentFails(s) => Plain
         /\ \A s \in Name, n \in Nat : ArchiveSegment(n, s) => Plain
         /\ ArchiveIdsFails \/ ArchiveIdsStops(Idle) => Plain
         /\ ArchiveLedgerFails \/ ArchiveSwap \/ SwapFails \/ Trim => Plain
<1>1. live \in LogFile /\ ledger \in Ledger /\ file \in [Name -> SegmentFile]
  BY DEF LogTypes
<1>2. /\ op.pc \in {"ids", "ledger", "trim"} => op \in [pc : {"ids", "ledger", "trim"}, n : Nat, name : Name]
      /\ op.pc \in {"swap", "restore"} => op \in [pc : {"swap", "restore"}, n : Nat, name : Name, old : Ledger]
  BY HolderIs DEF LogTypes
<1>3. ASSUME NEW s \in Name, SegmentFails(s) PROVE Plain
  <2>1. /\ file' = [file EXCEPT ![s] = [head |-> live.head, count |-> live.count, recs |-> <<>>]]
        /\ live' = live /\ ledger' = ledger /\ op' = op /\ index' = index
    BY <1>3 DEF SegmentFails
  <2>2. ToSet(file'[s].recs) = {} /\ \A r \in Name \ {s} : file'[r] = file[r]
    BY <1>1, <2>1 DEF ToSet
  <2>3. \A r \in Name : ToSet(file'[r].recs) \subseteq Known
    BY <2>2, FilesAreKnown
  <2> QED
    BY <2>1, <2>3, FilesAreKnown, NoMoreLines DEF Plain
<1>4. ASSUME NEW s \in Name, NEW n \in Nat, ArchiveSegment(n, s) PROVE Plain
  <2>1. /\ file' = [file EXCEPT ![s] = [head |-> live.head, count |-> live.count, recs |-> Moving(n)]]
        /\ live' = live /\ ledger' = ledger /\ op'.pc = "ids"
    BY <1>4 DEF ArchiveSegment
  <2>2. _parse(live) \in Seq(Rec) /\ ToSet(_parse(live)) \subseteq ToSet(live.recs)
    BY <1>1, ParsedLines DEF LogStory, Lines
  <2>3. n \in Int
    OBVIOUS
  <2>4. ToSet(Moving(n)) \subseteq Known
    BY <2>2, <2>3, FilesAreKnown, TakeLines DEF Moving
  <2>5. file'[s].recs = Moving(n) /\ \A r \in Name \ {s} : file'[r] = file[r]
    BY <1>1, <2>1
  <2>6. \A r \in Name : ToSet(file'[r].recs) \subseteq Known
    BY <2>4, <2>5, FilesAreKnown
  <2> QED
    BY <2>1, <2>6, FilesAreKnown, NoMoreLines DEF Plain
<1>5. CASE ArchiveIdsFails \/ ArchiveIdsStops(Idle) \/ ArchiveLedgerFails
  <2>1. live' = live /\ file' = file /\ ledger' = ledger /\ op'.pc \in {"trim", "idle"}
    BY <1>2, <1>5 DEF ArchiveIdsFails, ArchiveIdsStops, ArchiveLedgerFails, Idle
  <2> QED
    BY <2>1, FilesAreKnown, NoMoreLines DEF Plain
<1>6. CASE ArchiveSwap
  <2>1. live' = Reanchored(live, op.n) /\ file' = file /\ ledger' = ledger /\ op'.pc = "idle" /\ op.n \in Nat
    BY <1>2, <1>6 DEF ArchiveSwap, Idle
  <2> QED
    BY <2>1, ReanchoredLines, FilesAreKnown, NoMoreLines DEF Plain
<1>7. CASE SwapFails
  <2>1. live' = live /\ file' = file /\ ledger' = ledger /\ op'.pc = "restore" /\ op.pc = "swap" /\ op'.old = op.old
    BY <1>2, <1>7 DEF SwapFails
  <2> QED
    BY <2>1, FilesAreKnown, NoMoreLines DEF Plain
<1>8. CASE Trim
  <2>1. live' = live /\ ledger' = ledger /\ op'.pc = "idle" /\ op.pc = "trim" /\ file' \in {file, [file EXCEPT ![op.name] = NoFile]}
    BY <1>8 DEF Trim, Idle
  <2>2. \A r \in Name : file'[r] = file[r] \/ file'[r] = NoFile
    BY <1>1, <2>1
  <2>3. ToSet(NoFile.recs) = {}
    BY DEF NoFile, ToSet
  <2>4. \A r \in Name : ToSet(file'[r].recs) \subseteq Known
    BY <2>2, <2>3, FilesAreKnown
  <2> QED
    BY <2>1, <2>4, FilesAreKnown, NoMoreLines DEF Plain
<1> QED
  BY <1>3, <1>4, <1>5, <1>6, <1>7, <1>8

LEMMA RepairIsPlain ==
  ASSUME LogTypes, NEW G \in Seq(Rec), LogStory(G)
  PROVE  /\ Repair_ => Plain
         /\ op' = Idle /\ UNCHANGED <<live, ledger, index, file, made, acked, undone>> => Plain
         /\ UNCHANGED logVars => Plain
<1>1. live \in LogFile /\ ledger \in Ledger /\ live.recs \in Seq(Rec)
  BY DEF LogTypes, LogFile
<1>2. CASE BeginRepair
  <2>1. live'.recs = live.recs /\ file' = file /\ ledger' = ledger /\ op'.pc = "repair"
    BY <1>1, <1>2 DEF BeginRepair, _repair_torn_tail, LogFile
  <2> QED
    BY <2>1, FilesAreKnown, NoMoreLines DEF Plain
<1>3. CASE _finish_archive
  <2>1. /\ live' = Reanchored(live, Newest.count) /\ file' = file /\ ledger' = ledger /\ op' = op /\ op.pc = "repair"
        /\ ledger.segs # <<>> /\ Newest = Last(ledger.segs)
    BY <1>3 DEF _finish_archive, CanFinish, Unswapped, Newest
  <2>2. Newest.count \in Nat
    <3>1. ledger.segs \in Seq(Segment)
      BY <1>1 DEF Ledger
    <3>2. Len(ledger.segs) \in 1..Len(ledger.segs)
      BY <2>1, <3>1, EmptySeq
    <3>3. Last(ledger.segs) \in Segment
      BY <3>1, <3>2, ElementOfSeq DEF Last
    <3> QED
      BY <2>1, <3>3 DEF Segment
  <2> QED
    BY <2>1, <2>2, ReanchoredLines, FilesAreKnown, NoMoreLines DEF Plain
<1>4. CASE RepairSettle \/ RepairClear
  <2>1. live' = live /\ file' = file /\ op'.pc = "idle"
    BY <1>4 DEF RepairSettle, RepairClear, Idle
  <2>2. ledger'.segs = ledger.segs
    <3>1. CASE RepairSettle
      BY <1>1, <3>1 DEF RepairSettle, Ledger
    <3>2. CASE RepairClear
      BY <1>1, <3>2 DEF RepairClear, Ledger
    <3> QED
      BY <1>4, <3>1, <3>2
  <2> QED
    BY <2>1, <2>2, FilesAreKnown, NoMoreLines DEF Plain
<1>5. CASE RepairDrop
  <2>1. live' = BatchDropped(live, ledger) /\ file' = file /\ ledger' = ledger /\ op'.pc = "clear"
    BY <1>5 DEF RepairDrop
  <2>2. PICK k : k = Len(live.recs) - Len(After(live, ledger))
    OBVIOUS
  <2>3. live'.recs = Take(live.recs, k)
    BY <1>1, <2>1, <2>2 DEF BatchDropped, LogFile
  <2>4. k \in Int
    <3>1. /\ Chain(G) /\ Holding(live, G) /\ Accounts(G, ledger) /\ live.count <= ledger.total
          /\ Len(G) \in Nat /\ ledger.total \in Nat
      BY EndIs DEF LogStory, Lines, Books
    <3>2. Len(After(live, ledger)) = Len(G) - ledger.total
      BY <1>1, <3>1, AfterIs
    <3> QED
      BY <1>1, <2>2, <3>1, <3>2
  <2> QED
    BY <1>1, <2>1, <2>3, <2>4, TakeLines, FilesAreKnown, NoMoreLines DEF Plain
<1>6. CASE RepairEnds
  <2>1. live' = live /\ file' = file /\ ledger' = ledger /\ op'.pc = "idle"
    BY <1>6 DEF RepairEnds, Idle
  <2> QED
    BY <2>1, FilesAreKnown, NoMoreLines DEF Plain
<1>7. CASE op' = Idle /\ UNCHANGED <<live, ledger, index, file, made, acked, undone>>
  <2>1. live' = live /\ file' = file /\ ledger' = ledger /\ op'.pc = "idle"
    BY <1>7 DEF Idle
  <2> QED
    BY <2>1, FilesAreKnown, NoMoreLines DEF Plain
<1>8. CASE UNCHANGED logVars
  <2>1. live' = live /\ file' = file /\ ledger' = ledger /\ op' = op /\ index' = index
    BY <1>8 DEF logVars
  <2> QED
    BY <2>1, FilesAreKnown, NoMoreLines DEF Plain
<1> QED
  BY <1>2, <1>3, <1>4, <1>5, <1>6, <1>7, <1>8 DEF Repair_

\* An append that gets as far as its announcement takes ids that no line has.
LEMMA AnnouncedIsNew ==
  ASSUME LogTypes, NEW G \in Seq(Rec), LogStory(G), IdStory(G), Announce
  PROVE  OneEach' /\ ledger'.segs = ledger.segs /\ op'.pc = "announced"
<1>1. /\ op.pc = "begin" /\ _verify_files(live, ledger) /\ Undecided(Unseen(op.ids))
      /\ live' = live /\ file' = file
  BY DEF Announce
<1>2. PICK ids \in SetToSeqs(Unseen(op.ids)) : \E prev, total, pending :
        /\ ledger' = [ledger EXCEPT !.head = prev, !.total = total, !.pending = pending]
        /\ op' = [pc |-> "announced", new |-> Batch(ids, prev), start |-> Len(live.recs)]
  BY DEF Announce
<1>3. ledger'.segs = ledger.segs /\ op'.pc = "announced" /\ \E prev : op'.new = Batch(ids, prev)
  BY <1>2 DEF LogTypes, Ledger
<1>4. /\ ids \in [1..Cardinality(Unseen(op.ids)) -> Unseen(op.ids)]
      /\ \A i, j \in 1..Cardinality(Unseen(op.ids)) : i # j => ids[i] # ids[j]
  BY DEF SetToSeqs
<1>5. PICK k : k = Cardinality(Unseen(op.ids))
  OBVIOUS
<1>6. /\ DOMAIN ids = 1..k /\ (\A i \in 1..k : ids[i] \in Unseen(op.ids))
      /\ \A i, j \in 1..k : i # j => ids[i] # ids[j]
  BY <1>4, <1>5
<1>7. DOMAIN op'.new = 1..k /\ \A i \in 1..k : op'.new[i].id = ids[i]
  BY <1>3, <1>6 DEF Batch
<1>8. /\ live.count \in Nat /\ live.count <= Len(G) /\ Len(G) \in Nat /\ DOMAIN G = 1..Len(G)
      /\ live.recs = Slice(G, live.count, Len(G)) /\ Archived(ledger.segs) = live.count
  <2>1. Lines(G) /\ Accounts(G, ledger) /\ Holding(live, G)
    BY DEF LogStory, Lines, Books
  <2>2. Archived(ledger.segs) = live.count
    BY <1>1 DEF _verify_files, AnchorIsCurrent
  <2> QED
    BY <2>1, <2>2, EndIs DEF Holding
<1>9. ASSUME NEW x \in Unseen(op.ids), NEW j \in 1..Len(G), G[j].id = x PROVE FALSE
  <2>1. PICK c : c = live.count
    OBVIOUS
  <2>2. CASE j <= c
    <3>1. c \in Nat /\ c > 0 /\ c \in 0..Len(G) /\ j \in 1..c
      BY <1>8, <2>1, <2>2
    <3>2. ledger.segs # <<>>
      BY <1>8, <2>1, <3>1, ArchivedNothing
    <3>3. Take(index, c) = FirstIds(G, c)
      <4>1. Last(ledger.segs).ids = FirstIds(G, c)
        BY <1>8, <2>1, <3>2 DEF IdStory, ListsIds
      <4>2. Take(index, c) = Last(ledger.segs).ids
        BY <1>1, <2>1, <3>1 DEF Undecided, IndexBound
      <4> QED
        BY <4>1, <4>2
    <3>4. Slice(G, 0, c) \in Seq(Rec) /\ Len(Slice(G, 0, c)) = c /\ Slice(G, 0, c)[j] = G[j]
      BY <3>1, PrefixIs
    <3>5. PICK s : s = Slice(G, 0, c)
      OBVIOUS
    <3>6. DOMAIN IdsOf(s) = 1..c /\ IdsOf(s)[j] = s[j].id
      <4>1. s \in Seq(Rec) /\ Len(s) = c
        BY <3>4, <3>5
      <4>2. IdsOf(s) \in Seq(RecordId) /\ Len(IdsOf(s)) = c /\ \A i \in 1..c : IdsOf(s)[i] = s[i].id
        BY <4>1, IdsIs
      <4> QED
        BY <3>1, <4>2
    <3>7. x \in ToSet(Take(index, c))
      BY <1>9, <3>1, <3>3, <3>4, <3>5, <3>6 DEF FirstIds, ToSet
    <3> QED
      BY <1>1, <1>9, <2>1, <3>7 DEF Undecided, archived_has
  <2>3. CASE ~(j <= c)
    <3>1. PICK b : b = Len(G)
      OBVIOUS
    <3>2. c \in Nat /\ b \in c..Len(G) /\ j - c \in 1..(b - c) /\ c + (j - c) = j /\ live.recs = Slice(G, c, b)
      BY <1>8, <2>1, <2>3, <3>1
    <3>3. /\ live.recs \in Seq(Rec) /\ Len(live.recs) = b - c
          /\ \A i \in 1..(b - c) : live.recs[i] = G[c + i]
      BY <3>2, SliceIs
    <3>4. j - c \in 1..Len(live.recs) /\ live.recs[j - c] = G[j]
      BY <3>2, <3>3
    <3>5. DOMAIN IdsOf(live.recs) = 1..Len(live.recs) /\ IdsOf(live.recs)[j - c] = x
      BY <1>9, <3>3, <3>4, IdsIs
    <3>6. x \in ToSet(IdsOf(live.recs))
      BY <3>4, <3>5 DEF ToSet
    <3> QED
      BY <1>9, <3>6 DEF Unseen, InLive
  <2> QED
    BY <2>2, <2>3
<1>10. Known' \subseteq ToSet(G) \union ToSet(op'.new)
  <2>1. Known = ToSet(G)
    BY <1>1, KnownIs
  <2>2. ToSet(live'.recs) \subseteq ToSet(G) /\ \A s \in Name : ToSet(file'[s].recs) \subseteq ToSet(G)
    BY <1>1, <2>1, FilesAreKnown
  <2>3. ToCome' = ToSet(op'.new)
    BY <1>3 DEF ToCome
  <2>4. ASSUME NEW r \in Known' PROVE r \in ToSet(G) \union ToSet(op'.new)
    <3>1. r \in ToSet(live'.recs) \/ r \in Filed' \/ r \in ToCome'
      BY DEF Known
    <3>2. r \in Filed' => \E s \in Name : r \in ToSet(file'[s].recs)
      BY DEF Filed
    <3> QED
      BY <2>2, <2>3, <3>1, <3>2, Zenon
  <2> QED
    BY <2>4
<1>11. ASSUME NEW q \in Known', NEW r \in Known', q.id = r.id PROVE q = r
  <2>1. CASE q \in ToSet(G) /\ r \in ToSet(G)
    BY <1>1, <1>11, <2>1, KnownIs DEF IdStory, OneEach
  <2>2. ASSUME NEW t \in ToSet(G), NEW u \in ToSet(op'.new), t.id = u.id PROVE FALSE
    <3>1. PICK j \in 1..Len(G) : t = G[j]
      BY <1>8 DEF ToSet
    <3>2. PICK i \in 1..k : u = op'.new[i]
      BY <1>7 DEF ToSet
    <3> QED
      BY <1>6, <1>7, <1>9, <2>2, <3>1, <3>2
  <2>3. CASE q \in ToSet(op'.new) /\ r \in ToSet(op'.new)
    <3>1. PICK i \in 1..k : q = op'.new[i]
      BY <1>7, <2>3 DEF ToSet
    <3>2. PICK j \in 1..k : r = op'.new[j]
      BY <1>7, <2>3 DEF ToSet
    <3>3. i = j
      BY <1>6, <1>7, <1>11, <3>1, <3>2
    <3> QED
      BY <3>1, <3>2, <3>3
  <2> QED
    BY <1>10, <1>11, <2>1, <2>2, <2>3
<1> QED
  BY <1>3, <1>11 DEF OneEach

\* The index of an archive lists the ids of all it will have archived.
LEMMA IndexIsFirstIds ==
  ASSUME LogTypes, NEW G \in Seq(Rec), LogStory(G), IdStory(G), ArchiveIds
  PROVE  /\ op'.pc = "ledger" /\ ledger' = ledger /\ live' = live /\ file' = file /\ op'.n = op.n
         /\ Take(index', live.count + op.n) = FirstIds(G, live.count + op.n)
<1>1. op.pc = "ids" /\ op \in [pc : {"ids", "ledger", "trim"}, n : Nat, name : Name]
  BY HolderIs DEF LogTypes, ArchiveIds
<1>2. /\ op'.pc = "ledger" /\ ledger' = ledger /\ live' = live /\ file' = file /\ op'.n = op.n
      /\ IndexBound(live, ledger) /\ index' = NewIndex(op.n)
  BY <1>1 DEF ArchiveIds
<1>3. PICK c, n : c = live.count /\ n = op.n
  OBVIOUS
<1>4. /\ Lines(G) /\ Accounts(G, ledger) /\ n \in 1..(Reach(G) - c) /\ Archived(ledger.segs) = c
  BY <1>1, <1>3 DEF LogStory, Books, Archiving, Phase, Anchored
<1>5. /\ c \in Nat /\ Reach(G) \in c..Len(G) /\ Len(G) \in Nat /\ Reach(G) \in Nat
  BY <1>3, <1>4, EndIs
<1>6. n \in Nat /\ n \in 0..(Reach(G) - c) /\ c \in 0..Len(G)
  BY <1>4, <1>5
<1>7. Moving(n) = Slice(G, c, c + n) /\ c + n \in c..Len(G)
  BY <1>3, <1>4, <1>6, MovingIs
<1>8. Take(index, c) = FirstIds(G, c)
  <2>1. CASE c = 0
    <3>1. Take(index, c) = <<>>
      BY <2>1 DEF Take, LogTypes
    <3>2. Slice(G, 0, c) = <<>>
      BY <1>6, <2>1, SliceEmpty
    <3> QED
      BY <3>1, <3>2 DEF FirstIds, IdsOf
  <2>2. CASE c # 0
    <3>1. ledger.segs # <<>> /\ c > 0
      BY <1>4, <1>5, <2>2, ArchivedNothing
    <3>2. Last(ledger.segs).ids = FirstIds(G, c)
      BY <1>4, <3>1 DEF IdStory, ListsIds
    <3> QED
      BY <1>2, <1>3, <3>1, <3>2 DEF IndexBound
  <2> QED
    BY <2>1, <2>2
<1>9. PICK m : m = c + n
  OBVIOUS
<1>10. m \in c..Len(G) /\ m \in 0..Len(G) /\ c \in 0..m /\ m \in Nat
  BY <1>5, <1>6, <1>7, <1>9
<1>11. index' = FirstIds(G, m)
  <2>1. Slice(G, 0, c) \in Seq(Rec) /\ Slice(G, c, m) \in Seq(Rec)
    BY <1>5, <1>6, <1>10, PrefixIs, SliceIs
  <2>2. Slice(G, 0, c) \o Slice(G, c, m) = Slice(G, 0, m)
    BY <1>10, SlicesJoin
  <2>3. IdsOf(Slice(G, 0, c)) \o IdsOf(Slice(G, c, m)) = IdsOf(Slice(G, 0, m))
    BY <2>1, <2>2, IdsJoin
  <2>4. index' = Take(index, c) \o IdsOf(Slice(G, c, m))
    BY <1>2, <1>3, <1>7, <1>9 DEF NewIndex
  <2> QED
    BY <1>8, <2>3, <2>4 DEF FirstIds
<1>12. Take(index', m) = index'
  <2>1. Slice(G, 0, m) \in Seq(Rec) /\ Len(Slice(G, 0, m)) = m
    BY <1>10, PrefixIs
  <2>2. index' \in Seq(RecordId) /\ Len(index') = m
    BY <1>11, <2>1, IdsIs DEF FirstIds
  <2>3. PICK x : x = index'
    OBVIOUS
  <2>4. x \in Seq(RecordId) /\ Len(x) = m
    BY <2>2, <2>3
  <2>5. SubSeq(x, 1, m) = x
    BY <1>10, <2>4
  <2> QED
    BY <2>3, <2>4, <2>5 DEF Take
<1> QED
  BY <1>2, <1>3, <1>9, <1>11, <1>12

\* The ledger's new entry, folded or not, lists the ids of all that is archived then.
LEMMA EntryIsFirstIds ==
  ASSUME LogTypes, NEW G \in Seq(Rec), LogStory(G), IdStory(G), ArchiveLedger
  PROVE  /\ ListsIds(G, ledger') /\ Archived(ledger'.segs) = live.count + op.n
         /\ op.pc = "ledger" /\ op'.pc = "swap" /\ op'.old = ledger /\ live' = live /\ file' = file
<1>1. /\ op.pc = "ledger" /\ ledger'.segs = Folded(Append(ledger.segs, Entry(op.n)))
      /\ op'.pc = "swap" /\ op'.old = ledger /\ live' = live /\ file' = file
  BY DEF ArchiveLedger
<1>2. op \in [pc : {"ids", "ledger", "trim"}, n : Nat, name : Name]
  BY <1>1, HolderIs DEF LogTypes
<1>3. PICK c, n, e, segs : c = live.count /\ n = op.n /\ e = Entry(n) /\ segs = ledger.segs
  OBVIOUS
<1>4. /\ Lines(G) /\ Accounts(G, ledger) /\ n \in 1..(Reach(G) - c) /\ Archived(segs) = c
      /\ file[op.name] = Part(G, n)
  BY <1>1, <1>3 DEF LogStory, Books, Archiving, Phase, Anchored
<1>5. /\ c \in Nat /\ Reach(G) \in c..Len(G) /\ Len(G) \in Nat /\ Reach(G) \in Nat
  BY <1>3, <1>4, EndIs
<1>6. n \in Nat /\ n \in 0..(Reach(G) - c) /\ c + n \in c..Len(G) /\ c + n \in 0..Len(G) /\ n > 0
  BY <1>4, <1>5
<1>7. e.ids = FirstIds(G, c + n) /\ e.count = n
  BY <1>1, <1>3 DEF IdStory, Entry
<1>8. e \in Segment
  <2>1. Last(Moving(n)).n \in Nat
    <3>1. Moving(n) = Slice(G, c, c + n)
      BY <1>3, <1>4, <1>6, MovingIs
    <3>2. PICK m : m = c + n
      OBVIOUS
    <3>3. m \in c..Len(G) /\ m - c = n /\ c \in Nat
      BY <1>5, <1>6, <3>2
    <3>4. Slice(G, c, m) \in Seq(Rec) /\ Len(Slice(G, c, m)) = n
      BY <3>3, SliceIs
    <3>5. PICK x : x = Moving(n)
      OBVIOUS
    <3>6. x \in Seq(Rec) /\ Len(x) = n
      BY <3>1, <3>2, <3>4, <3>5
    <3>7. Last(x) \in Rec
      <4>1. n \in 1..Len(x)
        BY <1>6, <3>6
      <4>2. x[n] \in Rec
        BY <3>6, <4>1, ElementOfSeq
      <4> QED
        BY <3>6, <4>2 DEF Last
    <3> QED
      BY <3>5, <3>7 DEF Rec
  <2>2. Slice(G, 0, c + n) \in Seq(Rec)
    BY <1>6, PrefixIs
  <2>3. e.ids \in Seq(RecordId)
    BY <1>7, <2>2, IdsIs DEF FirstIds
  <2>4. e = [name |-> op.name, head |-> Last(Moving(n)).n, count |-> n, ids |-> Take(index, live.count + n)]
    BY <1>3 DEF Entry
  <2>5. op.name \in Name \union {""}
    BY <1>2
  <2> QED
    BY <1>6, <2>1, <2>3, <2>4, <2>5 DEF Segment
<1>9. segs \in Seq(Segment)
  BY <1>3 DEF LogTypes, Ledger
<1>10. /\ Archived(Append(segs, e)) = c + n
       /\ Append(segs, e) \in Seq(Segment) /\ Append(segs, e) # <<>> /\ Last(Append(segs, e)) = e
  <2>1. Archived(Append(segs, e)) = Archived(segs) + e.count
    BY <1>8, <1>9, ArchivedAppend
  <2>2. /\ Append(segs, e) \in Seq(Segment) /\ Len(Append(segs, e)) = Len(segs) + 1
        /\ Append(segs, e)[Len(segs) + 1] = e
    BY <1>8, <1>9, AppendProperties
  <2>3. Len(segs) \in Nat
    BY <1>9
  <2> QED
    BY <1>4, <1>7, <2>1, <2>2, <2>3, EmptySeq DEF Last
<1>11. Last(ledger'.segs) = e /\ Archived(ledger'.segs) = c + n
  BY <1>1, <1>3, <1>10, FoldedIs
<1>12. ListsIds(G, ledger')
  BY <1>7, <1>11 DEF ListsIds
<1> QED
  BY <1>1, <1>3, <1>11, <1>12

\* What nobody can withdraw is the same in the next state.
LEMMA FirmSame ==
  ASSUME LogTypes, LogTypes', NEW G \in Seq(Rec), LogStory(G), NEW H \in Seq(Rec), LogStory(H)', Moves(G, H),
         NEW k \in 0..Firm(G)
  PROVE  FirstIds(G, k) = FirstIds(H, k)
<1>1. PICK e, f, d : e = End(G, ledger) /\ f = Firm(G) /\ d = End(H, ledger)'
  OBVIOUS
<1>2. e \in 0..Len(G) /\ f \in 0..e /\ Len(G) \in Nat /\ k \in 0..f
  BY <1>1, SeenAlways DEF Seen
<1>3. d \in 0..Len(H) /\ Len(H) \in Nat
  BY <1>1, SeenNext DEF Seen
<1>4. \/ d = e /\ Slice(G, 0, e) = Slice(H, 0, e)
      \/ d = f /\ Slice(G, 0, f) = Slice(H, 0, f)
      \/ e < d /\ Slice(G, 0, e) = Slice(H, 0, e)
  BY <1>1 DEF Moves, Stays, Settles, Withdraws, Extends, Same
<1>5. PICK b \in {e, f} : Slice(G, 0, b) = Slice(H, 0, b) /\ b <= Len(H) /\ b <= Len(G) /\ b \in Nat /\ k \in 0..b
  BY <1>2, <1>3, <1>4
<1>6. Slice(G, 0, k) = Slice(H, 0, k)
  BY <1>5, SamePrefix
<1> QED
  BY <1>6 DEF FirstIds

LEMMA ListsKept ==
  ASSUME NEW G, NEW H, NEW led, NEW led2, led2.segs = led.segs, ListsIds(G, led),
         led.segs # <<>> => FirstIds(G, Archived(led.segs)) = FirstIds(H, Archived(led.segs))
  PROVE  ListsIds(H, led2)
BY DEF ListsIds

LEMMA NextIsPlain ==
  ASSUME LogTypes, NEW G \in Seq(Rec), LogStory(G), [LogNext]_logVars
  PROVE  Plain \/ Announce \/ ArchiveIds \/ ArchiveLedger \/ Restore
<1>1. MaxMade \in Nat
  BY ChainLogAssumption
<1>2. CASE \E ids \in Orders : BeginAppend(ids)
  BY <1>2, AppendIsPlain
<1>3. CASE Append_
  BY <1>3, AppendIsPlain DEF Append_
<1>4. CASE Archive_
  <2>1. ASSUME NEW s \in Name, SegmentFails(s) \/ \E n \in 1..MaxMade : ArchiveSegment(n, s) PROVE Plain
    <3>1. CASE SegmentFails(s)
      BY <3>1, ArchiveIsPlain
    <3>2. CASE \E n \in 1..MaxMade : ArchiveSegment(n, s)
      <4>1. PICK n \in 1..MaxMade : ArchiveSegment(n, s)
        BY <3>2
      <4>2. n \in Nat
        BY <1>1
      <4> QED
        BY <4>1, <4>2, ArchiveIsPlain
    <3> QED
      BY <2>1, <3>1, <3>2
  <2> QED
    BY <1>4, <2>1, ArchiveIsPlain DEF Archive_
<1>5. CASE Repair_
  BY <1>5, RepairIsPlain
<1>6. CASE Crash
  <2>1. CASE op' = Idle /\ UNCHANGED <<live, ledger, index, file, made, acked, undone>>
    BY <2>1, RepairIsPlain
  <2>2. CASE WriteStops(Idle) \/ ArchiveIdsStops(Idle)
    BY <2>2, AppendIsPlain, ArchiveIsPlain
  <2> QED
    BY <1>6, <2>1, <2>2 DEF Crash
<1>7. CASE UNCHANGED logVars
  BY <1>7, RepairIsPlain
<1> QED
  BY <1>2, <1>3, <1>4, <1>5, <1>6, <1>7 DEF LogNext

LEMMA IdStep ==
  ASSUME LogTypes, LogTypes', NEW G \in Seq(Rec), LogStory(G), NEW H \in Seq(Rec), LogStory(H)', Moves(G, H),
         IdStory(G), [LogNext]_logVars
  PROVE  IdStory(H)'
<1>1. \A k \in 0..Firm(G) : FirstIds(G, k) = FirstIds(H, k)
  BY FirmSame
<1>2. /\ Firm(G) \in Nat /\ ledger.total \in Nat /\ ledger.total <= Firm(G) /\ live.count \in Nat
      /\ live.count <= ledger.total /\ Archived(ledger.segs) \in 0..ledger.total
  BY EndIs DEF LogStory, Books, Accounts
<1>3. FirstIds(G, Archived(ledger.segs)) = FirstIds(H, Archived(ledger.segs))
  BY <1>1, <1>2
<1>4. op.pc \in {"swap", "restore"} => /\ ListsIds(G, op.old)
                                       /\ FirstIds(G, Archived(op.old.segs)) = FirstIds(H, Archived(op.old.segs))
  <2>1. op.pc \in {"swap", "restore"} => Archived(op.old.segs) = live.count
    BY DEF LogStory, Archiving, Anchored
  <2> QED
    BY <1>1, <1>2, <2>1 DEF IdStory
<1>5. op.pc \in {"ids", "ledger"} => FirstIds(G, live.count + op.n) = FirstIds(H, live.count + op.n)
  <2> SUFFICES ASSUME op.pc \in {"ids", "ledger"} PROVE FirstIds(G, live.count + op.n) = FirstIds(H, live.count + op.n)
    OBVIOUS
  <2>1. Verified(G, ledger) /\ op.n \in 1..(Reach(G) - live.count)
    BY DEF LogStory, Archiving
  <2>2. Reach(G) \in Nat
    BY EndIs DEF LogStory, Books
  <2>3. Firm(G) = Reach(G)
    BY <2>1 DEF Firm, End, Verified, VerifiedOf, WholeOf, Reach
  <2>4. live.count + op.n \in 0..Firm(G)
    BY <1>2, <2>1, <2>2, <2>3
  <2> QED
    BY <1>1, <2>4
<1>6. ListsIds(G, ledger) /\ OneEach
  BY DEF IdStory
<1>7. CASE Plain
  <2>1. OneEach'
    BY <1>6, <1>7 DEF OneEach, Plain
  <2>2. ListsIds(H, ledger')
    BY <1>3, <1>6, <1>7, ListsKept DEF Plain
  <2>3. op'.pc \in {"swap", "restore"} => ListsIds(H, op'.old)
    <3>1. SUFFICES ASSUME op'.pc \in {"swap", "restore"} PROVE ListsIds(H, op'.old)
      OBVIOUS
    <3>2. op.pc \in {"swap", "restore"} /\ op'.old = op.old
      BY <1>7, <3>1 DEF Plain
    <3> QED
      BY <1>4, <3>2, ListsKept
  <2>4. op'.pc = "ledger" => Take(index', live'.count + op'.n) = FirstIds(H, live'.count + op'.n)
    BY <1>5, <1>7 DEF Plain, IdStory
  <2> QED
    BY <2>1, <2>2, <2>3, <2>4 DEF IdStory, ListsIds, FirstIds
<1>8. CASE Announce
  <2>1. OneEach' /\ ledger'.segs = ledger.segs /\ op'.pc = "announced"
    BY <1>8, AnnouncedIsNew
  <2>2. ListsIds(H, ledger')
    BY <1>3, <1>6, <2>1, ListsKept
  <2> QED
    BY <2>1, <2>2 DEF IdStory, ListsIds, FirstIds
<1>9. CASE ArchiveIds
  <2>1. /\ op'.pc = "ledger" /\ ledger' = ledger /\ live' = live /\ file' = file /\ op'.n = op.n
        /\ Take(index', live.count + op.n) = FirstIds(G, live.count + op.n) /\ op.pc = "ids"
    BY <1>9, IndexIsFirstIds DEF ArchiveIds
  <2>2. OneEach'
    <3>1. Known' \subseteq Known
      BY <2>1, FilesAreKnown, NoMoreLines
    <3> QED
      BY <1>6, <3>1 DEF OneEach
  <2>3. ListsIds(H, ledger')
    BY <1>3, <1>6, <2>1, ListsKept
  <2>4. Take(index', live'.count + op'.n) = FirstIds(H, live'.count + op'.n)
    BY <1>5, <2>1
  <2> QED
    BY <2>1, <2>2, <2>3, <2>4 DEF IdStory, ListsIds, FirstIds
<1>10. CASE ArchiveLedger
  <2>1. /\ ListsIds(G, ledger') /\ Archived(ledger'.segs) = live.count + op.n
        /\ op.pc = "ledger" /\ op'.pc = "swap" /\ op'.old = ledger /\ live' = live /\ file' = file
    BY <1>10, EntryIsFirstIds
  <2>2. OneEach'
    <3>1. Known' \subseteq Known
      BY <2>1, FilesAreKnown, NoMoreLines
    <3> QED
      BY <1>6, <3>1 DEF OneEach
  <2>3. ListsIds(H, op'.old)
    BY <1>3, <1>6, <2>1, ListsKept
  <2>4. ListsIds(H, ledger')
    <3>1. FirstIds(G, Archived(ledger'.segs)) = FirstIds(H, Archived(ledger'.segs))
      BY <1>5, <2>1
    <3> QED
      BY <2>1, <3>1, ListsKept
  <2> QED
    BY <2>1, <2>2, <2>3, <2>4 DEF IdStory, ListsIds, FirstIds
<1>11. CASE Restore
  <2>1. ledger' = op.old /\ op'.pc = "trim" /\ live' = live /\ file' = file /\ op.pc = "restore"
    BY <1>11 DEF Restore
  <2>2. OneEach'
    <3>1. Known' \subseteq Known
      BY <2>1, FilesAreKnown, NoMoreLines
    <3> QED
      BY <1>6, <3>1 DEF OneEach
  <2>3. ListsIds(H, ledger')
    BY <1>4, <2>1, ListsKept
  <2> QED
    BY <2>1, <2>2, <2>3 DEF IdStory, ListsIds, FirstIds
<1> QED
  BY <1>7, <1>8, <1>9, <1>10, <1>11, NextIsPlain

\* The same sequence of lines, with what is said of its ids.
IdInv == LogTypes /\ \E G \in Seq(Rec) : LogStory(G) /\ IdStory(G)

LEMMA InitIds == LogInit => IdInv
<1> SUFFICES ASSUME LogInit PROVE IdInv
  OBVIOUS
<1>1. /\ live = EmptyLog /\ ledger = EmptyLedger /\ op = Idle
      /\ file = [s \in Name |-> NoFile]
  BY DEF LogInit
<1>2. LogTypes /\ LogStory(<<>>) /\ <<>> \in Seq(Rec)
  BY InitStory
<1>3. OneEach
  <2>1. ToSet(live.recs) = {}
    BY <1>1 DEF EmptyLog, ToSet
  <2>2. Filed = {}
    BY <1>1 DEF Filed, NoFile, ToSet
  <2>3. ToCome = {}
    BY <1>1 DEF ToCome, Idle
  <2>4. Known = {}
    BY <2>1, <2>2, <2>3 DEF Known
  <2> QED
    BY <2>4 DEF OneEach
<1>4. ListsIds(<<>>, ledger)
  BY <1>1 DEF ListsIds, EmptyLedger
<1>5. op.pc = "idle"
  BY <1>1 DEF Idle
<1>6. IdStory(<<>>)
  BY <1>3, <1>4, <1>5 DEF IdStory
<1> QED
  BY <1>2, <1>6 DEF IdInv

LEMMA NextIds == IdInv /\ [LogNext]_logVars => IdInv'
<1> SUFFICES ASSUME IdInv, [LogNext]_logVars PROVE IdInv'
  OBVIOUS
<1>1. LogTypes
  BY DEF IdInv
<1>2. PICK G \in Seq(Rec) : LogStory(G) /\ IdStory(G)
  BY DEF IdInv
<1>3. Onward(G)
  BY <1>1, <1>2, NextStep
<1>4. PICK H \in Seq(Rec) : LogTypes' /\ LogStory(H)' /\ Moves(G, H)
  BY <1>3 DEF Onward
<1>5. IdStory(H)'
  BY <1>1, <1>2, <1>4, IdStep
<1> QED
  BY <1>4, <1>5 DEF IdInv

\* _chainlog.py, append_if_absent and archived_has: no id is decided twice, in
\* the live log or across its archive, whatever was interrupted in between.
THEOREM IdsAreDecidedOnce == LogSpec => []DecidedOnce
<1>1. IdInv => DecidedOnce
  BY DecidedFromStory DEF IdInv
<1> QED
  BY <1>1, InitIds, NextIds, PTL DEF LogSpec

=============================================================================
