--------------------------- MODULE LocalDataProofs ---------------------------
(***************************************************************************)
(* What the parts of Local keep that are about data: secrets, checkpoints, *)
(* evaluations, the order of a workflow and the choice of a model, for     *)
(* every value of their constants.                                         *)
(***************************************************************************)
EXTENDS Local, SequenceTheorems, FiniteSetTheorems, WellFoundedInduction, TLAPS

-----------------------------------------------------------------------------
(* A step of the whole is a step of the part that runs, or none at all.    *)
LEMMA StepOfPart ==
  ASSUME [PartsNext]_all
  PROVE  /\ part' = part
         /\ part = "secrets" => Secrets!Next \/ UNCHANGED secretsVars
         /\ part = "checkpoint" => Checkpoint!Next \/ UNCHANGED checkpointVars
         /\ part = "evaluation" => Eval!Next \/ UNCHANGED evalVars
         /\ part = "graph" => Graph!Next \/ UNCHANGED graphVars
         /\ part = "choice" => Next \/ UNCHANGED vars
BY DEF PartsNext, all

(* A set of naturals has a least element, and a greatest if it is bounded. *)
LEMMA HasLeast ==
  ASSUME NEW T \in SUBSET Nat, T # {}
  PROVE  \E t \in T : \A u \in T : t <= u
<1>1. IsWellFoundedOn(OpToRel(<, Nat), Nat)
  BY NatLessThanWellFounded, Zenon
<1>2. PICK t \in T : \A u \in T : ~(<<u, t>> \in OpToRel(<, Nat))
  BY <1>1, WFMin, Zenon
<1>3. \A u \in T : ~(u < t)
  BY <1>2, Zenon DEF OpToRel
<1> QED
  BY <1>3

LEMMA HasGreatest ==
  ASSUME NEW T \in SUBSET Nat, T # {}, NEW n \in Nat, \A u \in T : u <= n
  PROVE  \E t \in T : \A u \in T : u <= t
<1> DEFINE S == {n - u : u \in T}
<1>1. S \in SUBSET Nat /\ S # {}
  <2>1. \A u \in T : n - u \in Nat
    OBVIOUS
  <2> QED
    BY <2>1
<1>2. PICK s \in S : \A r \in S : s <= r
  BY <1>1, HasLeast
<1>3. PICK t \in T : s = n - t
  BY <1>2
<1>4. ASSUME NEW u \in T PROVE u <= t
  <2>1. n - t <= n - u
    BY <1>2, <1>3
  <2> QED
    BY <2>1
<1> QED
  BY <1>4

-----------------------------------------------------------------------------
(* Secrets: the last write to a scope among the first n of a log.          *)
Boxes == [plain : Values, under : MasterKeys]
Expiries == Nat \cup {None}
Entries == [scope : Secrets!Scopes, value : Boxes, expires : Expiries, version : Nat,
            previous : Boxes \cup {Secrets!Unsealed}, rotated : Nat]
Written == [op : {"set", "rotate", "remove"}, scope : Secrets!Scopes, plain : Values \cup {None},
            under : MasterKeys \cup {None}, at : Nat, expires : Expiries]
BackedUp == [scope : Secrets!Scopes, plain : Values, version : Nat, expires : Expiries]

LastOf(L, scope, n, i) ==
  i \in 1..n /\ L[i].scope = scope /\ \A j \in i + 1..n : L[j].scope # scope

(* An entry is what write i of the log made of it.                         *)
MadeBy(s, L, i) ==
  /\ L[i].op # "remove"
  /\ s.value = Secrets!Seal(L[i].plain, L[i].under) /\ s.expires = L[i].expires
  /\ L[i].op = "set" => s.previous = Secrets!Unsealed
  /\ L[i].op = "rotate" =>
       /\ s.rotated = L[i].at
       /\ \E k \in 1..i - 1 : /\ LastOf(L, s.scope, i - 1, k) /\ L[k].op # "remove"
                              /\ s.previous = Secrets!Seal(L[k].plain, L[k].under)

OneEach(S) == \A s, t \in S : s.scope = t.scope => s = t
HeldAsWritten(S, L) == \A s \in S : \E i \in 1..Len(L) : LastOf(L, s.scope, Len(L), i) /\ MadeBy(s, L, i)
WrittenIsHeld(S, L) ==
  \A scope \in Secrets!Scopes : \A i \in 1..Len(L) :
    LastOf(L, scope, Len(L), i) /\ L[i].op # "remove" => \E s \in S : s.scope = scope

BackupOf(b, L) ==
  /\ b.asOf <= Len(L) /\ IsFiniteSet(b.entries) /\ OneEach(b.entries)
  /\ \A e \in b.entries :
       /\ 1 <= e.version /\ e.version <= ops /\ b.agent \in {None, e.scope.agent}
       /\ \E i \in 1..b.asOf :
            LastOf(L, e.scope, b.asOf, i) /\ L[i].op # "remove" /\ L[i].plain = e.plain
  /\ \A scope \in Secrets!Scopes : \A i \in 1..b.asOf :
       LastOf(L, scope, b.asOf, i) /\ L[i].op # "remove" /\ b.agent \in {None, scope.agent} =>
         \E e \in b.entries : e.scope = scope

BackupIs == [pass : Passphrases, agent : Agents \cup {None}, entries : SUBSET BackedUp, asOf : Nat]

SecretsTypes ==
  /\ today \in 0..MaxTime /\ ops \in 0..MaxOps
  /\ secrets \in SUBSET Entries /\ IsFiniteSet(secrets) /\ OneEach(secrets)
  /\ \A s \in secrets : 1 <= s.version /\ s.version <= ops /\ s.rotated <= today
  /\ log \in Seq(Written)
  /\ backup \in BackupIs \cup {Secrets!NoBackup}

SecretsState ==
  /\ SecretsTypes /\ HeldAsWritten(secrets, log) /\ WrittenIsHeld(secrets, log)
  /\ backup # Secrets!NoBackup => BackupOf(backup, log)

SecretsInv == part = "secrets" => SecretsState

LEMMA Joined ==
  ASSUME NEW L \in Seq(Written), NEW M \in Seq(Written)
  PROVE  /\ L \o M \in Seq(Written) /\ Len(L \o M) = Len(L) + Len(M)
         /\ Len(L) \in Nat /\ Len(M) \in Nat
         /\ \A i \in 1..Len(L) : (L \o M)[i] = L[i]
         /\ \A p \in 1..Len(M) : (L \o M)[Len(L) + p] = M[p]
         /\ \A i \in Len(L) + 1..Len(L) + Len(M) : (L \o M)[i] = M[i - Len(L)]
OBVIOUS

LEMMA LastIsOne ==
  ASSUME NEW L, NEW scope, NEW n \in Nat, NEW i, NEW j, LastOf(L, scope, n, i), LastOf(L, scope, n, j)
  PROVE  i = j
BY DEF LastOf

(* What more is written leaves the last write before it where it was.      *)
LEMMA LastBefore ==
  ASSUME NEW L \in Seq(Written), NEW M \in Seq(Written), NEW n \in Nat, n <= Len(L), NEW scope, NEW i
  PROVE  LastOf(L \o M, scope, n, i) <=> LastOf(L, scope, n, i)
<1>1. \A k \in 1..n : (L \o M)[k] = L[k]
  BY Joined
<1>2. i \in 1..n => \A j \in i + 1..n : j \in 1..n
  OBVIOUS
<1> QED
  BY <1>1, <1>2 DEF LastOf

LEMMA LastElsewhere ==
  ASSUME NEW L \in Seq(Written), NEW M \in Seq(Written), NEW scope,
         \A p \in 1..Len(M) : M[p].scope # scope, NEW i
  PROVE  LastOf(L \o M, scope, Len(L \o M), i) <=> LastOf(L, scope, Len(L), i)
<1> DEFINE N == L \o M
<1>1. /\ Len(N) = Len(L) + Len(M) /\ Len(L) \in Nat /\ Len(M) \in Nat
      /\ \A k \in 1..Len(L) : N[k] = L[k]
      /\ \A k \in Len(L) + 1..Len(N) : N[k] = M[k - Len(L)] /\ k - Len(L) \in 1..Len(M)
  BY Joined
<1>2. \A k \in Len(L) + 1..Len(N) : N[k].scope # scope
  BY <1>1
<1> HIDE DEF N
<1>3. ASSUME LastOf(N, scope, Len(N), i) PROVE LastOf(L, scope, Len(L), i)
  <2>1. i \in 1..Len(L)
    BY <1>1, <1>2, <1>3 DEF LastOf
  <2>2. \A j \in i + 1..Len(L) : j \in i + 1..Len(N) /\ j \in 1..Len(L)
    BY <1>1, <2>1
  <2> QED
    BY <1>1, <1>3, <2>1, <2>2 DEF LastOf
<1>4. ASSUME LastOf(L, scope, Len(L), i) PROVE LastOf(N, scope, Len(N), i)
  <2>1. i \in 1..Len(L) /\ i \in 1..Len(N)
    BY <1>1, <1>4 DEF LastOf
  <2>2. \A j \in i + 1..Len(N) : (j \in i + 1..Len(L) /\ j \in 1..Len(L)) \/ j \in Len(L) + 1..Len(N)
    BY <1>1, <2>1
  <2> QED
    BY <1>1, <1>2, <1>4, <2>1, <2>2 DEF LastOf
<1> QED
  BY <1>3, <1>4 DEF N

LEMMA LastJoined ==
  ASSUME NEW L \in Seq(Written), NEW M \in Seq(Written),
         \A p, q \in 1..Len(M) : M[p].scope = M[q].scope => p = q,
         NEW p \in 1..Len(M)
  PROVE  LastOf(L \o M, M[p].scope, Len(L \o M), Len(L) + p)
<1>1. /\ Len(L \o M) = Len(L) + Len(M) /\ Len(L) \in Nat /\ Len(M) \in Nat
      /\ (L \o M)[Len(L) + p] = M[p]
      /\ \A k \in Len(L) + 1..Len(L \o M) : (L \o M)[k] = M[k - Len(L)]
  BY Joined
<1>2. ASSUME NEW j \in Len(L) + p + 1..Len(L \o M)
      PROVE  (L \o M)[j].scope # M[p].scope
  <2>1. (L \o M)[j] = M[j - Len(L)] /\ j - Len(L) \in 1..Len(M) /\ j - Len(L) # p
    BY <1>1
  <2> QED
    BY <2>1
<1> QED
  BY <1>1, <1>2 DEF LastOf

LEMMA LastExists ==
  ASSUME NEW L, NEW scope, NEW n \in Nat, NEW k \in 1..n, L[k].scope = scope
  PROVE  \E i \in 1..n : LastOf(L, scope, n, i)
<1> DEFINE T == {i \in 1..n : L[i].scope = scope}
<1>1. T \in SUBSET Nat /\ T # {} /\ \A u \in T : u <= n
  OBVIOUS
<1> HIDE DEF T
<1>2. PICK t \in T : \A u \in T : u <= t
  BY <1>1, HasGreatest
<1>3. t \in 1..n /\ L[t].scope = scope /\ \A j \in t + 1..n : j \in 1..n /\ ~(j <= t)
  BY DEF T
<1>4. \A j \in t + 1..n : L[j].scope # scope
  BY <1>2, <1>3 DEF T
<1> QED
  BY <1>3, <1>4 DEF LastOf

(* A command's entry is made by its write over the entries before it.      *)
MadeOver(s, w, S) ==
  /\ w.op # "remove"
  /\ s.value = Secrets!Seal(w.plain, w.under) /\ s.expires = w.expires
  /\ w.op = "set" => s.previous = Secrets!Unsealed
  /\ w.op = "rotate" => s.rotated = w.at /\ \E o \in S : o.scope = s.scope /\ s.previous = o.value

LEMMA StaysMade ==
  ASSUME NEW L \in Seq(Written), NEW M \in Seq(Written), NEW s, NEW i \in 1..Len(L), MadeBy(s, L, i)
  PROVE  MadeBy(s, L \o M, i)
<1>1. \A k \in 1..Len(L) : (L \o M)[k] = L[k]
  BY Joined
<1>2. Len(L) \in Nat /\ i - 1 \in Nat /\ i - 1 <= Len(L)
  BY Joined
<1>3. \A k \in 1..i - 1 : k \in 1..Len(L) /\ (L \o M)[k] = L[k]
  BY <1>1, <1>2
<1>4. \A k : LastOf(L, s.scope, i - 1, k) => LastOf(L \o M, s.scope, i - 1, k)
  BY <1>2, LastBefore
<1>5. (L \o M)[i] = L[i]
  BY <1>1
<1> QED
  BY <1>3, <1>4, <1>5 DEF MadeBy

LEMMA BecomesMade ==
  ASSUME NEW L \in Seq(Written), NEW M \in Seq(Written), NEW S, HeldAsWritten(S, L),
         NEW p \in 1..Len(M), NEW s, M[p].scope = s.scope, MadeOver(s, M[p], S),
         \A q, r \in 1..Len(M) : M[q].scope = M[r].scope => q = r
  PROVE  MadeBy(s, L \o M, Len(L) + p)
<1> DEFINE N == L \o M
           i == Len(L) + p
<1>1. /\ N[i] = M[p] /\ Len(L) \in Nat /\ i \in Nat /\ i - 1 \in Nat
      /\ \A k \in 1..Len(L) : N[k] = L[k] /\ k \in 1..i - 1
      /\ \A k \in Len(L) + 1..i - 1 : N[k] = M[k - Len(L)] /\ k - Len(L) \in 1..Len(M) /\ k - Len(L) # p
  BY Joined
<1>2. ASSUME M[p].op = "rotate"
      PROVE  \E k \in 1..i - 1 : /\ LastOf(N, s.scope, i - 1, k) /\ N[k].op # "remove"
                                 /\ s.previous = Secrets!Seal(N[k].plain, N[k].under)
  <2>1. PICK o \in S : o.scope = s.scope /\ s.previous = o.value
    BY <1>2 DEF MadeOver
  <2>2. PICK k \in 1..Len(L) : LastOf(L, o.scope, Len(L), k) /\ MadeBy(o, L, k)
    BY DEF HeldAsWritten
  <2>3. \A j \in k + 1..Len(L) : L[j].scope # s.scope
    BY <2>1, <2>2 DEF LastOf
  <2>4. \A j \in k + 1..i - 1 : N[j].scope # s.scope
    <3> SUFFICES ASSUME NEW j \in k + 1..i - 1 PROVE N[j].scope # s.scope
      OBVIOUS
    <3> HIDE DEF N, i
    <3>1. CASE j \in k + 1..Len(L)
      <4>1. j \in 1..Len(L)
        BY <1>1, <3>1
      <4> QED
        BY <1>1, <2>3, <3>1, <4>1
    <3>2. CASE j \in Len(L) + 1..i - 1
      <4>1. N[j] = M[j - Len(L)] /\ j - Len(L) \in 1..Len(M) /\ j - Len(L) # p
        BY <1>1, <3>2
      <4> QED
        BY <4>1
    <3> QED
      BY <1>1, <3>1, <3>2
  <2>5. k \in 1..i - 1 /\ N[k] = L[k]
    BY <1>1, <2>2
  <2>6. N[k].scope = s.scope
    BY <2>1, <2>2, <2>5 DEF LastOf
  <2> HIDE DEF N, i
  <2>7. LastOf(N, s.scope, i - 1, k)
    BY <2>4, <2>5, <2>6 DEF LastOf
  <2> QED
    BY <2>1, <2>2, <2>5, <2>7 DEF MadeBy
<1> HIDE DEF N, i
<1>3. MadeBy(s, N, i)
  BY <1>1, <1>2 DEF MadeBy, MadeOver
<1> QED
  BY <1>3 DEF N, i

LEMMA WrittenOver ==
  ASSUME NEW L \in Seq(Written), NEW M \in Seq(Written),
         \A p, q \in 1..Len(M) : M[p].scope = M[q].scope => p = q,
         NEW S \in SUBSET Entries, OneEach(S), HeldAsWritten(S, L), WrittenIsHeld(S, L),
         NEW N \in SUBSET Entries, OneEach(N),
         \A s \in N : \E p \in 1..Len(M) : M[p].scope = s.scope /\ MadeOver(s, M[p], S),
         \A p \in 1..Len(M) : M[p].op # "remove" => \E s \in N : s.scope = M[p].scope,
         NEW T, T = {s \in S : \A p \in 1..Len(M) : M[p].scope # s.scope} \cup N
  PROVE  OneEach(T) /\ HeldAsWritten(T, L \o M) /\ WrittenIsHeld(T, L \o M)
<1>1. OneEach(T)
  BY DEF OneEach
<1>2. /\ Len(L \o M) = Len(L) + Len(M) /\ Len(L) \in Nat /\ Len(M) \in Nat
      /\ \A i \in 1..Len(L) : (L \o M)[i] = L[i] /\ i \in 1..Len(L \o M)
      /\ \A p \in 1..Len(M) : Len(L) + p \in 1..Len(L \o M) /\ (L \o M)[Len(L) + p] = M[p]
  BY Joined
<1>3. HeldAsWritten(T, L \o M)
  <2> SUFFICES ASSUME NEW s \in T
               PROVE  \E i \in 1..Len(L \o M) : LastOf(L \o M, s.scope, Len(L \o M), i) /\ MadeBy(s, L \o M, i)
    BY DEF HeldAsWritten
  <2>1. CASE s \in N
    <3>1. PICK p \in 1..Len(M) : M[p].scope = s.scope /\ MadeOver(s, M[p], S)
      BY <2>1
    <3>2. LastOf(L \o M, s.scope, Len(L \o M), Len(L) + p)
      BY <3>1, LastJoined
    <3>3. MadeBy(s, L \o M, Len(L) + p)
      BY <3>1, BecomesMade
    <3> QED
      BY <1>2, <3>2, <3>3
  <2>2. CASE s \in S /\ \A p \in 1..Len(M) : M[p].scope # s.scope
    <3>1. PICK i \in 1..Len(L) : LastOf(L, s.scope, Len(L), i) /\ MadeBy(s, L, i)
      BY <2>2 DEF HeldAsWritten
    <3>2. LastOf(L \o M, s.scope, Len(L \o M), i)
      BY <2>2, <3>1, LastElsewhere
    <3>3. MadeBy(s, L \o M, i)
      BY <3>1, StaysMade
    <3> QED
      BY <1>2, <3>2, <3>3
  <2> QED
    BY <2>1, <2>2
<1>4. WrittenIsHeld(T, L \o M)
  <2> SUFFICES ASSUME NEW scope \in Secrets!Scopes, NEW i \in 1..Len(L \o M),
                      LastOf(L \o M, scope, Len(L \o M), i), (L \o M)[i].op # "remove"
               PROVE  \E s \in T : s.scope = scope
    BY DEF WrittenIsHeld
  <2>1. CASE \E p \in 1..Len(M) : M[p].scope = scope
    <3>1. PICK p \in 1..Len(M) : M[p].scope = scope
      BY <2>1
    <3>2. LastOf(L \o M, scope, Len(L \o M), Len(L) + p)
      BY <3>1, LastJoined
    <3>3. i = Len(L) + p
      BY <1>2, <3>2, LastIsOne
    <3> QED
      BY <1>2, <3>1, <3>3
  <2>2. CASE \A p \in 1..Len(M) : M[p].scope # scope
    <3>1. LastOf(L, scope, Len(L), i)
      BY <2>2, LastElsewhere
    <3>2. i \in 1..Len(L)
      BY <3>1 DEF LastOf
    <3>3. PICK s \in S : s.scope = scope
      BY <1>2, <3>1, <3>2 DEF WrittenIsHeld
    <3> QED
      BY <2>2, <3>3
  <2> QED
    BY <2>1, <2>2
<1> QED
  BY <1>1, <1>3, <1>4

LEMMA BackupStays ==
  ASSUME SecretsState, NEW M \in Seq(Written), log' = log \o M, backup' = backup,
         ops' \in Nat, ops <= ops', backup # Secrets!NoBackup
  PROVE  BackupOf(backup, log)'
<1>1. /\ BackupOf(backup, log) /\ ops \in Nat /\ log \in Seq(Written) /\ backup \in BackupIs
  BY DEF SecretsState, SecretsTypes
<1>2. /\ Len(log') \in Nat /\ Len(log) \in Nat /\ Len(log) <= Len(log')
      /\ \A i \in 1..Len(log) : log'[i] = log[i]
  BY <1>1, Joined
<1>3. backup.asOf \in Nat /\ backup.asOf <= Len(log)
  BY <1>1 DEF BackupIs, BackupOf
<1>4. \A scope, i : LastOf(log', scope, backup.asOf, i) <=> LastOf(log, scope, backup.asOf, i)
  BY <1>1, <1>3, LastBefore
<1>5. \A i \in 1..backup.asOf : log'[i] = log[i]
  BY <1>2, <1>3
<1>6. \A e \in backup.entries : e.version \in Nat
  BY <1>1 DEF BackupIs, BackedUp
<1>7. \A e \in backup.entries :
        /\ 1 <= e.version /\ e.version <= ops' /\ backup.agent \in {None, e.scope.agent}
        /\ \E i \in 1..backup.asOf : LastOf(log', e.scope, backup.asOf, i) /\ log'[i].op # "remove"
                                     /\ log'[i].plain = e.plain
  <2> SUFFICES ASSUME NEW e \in backup.entries
               PROVE  /\ 1 <= e.version /\ e.version <= ops' /\ backup.agent \in {None, e.scope.agent}
                      /\ \E i \in 1..backup.asOf :
                           /\ LastOf(log', e.scope, backup.asOf, i) /\ log'[i].op # "remove"
                           /\ log'[i].plain = e.plain
    OBVIOUS
  <2>1. 1 <= e.version /\ e.version <= ops /\ backup.agent \in {None, e.scope.agent}
    BY <1>1 DEF BackupOf
  <2>2. PICK i \in 1..backup.asOf :
          LastOf(log, e.scope, backup.asOf, i) /\ log[i].op # "remove" /\ log[i].plain = e.plain
    BY <1>1 DEF BackupOf
  <2>3. LastOf(log', e.scope, backup.asOf, i) /\ log'[i] = log[i]
    BY <1>4, <1>5, <2>2
  <2>4. e.version <= ops'
    BY <1>1, <1>6, <2>1
  <2> QED
    BY <2>1, <2>2, <2>3, <2>4, Zenon
<1>8. \A scope \in Secrets!Scopes : \A i \in 1..backup.asOf :
        LastOf(log', scope, backup.asOf, i) /\ log'[i].op # "remove" /\ backup.agent \in {None, scope.agent} =>
          \E e \in backup.entries : e.scope = scope
  BY <1>1, <1>4, <1>5 DEF BackupOf
<1>9. backup.asOf <= Len(log') /\ IsFiniteSet(backup.entries) /\ OneEach(backup.entries)
  BY <1>1, <1>2, <1>3 DEF BackupOf
<1> QED
  BY <1>7, <1>8, <1>9 DEF BackupOf

LEMMA Rewrites ==
  ASSUME SecretsState, MaxOps \in Nat, MaxTime \in Nat, ops < MaxOps, ops' = ops + 1,
         UNCHANGED <<backup, today>>,
         NEW M \in Seq(Written), \A p, q \in 1..Len(M) : M[p].scope = M[q].scope => p = q,
         NEW N \in SUBSET Entries, IsFiniteSet(N), OneEach(N),
         \A s \in N : 1 <= s.version /\ s.version <= ops + 1 /\ s.rotated <= today,
         \A s \in N : \E p \in 1..Len(M) : M[p].scope = s.scope /\ MadeOver(s, M[p], secrets),
         \A p \in 1..Len(M) : M[p].op # "remove" => \E s \in N : s.scope = M[p].scope,
         log' = log \o M,
         secrets' = {s \in secrets : \A p \in 1..Len(M) : M[p].scope # s.scope} \cup N
  PROVE  SecretsState'
<1>1. SecretsTypes /\ HeldAsWritten(secrets, log) /\ WrittenIsHeld(secrets, log)
  BY DEF SecretsState
<1>2. ops \in Nat /\ ops' \in 0..MaxOps /\ ops' \in Nat /\ ops <= ops'
  BY <1>1 DEF SecretsTypes
<1>3. OneEach(secrets') /\ HeldAsWritten(secrets', log') /\ WrittenIsHeld(secrets', log')
  BY <1>1, WrittenOver DEF SecretsTypes
<1>4. backup' # Secrets!NoBackup => BackupOf(backup, log)'
  BY <1>2, BackupStays
<1>5. log' \in Seq(Written)
  BY <1>1, Joined DEF SecretsTypes
<1>6. IsFiniteSet(secrets')
  <2>1. IsFiniteSet({s \in secrets : \A p \in 1..Len(M) : M[p].scope # s.scope})
    BY <1>1, FS_Subset DEF SecretsTypes
  <2> QED
    BY <2>1, FS_Union
<1>7. \A s \in secrets : s.version \in Nat
  BY <1>1 DEF SecretsTypes, Entries
<1>8. \A s \in secrets' : 1 <= s.version /\ s.version <= ops' /\ s.rotated <= today'
  <2> SUFFICES ASSUME NEW s \in secrets' PROVE 1 <= s.version /\ s.version <= ops' /\ s.rotated <= today'
    OBVIOUS
  <2>1. CASE s \in secrets
    BY <1>1, <1>2, <1>7, <2>1 DEF SecretsTypes
  <2> QED
    BY <2>1
<1>9. SecretsTypes'
  <2>1. secrets' \in SUBSET Entries
    BY <1>1 DEF SecretsTypes
  <2>2. today' \in 0..MaxTime
    BY <1>1 DEF SecretsTypes
  <2>3. backup' \in BackupIs \cup {Secrets!NoBackup}
    BY <1>1 DEF SecretsTypes
  <2>4. OneEach(secrets')
    BY <1>3
  <2> QED
    BY <1>2, <1>5, <1>6, <1>8, <2>1, <2>2, <2>3, <2>4 DEF SecretsTypes, OneEach, BackupIs, BackedUp, Entries,
       Boxes, Expiries, Written
<1> QED
  BY <1>3, <1>4, <1>9 DEF SecretsState

(* An image of a finite set is finite.                                     *)
LEMMA FiniteImage ==
  ASSUME NEW S, IsFiniteSet(S), NEW f, NEW T, T = {f[x] : x \in S}
  PROVE  IsFiniteSet(T)
<1>1. [x \in S |-> f[x]] \in Surjection(S, T)
  BY DEF Surjection
<1> QED
  BY <1>1, FS_Surjection

LEMMA WritesOne ==
  ASSUME NEW w \in Written
  PROVE  /\ <<w>> \in Seq(Written) /\ Len(<<w>>) = 1
         /\ \A p, q \in 1..Len(<<w>>) : <<w>>[p].scope = <<w>>[q].scope => p = q
         /\ \A p \in 1..Len(<<w>>) : p = 1 /\ <<w>>[p] = w
         /\ 1 \in 1..Len(<<w>>)
         /\ \A L \in Seq(Written) : Append(L, w) = L \o <<w>>
OBVIOUS

LEMMA SecretsSet ==
  ASSUME SecretsState, Secrets!SecretsAssumption,
         NEW scope \in Secrets!Scopes, NEW v \in Values, NEW mk \in MasterKeys, NEW expires \in Expiries,
         Secrets!Set(scope, v, mk, expires)
  PROVE  SecretsState'
<1>1. /\ SecretsTypes /\ MaxOps \in Nat /\ MaxTime \in Nat /\ today \in Nat /\ ops \in Nat
  BY DEF SecretsState, SecretsTypes, Secrets!SecretsAssumption
<1> DEFINE old == Secrets!At(scope)
           entry == [scope |-> scope, value |-> Secrets!Seal(v, mk), expires |-> expires,
                     version |-> IF old = {} THEN 1 ELSE (CHOOSE s \in old : TRUE).version + 1,
                     previous |-> Secrets!Unsealed, rotated |-> 0]
           w == Secrets!Wrote("set", scope, v, mk, expires)
<1>2. /\ ops < MaxOps /\ ops' = ops + 1 /\ UNCHANGED <<backup, today>>
      /\ secrets' = (secrets \ old) \cup {entry} /\ log' = Append(log, w)
  BY DEF Secrets!Set, Secrets!Busy
<1>3. w \in Written /\ w.scope = scope /\ w.op = "set" /\ w.plain = v /\ w.under = mk
      /\ w.expires = expires
  BY <1>1 DEF Written, Secrets!Wrote
<1>4. entry.version \in Nat /\ 1 <= entry.version /\ entry.version <= ops + 1
  <2>1. CASE old = {}
    BY <1>1, <2>1
  <2>2. CASE old # {}
    <3>1. PICK o \in old : o = CHOOSE s \in old : TRUE
      BY <2>2
    <3>2. o \in secrets
      BY DEF Secrets!At
    <3>3. o.version \in Nat /\ 1 <= o.version /\ o.version <= ops
      BY <1>1, <3>2 DEF SecretsTypes, Entries
    <3>4. entry.version = o.version + 1
      BY <2>2, <3>1
    <3> QED
      BY <1>1, <3>3, <3>4
  <2> QED
    BY <2>1, <2>2
<1>5. entry \in Entries
  BY <1>4 DEF Entries, Secrets!Seal, Boxes
<1>6. MadeOver(entry, w, secrets) /\ entry.scope = scope /\ entry.rotated = 0
  BY <1>3 DEF MadeOver
<1> HIDE DEF entry, w
<1>7. secrets \ old = {s \in secrets : \A p \in 1..Len(<<w>>) : <<w>>[p].scope # s.scope}
  BY <1>3, WritesOne DEF Secrets!At
<1>8. ops < MaxOps /\ ops' = ops + 1 /\ UNCHANGED <<backup, today>>
  BY <1>2
<1>9. secrets' = {s \in secrets : \A p \in 1..Len(<<w>>) : <<w>>[p].scope # s.scope} \cup {entry}
  BY <1>2, <1>7
<1>10. log' = log \o <<w>>
  BY <1>1, <1>2, <1>3, WritesOne DEF SecretsTypes
<1>11. {entry} \in SUBSET Entries /\ IsFiniteSet({entry}) /\ OneEach({entry})
  BY <1>5, FS_Singleton DEF OneEach
<1>12. \A s \in {entry} : 1 <= s.version /\ s.version <= ops + 1 /\ s.rotated <= today
  BY <1>1, <1>4, <1>6
<1>13. \A s \in {entry} : \E p \in 1..Len(<<w>>) : <<w>>[p].scope = s.scope /\ MadeOver(s, <<w>>[p], secrets)
  BY <1>3, <1>6, WritesOne
<1>14. \A p \in 1..Len(<<w>>) : <<w>>[p].op # "remove" => \E s \in {entry} : s.scope = <<w>>[p].scope
  BY <1>3, <1>6, WritesOne
<1> QED
  BY ONLY SecretsState, <1>1, <1>3, <1>8, <1>9, <1>10, <1>11, <1>12, <1>13, <1>14, WritesOne, Rewrites

LEMMA SecretsRotate ==
  ASSUME SecretsState, Secrets!SecretsAssumption,
         NEW scope \in Secrets!Scopes, NEW v \in Values, NEW mk \in MasterKeys,
         Secrets!Rotate(scope, v, mk)
  PROVE  SecretsState'
<1>1. /\ SecretsTypes /\ MaxOps \in Nat /\ MaxTime \in Nat /\ today \in Nat /\ ops \in Nat
  BY DEF SecretsState, SecretsTypes, Secrets!SecretsAssumption
<1>2. PICK o \in Secrets!At(scope) :
        /\ secrets' = (secrets \ {o}) \cup
             {[o EXCEPT !.previous = o.value, !.value = Secrets!Seal(v, mk),
                        !.rotated = today, !.version = @ + 1]}
        /\ log' = Append(log, Secrets!Wrote("rotate", scope, v, mk, o.expires))
  BY Zenon DEF Secrets!Rotate
<1>3. /\ ops < MaxOps /\ ops' = ops + 1 /\ UNCHANGED <<backup, today>>
  BY DEF Secrets!Rotate, Secrets!Busy
<1> DEFINE entry == [o EXCEPT !.previous = o.value, !.value = Secrets!Seal(v, mk),
                              !.rotated = today, !.version = @ + 1]
           w == Secrets!Wrote("rotate", scope, v, mk, o.expires)
<1>4. o \in secrets /\ o.scope = scope /\ o \in Entries /\ 1 <= o.version /\ o.version <= ops
  BY <1>1 DEF Secrets!At, SecretsTypes
<1>5. /\ entry.scope = scope /\ entry.value = Secrets!Seal(v, mk) /\ entry.expires = o.expires
      /\ entry.version = o.version + 1 /\ entry.previous = o.value /\ entry.rotated = today
  BY <1>4 DEF Entries
<1>6. w \in Written /\ w.scope = scope /\ w.op = "rotate" /\ w.plain = v /\ w.under = mk
      /\ w.expires = o.expires /\ w.at = today
  BY <1>1, <1>4 DEF Written, Secrets!Wrote, Entries
<1>7. entry \in Entries
  <2>1. Secrets!Seal(v, mk) \in Boxes
    BY DEF Secrets!Seal, Boxes
  <2>2. PICK e : e = [o EXCEPT !.previous = o.value]
    OBVIOUS
  <2>3. e \in Entries
    BY <1>4, <2>2 DEF Entries
  <2>4. PICK f : f = [e EXCEPT !.value = Secrets!Seal(v, mk)]
    OBVIOUS
  <2>5. f \in Entries
    BY <2>1, <2>3, <2>4 DEF Entries
  <2>6. PICK g : g = [f EXCEPT !.rotated = today]
    OBVIOUS
  <2>7. g \in Entries
    BY <1>1, <2>5, <2>6 DEF Entries
  <2>8. entry = [g EXCEPT !.version = @ + 1]
    BY <2>2, <2>4, <2>6
  <2> HIDE DEF entry
  <2> QED
    BY ONLY <2>7, <2>8 DEF Entries
<1>8. MadeOver(entry, w, secrets)
  BY <1>4, <1>5, <1>6 DEF MadeOver
<1> HIDE DEF entry, w
<1>9. secrets \ {o} = {s \in secrets : \A p \in 1..Len(<<w>>) : <<w>>[p].scope # s.scope}
  <2>1. \A s \in secrets : s.scope = scope <=> s = o
    BY <1>1, <1>4 DEF SecretsTypes, OneEach
  <2> QED
    BY <1>6, <2>1, WritesOne
<1>10. log' = log \o <<w>>
  BY <1>1, <1>2, <1>6, WritesOne DEF SecretsTypes, w
<1>11. {entry} \in SUBSET Entries /\ IsFiniteSet({entry}) /\ OneEach({entry})
  BY <1>7, FS_Singleton DEF OneEach
<1>12. \A s \in {entry} : 1 <= s.version /\ s.version <= ops + 1 /\ s.rotated <= today
  <2>1. o.version \in Nat
    BY <1>4 DEF Entries
  <2> QED
    BY <1>1, <1>4, <1>5, <2>1
<1>13. \A s \in {entry} : \E p \in 1..Len(<<w>>) : <<w>>[p].scope = s.scope /\ MadeOver(s, <<w>>[p], secrets)
  BY <1>5, <1>6, <1>8, WritesOne
<1>14. \A p \in 1..Len(<<w>>) : <<w>>[p].op # "remove" => \E s \in {entry} : s.scope = <<w>>[p].scope
  BY <1>5, <1>6, WritesOne
<1>15. secrets' = {s \in secrets : \A p \in 1..Len(<<w>>) : <<w>>[p].scope # s.scope} \cup {entry}
  BY <1>2, <1>9 DEF entry
<1> QED
  BY ONLY SecretsState, <1>1, <1>3, <1>6, <1>10, <1>11, <1>12, <1>13, <1>14, <1>15, WritesOne, Rewrites

LEMMA SecretsRemove ==
  ASSUME SecretsState, Secrets!SecretsAssumption, NEW scope \in Secrets!Scopes, Secrets!Remove(scope)
  PROVE  SecretsState'
<1>1. /\ SecretsTypes /\ MaxOps \in Nat /\ MaxTime \in Nat /\ today \in Nat /\ ops \in Nat
  BY DEF SecretsState, SecretsTypes, Secrets!SecretsAssumption
<1> DEFINE w == Secrets!Wrote("remove", scope, None, None, None)
<1>2. /\ ops < MaxOps /\ ops' = ops + 1 /\ UNCHANGED <<backup, today>>
      /\ secrets' = secrets \ Secrets!At(scope) /\ log' = Append(log, w)
  BY DEF Secrets!Remove, Secrets!Busy
<1>3. w \in Written /\ w.scope = scope /\ w.op = "remove"
  BY <1>1 DEF Written, Secrets!Wrote, Expiries
<1> HIDE DEF w
<1>4. secrets' = {s \in secrets : \A p \in 1..Len(<<w>>) : <<w>>[p].scope # s.scope} \cup {}
  BY <1>2, <1>3, WritesOne DEF Secrets!At
<1>5. log' = log \o <<w>>
  BY <1>1, <1>2, <1>3, WritesOne DEF SecretsTypes
<1>6. {} \in SUBSET Entries /\ IsFiniteSet({}) /\ OneEach({})
  BY FS_EmptySet DEF OneEach
<1>7. \A p \in 1..Len(<<w>>) : <<w>>[p].op # "remove" => \E s \in {} : s.scope = <<w>>[p].scope
  BY <1>3, WritesOne
<1> QED
  BY <1>1, <1>2, <1>3, <1>4, <1>5, <1>6, <1>7, WritesOne, Rewrites, ZenonT(40)

LEMMA SecretsExport ==
  ASSUME SecretsState, Secrets!SecretsAssumption,
         NEW agent \in Agents \cup {None}, NEW mk \in MasterKeys, NEW pass \in Passphrases,
         Secrets!Export(agent, mk, pass)
  PROVE  SecretsState'
<1>1. /\ SecretsTypes /\ MaxOps \in Nat /\ MaxTime \in Nat /\ ops \in Nat /\ log \in Seq(Written)
      /\ HeldAsWritten(secrets, log) /\ WrittenIsHeld(secrets, log)
  BY DEF SecretsState, SecretsTypes, Secrets!SecretsAssumption
<1> DEFINE out(s) == [scope |-> s.scope, plain |-> s.value.plain, version |-> s.version, expires |-> s.expires]
           listed == {out(s) : s \in Secrets!Exported(agent)}
<1>2. /\ ops < MaxOps /\ ops' = ops + 1 /\ UNCHANGED <<secrets, today, log>>
      /\ backup' = [pass |-> pass, agent |-> agent, asOf |-> Len(log), entries |-> listed]
  BY DEF Secrets!Export, Secrets!Busy
<1>3. \A s \in secrets : /\ s \in Entries /\ 1 <= s.version /\ s.version <= ops /\ s.version \in Nat
                         /\ s.value.plain \in Values
  BY <1>1 DEF SecretsTypes, Entries, Boxes
<1>4. Secrets!Exported(agent) \subseteq secrets
      /\ \A s \in secrets : s \in Secrets!Exported(agent) <=> agent \in {None, s.scope.agent}
  BY DEF Secrets!Exported
<1>5. listed \subseteq BackedUp
  BY <1>3, <1>4 DEF BackedUp, Entries
<1>6. IsFiniteSet(listed)
  <2>1. IsFiniteSet(Secrets!Exported(agent))
    BY <1>1, <1>4, FS_Subset DEF SecretsTypes
  <2>2. PICK f : f = [s \in Secrets!Exported(agent) |-> out(s)]
    OBVIOUS
  <2>3. listed = {f[x] : x \in Secrets!Exported(agent)}
    BY <2>2
  <2> QED
    BY ONLY <2>1, <2>3, FiniteImage
<1>7. \A e \in listed : \E s \in Secrets!Exported(agent) :
        e.scope = s.scope /\ e.plain = s.value.plain /\ e.version = s.version /\ e = out(s)
  OBVIOUS
<1>8. \A s \in Secrets!Exported(agent) : \E e \in listed : e.scope = s.scope
  <2> SUFFICES ASSUME NEW s \in Secrets!Exported(agent) PROVE \E e \in listed : e.scope = s.scope
    OBVIOUS
  <2>1. out(s) \in listed /\ out(s).scope = s.scope
    OBVIOUS
  <2> QED
    BY <2>1
<1> HIDE DEF listed
<1>9. OneEach(listed)
  <2> SUFFICES ASSUME NEW e \in listed, NEW d \in listed, e.scope = d.scope PROVE e = d
    BY DEF OneEach
  <2>1. PICK s \in Secrets!Exported(agent) : e.scope = s.scope /\ e = out(s)
    BY <1>7
  <2>2. PICK t \in Secrets!Exported(agent) : d.scope = t.scope /\ d = out(t)
    BY <1>7
  <2>3. s = t
    BY <1>1, <1>4, <2>1, <2>2 DEF SecretsTypes, OneEach
  <2> QED
    BY <2>1, <2>2, <2>3
<1>10. backup'.asOf = Len(log) /\ backup'.agent = agent /\ backup'.entries = listed /\ Len(log) \in Nat
  BY <1>1, <1>2
<1>11. \A e \in listed :
         /\ 1 <= e.version /\ e.version <= ops + 1 /\ agent \in {None, e.scope.agent}
         /\ \E i \in 1..Len(log) :
              /\ LastOf(log, e.scope, Len(log), i) /\ log[i].op # "remove" /\ log[i].plain = e.plain
  <2> SUFFICES ASSUME NEW e \in listed
               PROVE  /\ 1 <= e.version /\ e.version <= ops + 1 /\ agent \in {None, e.scope.agent}
                      /\ \E i \in 1..Len(log) :
                           LastOf(log, e.scope, Len(log), i) /\ log[i].op # "remove" /\ log[i].plain = e.plain
    OBVIOUS
  <2>1. PICK s \in Secrets!Exported(agent) :
          e.scope = s.scope /\ e.plain = s.value.plain /\ e.version = s.version
    BY <1>7
  <2>2. PICK i \in 1..Len(log) : LastOf(log, s.scope, Len(log), i) /\ MadeBy(s, log, i)
    BY <1>1, <1>4 DEF HeldAsWritten
  <2>3. log[i].op # "remove" /\ log[i].plain = e.plain
    BY <2>1, <2>2 DEF MadeBy, Secrets!Seal
  <2>4. 1 <= e.version /\ e.version <= ops + 1
    BY <1>1, <1>3, <1>4, <2>1
  <2> QED
    BY <1>4, <2>1, <2>2, <2>3, <2>4, Zenon
<1>12. \A scope \in Secrets!Scopes : \A i \in 1..Len(log) :
         LastOf(log, scope, Len(log), i) /\ log[i].op # "remove" /\ agent \in {None, scope.agent} =>
           \E e \in listed : e.scope = scope
  BY <1>1, <1>4, <1>8 DEF WrittenIsHeld
<1>13. BackupOf(backup, log)'
  BY <1>2, <1>6, <1>9, <1>10, <1>11, <1>12 DEF BackupOf, OneEach
<1>14. SecretsTypes'
  <2>1. backup' \in BackupIs
    BY <1>1, <1>2, <1>5, <1>10 DEF BackupIs
  <2>2. ops' \in 0..MaxOps /\ \A s \in secrets : s.version <= ops'
    BY <1>1, <1>2, <1>3
  <2> QED
    BY <1>1, <1>2, <2>1, <2>2 DEF SecretsTypes, OneEach, BackupIs, BackedUp, Entries,
       Boxes, Expiries, Written
<1> QED
  BY <1>1, <1>2, <1>13, <1>14 DEF SecretsState, HeldAsWritten, WrittenIsHeld, LastOf, MadeBy

LEMMA SecretsTick ==
  ASSUME SecretsState, Secrets!SecretsAssumption, Secrets!Tick \/ UNCHANGED secretsVars
  PROVE  SecretsState'
<1>1. /\ today \in Nat /\ today' \in 0..MaxTime /\ today <= today' /\ UNCHANGED <<secrets, backup, ops, log>>
      /\ SecretsTypes
  BY DEF Secrets!Tick, secretsVars, SecretsState, SecretsTypes, Secrets!SecretsAssumption
<1>2. \A s \in secrets : s.rotated <= today'
  <2>1. \A s \in secrets : s.rotated \in Nat /\ s.rotated <= today
    BY <1>1 DEF SecretsTypes, Entries
  <2> QED
    BY <1>1, <2>1
<1>3. SecretsTypes'
  BY <1>1, <1>2 DEF SecretsTypes, OneEach, BackupIs, BackedUp, Entries, Boxes, Expiries, Written
<1> QED
  BY <1>1, <1>3 DEF SecretsState, HeldAsWritten, WrittenIsHeld, LastOf, MadeBy, BackupOf, OneEach

LEMMA ListedIs ==
  ASSUME NEW W, IsFiniteSet(W), W \subseteq Written
  PROVE  /\ Secrets!Listed(W) \in Seq(Written)
         /\ \A w \in W : \E p \in 1..Len(Secrets!Listed(W)) : Secrets!Listed(W)[p] = w
         /\ \A p \in 1..Len(Secrets!Listed(W)) : Secrets!Listed(W)[p] \in W
         /\ \A p, q \in 1..Len(Secrets!Listed(W)) :
              Secrets!Listed(W)[p] = Secrets!Listed(W)[q] => p = q
<1>1. Secrets!Cardinality(W) = Cardinality(W) /\ Cardinality(W) \in Nat
  BY FS_CardinalityType DEF Cardinality, Secrets!Cardinality
<1>2. \E f : f \in Bijection(1..Cardinality(W), W)
  BY FS_CardinalityType DEF ExistsBijection
<1>3. \A S, T : Secrets!Bijection(S, T) = Bijection(S, T)
  BY DEF Secrets!Bijection, Bijection, Secrets!Injection, Injection, Secrets!Surjection, Surjection,
         Secrets!IsInjective, IsInjective
<1>4. PICK f : f = Secrets!Listed(W)
  OBVIOUS
<1>5. f \in Bijection(1..Cardinality(W), W)
  BY <1>1, <1>2, <1>3, <1>4 DEF Secrets!Listed
<1>6. PICK n \in Nat : n = Cardinality(W)
  BY <1>1
<1>7. /\ f \in [1..n -> W] /\ \A w \in W : \E p \in 1..n : f[p] = w
      /\ \A p, q \in 1..n : f[p] = f[q] => p = q
  BY <1>5, <1>6 DEF Bijection, Injection, Surjection, IsInjective
<1>8. f \in Seq(Written) /\ Len(f) = n
  BY <1>7
<1> QED
  BY <1>4, <1>7, <1>8

LEMMA SecretsImport ==
  ASSUME SecretsState, Secrets!SecretsAssumption, NEW mk \in MasterKeys, NEW pass, Secrets!Import(mk, pass)
  PROVE  SecretsState'
<1>1. /\ SecretsTypes /\ MaxOps \in Nat /\ MaxTime \in Nat /\ today \in Nat /\ ops \in Nat
  BY DEF SecretsState, SecretsTypes, Secrets!SecretsAssumption
<1>2. /\ ops < MaxOps /\ ops' = ops + 1 /\ UNCHANGED <<backup, today>> /\ backup # Secrets!NoBackup
  BY DEF Secrets!Import, Secrets!Busy
<1> DEFINE back(e) == Secrets!Restored(e, mk)
           write(e) == Secrets!Wrote("set", e.scope, e.plain, mk, e.expires)
<1>3. PICK E : E = backup.entries
  OBVIOUS
<1>4. PICK W : W = {write(e) : e \in E}
  OBVIOUS
<1>5. PICK N : N = {back(e) : e \in E}
  OBVIOUS
<1>6. PICK M : M = Secrets!Listed(W)
  OBVIOUS
<1>7. /\ secrets' = {s \in secrets : \A e \in E : e.scope # s.scope} \cup N
      /\ log' = log \o M
  BY <1>3, <1>4, <1>5, <1>6 DEF Secrets!Import
<1>8. E \subseteq BackedUp /\ IsFiniteSet(E) /\ OneEach(E)
      /\ \A e \in E : 1 <= e.version /\ e.version <= ops
  BY <1>1, <1>2, <1>3 DEF SecretsState, SecretsTypes, BackupOf, BackupIs
<1>9. \A e \in E : /\ write(e) \in Written /\ write(e).scope = e.scope /\ write(e).op = "set"
                   /\ write(e).plain = e.plain /\ write(e).under = mk /\ write(e).expires = e.expires
  BY <1>1, <1>8 DEF Written, Secrets!Wrote, BackedUp
<1>10. \A e \in E : /\ back(e) \in Entries /\ back(e).scope = e.scope /\ back(e).rotated = 0
                    /\ back(e).version = e.version /\ MadeOver(back(e), write(e), secrets)
  <2> SUFFICES ASSUME NEW e \in E
               PROVE  /\ back(e) \in Entries /\ back(e).scope = e.scope /\ back(e).rotated = 0
                      /\ back(e).version = e.version /\ MadeOver(back(e), write(e), secrets)
    OBVIOUS
  <2>1. back(e) \in Entries /\ back(e).scope = e.scope /\ back(e).rotated = 0 /\ back(e).version = e.version
    BY <1>8 DEF Secrets!Restored, Secrets!Seal, Entries, Boxes, BackedUp
  <2>2. /\ back(e).value = Secrets!Seal(e.plain, mk) /\ back(e).expires = e.expires
        /\ back(e).previous = Secrets!Unsealed
    BY DEF Secrets!Restored
  <2> HIDE DEF back, write
  <2>3. MadeOver(back(e), write(e), secrets)
    BY <1>9, <2>2 DEF MadeOver
  <2> QED
    BY <2>1, <2>3
<1>11. IsFiniteSet(W) /\ W \subseteq Written
  <2>1. PICK f : f = [e \in E |-> write(e)]
    OBVIOUS
  <2>2. W = {f[x] : x \in E}
    BY <1>4, <2>1
  <2>3. IsFiniteSet(W)
    BY ONLY <1>8, <2>2, FiniteImage
  <2> QED
    BY <1>4, <1>9, <2>3
<1>12. IsFiniteSet(N) /\ N \in SUBSET Entries
  <2>1. PICK f : f = [e \in E |-> back(e)]
    OBVIOUS
  <2>2. N = {f[x] : x \in E}
    BY <1>5, <2>1
  <2>3. IsFiniteSet(N)
    BY ONLY <1>8, <2>2, FiniteImage
  <2> QED
    BY <1>5, <1>10, <2>3
<1>13. \A s \in N : \E e \in E : s = back(e)
  BY <1>5
<1>14. \A e \in E : back(e) \in N
  BY <1>5
<1>15. \A w \in W : \E e \in E : w = write(e)
  BY <1>4
<1>16. \A e \in E : write(e) \in W
  BY <1>4
<1> HIDE DEF back, write
<1>17. /\ M \in Seq(Written) /\ \A w \in W : \E p \in 1..Len(M) : M[p] = w
       /\ \A p \in 1..Len(M) : M[p] \in W
       /\ \A p, q \in 1..Len(M) : M[p] = M[q] => p = q
  BY <1>6, <1>11, ListedIs
<1>18. \A p, q \in 1..Len(M) : M[p].scope = M[q].scope => p = q
  <2> SUFFICES ASSUME NEW p \in 1..Len(M), NEW q \in 1..Len(M), M[p].scope = M[q].scope PROVE M[p] = M[q]
    BY <1>17
  <2>1. PICK e \in E : M[p] = write(e)
    BY <1>15, <1>17
  <2>2. PICK d \in E : M[q] = write(d)
    BY <1>15, <1>17
  <2>3. e = d
    BY <1>8, <1>9, <2>1, <2>2 DEF OneEach
  <2> QED
    BY <2>1, <2>2, <2>3
<1>19. OneEach(N)
  <2> SUFFICES ASSUME NEW s \in N, NEW t \in N, s.scope = t.scope PROVE s = t
    BY DEF OneEach
  <2>1. PICK e \in E : s = back(e)
    BY <1>13
  <2>2. PICK d \in E : t = back(d)
    BY <1>13
  <2>3. e = d
    BY <1>8, <1>10, <2>1, <2>2 DEF OneEach
  <2> QED
    BY <2>1, <2>2, <2>3
<1>20. \A s \in N : 1 <= s.version /\ s.version <= ops + 1 /\ s.rotated <= today
  <2> SUFFICES ASSUME NEW e \in E
               PROVE  1 <= back(e).version /\ back(e).version <= ops + 1 /\ back(e).rotated <= today
    BY <1>13
  <2>1. e.version \in Nat
    BY <1>8 DEF BackedUp
  <2> QED
    BY <1>1, <1>8, <1>10, <2>1
<1>21. \A s \in N : \E p \in 1..Len(M) : M[p].scope = s.scope /\ MadeOver(s, M[p], secrets)
  <2> SUFFICES ASSUME NEW e \in E
               PROVE  \E p \in 1..Len(M) : M[p].scope = back(e).scope /\ MadeOver(back(e), M[p], secrets)
    BY <1>13
  <2>1. PICK p \in 1..Len(M) : M[p] = write(e)
    BY <1>16, <1>17
  <2> QED
    BY <1>9, <1>10, <2>1
<1>22. \A p \in 1..Len(M) : M[p].op # "remove" => \E s \in N : s.scope = M[p].scope
  <2> SUFFICES ASSUME NEW p \in 1..Len(M) PROVE \E s \in N : s.scope = M[p].scope
    OBVIOUS
  <2>1. PICK e \in E : M[p] = write(e)
    BY <1>15, <1>17
  <2> QED
    BY <1>9, <1>10, <1>14, <2>1
<1>23. secrets' = {s \in secrets : \A p \in 1..Len(M) : M[p].scope # s.scope} \cup N
  <2>1. ASSUME NEW s PROVE (\A e \in E : e.scope # s.scope) <=> (\A p \in 1..Len(M) : M[p].scope # s.scope)
    BY <1>9, <1>15, <1>16, <1>17
  <2> QED
    BY <1>7, <2>1
<1>24. ops < MaxOps /\ ops' = ops + 1 /\ UNCHANGED <<backup, today>> /\ log' = log \o M
  BY <1>2, <1>7
<1> QED
  BY ONLY SecretsState, <1>1, <1>12, <1>17, <1>18, <1>19, <1>20, <1>21, <1>22, <1>23, <1>24, Rewrites

LEMMA SecretsSteps ==
  ASSUME SecretsState, Secrets!SecretsAssumption, Secrets!Next \/ UNCHANGED secretsVars
  PROVE  SecretsState'
<1>1. ASSUME NEW scope \in Secrets!Scopes, NEW mk \in MasterKeys, NEW v \in Values,
             NEW life \in Lifetimes \cup {None},
             Secrets!Set(scope, v, mk, IF life = None THEN None ELSE today + life)
      PROVE  SecretsState'
  <2>1. (IF life = None THEN None ELSE today + life) \in Expiries
    BY DEF Expiries, Secrets!SecretsAssumption, SecretsState, SecretsTypes
  <2> QED
    BY <1>1, <2>1, SecretsSet
<1> QED
  BY <1>1, SecretsRotate, SecretsRemove, SecretsExport, SecretsImport, SecretsTick DEF Secrets!Next

LEMMA LastWriteIs ==
  ASSUME NEW scope, NEW n \in Nat
  PROVE  /\ \A i : LastOf(log, scope, n, i) =>
              Secrets!Writes(scope, n) # {} /\ Secrets!LastWrite(scope, n) = i
         /\ Secrets!Writes(scope, n) # {} => \E i \in 1..n : LastOf(log, scope, n, i)
<1>1. ASSUME NEW i, LastOf(log, scope, n, i)
      PROVE  Secrets!Writes(scope, n) # {} /\ Secrets!LastWrite(scope, n) = i
  <2>1. i \in Secrets!Writes(scope, n) /\ Secrets!Writes(scope, n) \subseteq 1..n
    BY <1>1 DEF LastOf, Secrets!Writes
  <2>2. \A j \in Secrets!Writes(scope, n) : j <= i
    BY <1>1, <2>1 DEF LastOf, Secrets!Writes
  <2>3. \A k \in Secrets!Writes(scope, n) : (\A j \in Secrets!Writes(scope, n) : j <= k) => k = i
    <3>1. \A k \in Secrets!Writes(scope, n) : i <= k /\ k <= i => k = i
      BY <2>1
    <3> QED
      BY <2>1, <2>2, <3>1
  <2> QED
    BY <2>1, <2>2, <2>3 DEF Secrets!LastWrite
<1>2. Secrets!Writes(scope, n) # {} => \E i \in 1..n : LastOf(log, scope, n, i)
  BY LastExists DEF Secrets!Writes
<1> QED
  BY <1>1, <1>2

(* What a run is given of an entry.                                        *)
Given(s, mk) ==
  IF Secrets!Expired(s) THEN Secrets!Missing
  ELSE IF ~Secrets!Opens(s.value, mk) THEN [Secrets!Missing EXCEPT !.status = "error"]
  ELSE [status |-> "given", value |-> s.value.plain,
        previous |-> IF /\ s.previous # Secrets!Unsealed /\ today - s.rotated < Grace
                        /\ Secrets!Opens(s.previous, mk)
                       THEN s.previous.plain ELSE None]

LEMMA GivenIsMeant ==
  ASSUME SecretsState, NEW s \in secrets, NEW mk
  PROVE  Secrets!Holds(s.scope, Len(log)) /\ Given(s, mk) = Secrets!Meant(s.scope, mk)
<1>1. log \in Seq(Written) /\ Len(log) \in Nat
  BY DEF SecretsState, SecretsTypes
<1>2. PICK i \in 1..Len(log) : LastOf(log, s.scope, Len(log), i) /\ MadeBy(s, log, i)
  BY DEF SecretsState, HeldAsWritten
<1>3. Secrets!Writes(s.scope, Len(log)) # {} /\ Secrets!LastWrite(s.scope, Len(log)) = i
  BY <1>1, <1>2, LastWriteIs
<1>4. log[i] \in Written /\ log[i].op # "remove" /\ i - 1 \in Nat
  BY <1>1, <1>2 DEF MadeBy
<1>5. Secrets!Holds(s.scope, Len(log))
  BY <1>3, <1>4 DEF Secrets!Holds
<1> DEFINE before == log[Secrets!LastWrite(s.scope, i - 1)]
           offered == IF /\ s.previous # Secrets!Unsealed /\ today - s.rotated < Grace
                         /\ Secrets!Opens(s.previous, mk)
                        THEN s.previous.plain ELSE None
           owed == IF log[i].op = "rotate" /\ today - log[i].at < Grace /\ before.under = mk
                    THEN before.plain ELSE None
<1>6. offered = owed
  <2>1. CASE log[i].op = "set"
    BY <1>2, <2>1 DEF MadeBy
  <2>2. CASE log[i].op = "rotate"
    <3>1. PICK k \in 1..i - 1 : /\ LastOf(log, s.scope, i - 1, k)
                                /\ s.previous = Secrets!Seal(log[k].plain, log[k].under)
      BY <1>2, <2>2 DEF MadeBy
    <3>2. before = log[k]
      BY <1>4, <3>1, LastWriteIs
    <3>3. s.rotated = log[i].at
      BY <1>2, <2>2 DEF MadeBy
    <3>4. s.previous.plain = log[k].plain /\ s.previous.under = log[k].under
      BY <3>1 DEF Secrets!Seal
    <3>5. s.previous = Secrets!Unsealed => s.previous.plain = None
      BY DEF Secrets!Unsealed
    <3> QED
      BY <2>2, <3>2, <3>3, <3>4, <3>5 DEF Secrets!Opens
  <2> QED
    BY <1>4, <2>1, <2>2 DEF Written
<1>7. /\ Secrets!Expired(s) <=> (log[i].expires # None /\ today > log[i].expires)
      /\ Secrets!Opens(s.value, mk) <=> log[i].under = mk
      /\ s.value.plain = log[i].plain
  BY <1>2 DEF MadeBy, Secrets!Expired, Secrets!Opens, Secrets!Seal
<1> HIDE DEF offered, owed
<1>8. Given(s, mk) = IF Secrets!Expired(s) THEN Secrets!Missing
                     ELSE IF ~Secrets!Opens(s.value, mk) THEN [Secrets!Missing EXCEPT !.status = "error"]
                     ELSE [status |-> "given", value |-> s.value.plain, previous |-> offered]
  BY DEF Given, offered
<1>9. Secrets!Meant(s.scope, mk) =
        IF ~Secrets!Holds(s.scope, Len(log)) \/ (log[i].expires # None /\ today > log[i].expires)
          THEN Secrets!Missing
        ELSE IF log[i].under # mk THEN [Secrets!Missing EXCEPT !.status = "error"]
        ELSE [status |-> "given", value |-> log[i].plain, previous |-> owed]
  BY <1>3 DEF Secrets!Meant, owed
<1> QED
  BY <1>5, <1>6, <1>7, <1>8, <1>9

LEMMA HeldScopes ==
  ASSUME SecretsState, NEW scope \in Secrets!Scopes
  PROVE  Secrets!Holds(scope, Len(log)) <=> Secrets!At(scope) # {}
<1>1. log \in Seq(Written) /\ Len(log) \in Nat
  BY DEF SecretsState, SecretsTypes
<1>2. ASSUME Secrets!At(scope) # {} PROVE Secrets!Holds(scope, Len(log))
  BY <1>2, GivenIsMeant DEF Secrets!At
<1>3. ASSUME Secrets!Holds(scope, Len(log)) PROVE Secrets!At(scope) # {}
  <2>1. PICK i \in 1..Len(log) : LastOf(log, scope, Len(log), i)
    BY <1>1, <1>3, LastWriteIs DEF Secrets!Holds
  <2>2. log[i].op # "remove"
    BY <1>1, <1>3, <2>1, LastWriteIs DEF Secrets!Holds
  <2> QED
    BY <2>1, <2>2 DEF SecretsState, WrittenIsHeld, Secrets!At
<1> QED
  BY <1>2, <1>3

LEMMA EnvHolds == ASSUME SecretsState PROVE Secrets!EnvIsWhatWasWritten
<1> SUFFICES ASSUME NEW agent \in Agents, NEW key \in KeyNames, NEW device \in Devices \cup {None},
                    NEW mk \in MasterKeys
             PROVE  Secrets!Env(agent, key, device, mk) =
                    Secrets!Meant(Secrets!Narrowest(agent, key, device), mk)
  BY DEF Secrets!EnvIsWhatWasWritten
<1> DEFINE own == [agent |-> agent, device |-> device, key |-> key]
           every == [agent |-> agent, device |-> None, key |-> key]
<1>1. own \in Secrets!Scopes /\ every \in Secrets!Scopes /\ [own EXCEPT !.device = None] = every
  BY DEF Secrets!Scopes
<1>2. PICK scope \in Secrets!Scopes : scope = Secrets!Narrowest(agent, key, device)
  BY <1>1 DEF Secrets!Narrowest
<1>3. Secrets!Resolve(agent, key, device) = Secrets!At(scope)
  BY <1>1, <1>2, HeldScopes DEF Secrets!Narrowest, Secrets!Resolve
<1>4. CASE Secrets!At(scope) = {}
  <2>1. ~Secrets!Holds(scope, Len(log))
    BY <1>4, HeldScopes
  <2> QED
    BY <1>2, <1>3, <1>4, <2>1 DEF Secrets!Env, Secrets!Meant
<1>5. CASE Secrets!At(scope) # {}
  <2>1. PICK s \in Secrets!At(scope) : s = CHOOSE x \in Secrets!At(scope) : TRUE
    BY <1>5
  <2>2. s \in secrets /\ s.scope = scope
    BY DEF Secrets!At
  <2>3. Given(s, mk) = Secrets!Meant(scope, mk)
    BY <2>2, GivenIsMeant
  <2>4. Secrets!Env(agent, key, device, mk) = Given(s, mk)
    BY <1>3, <1>5, <2>1 DEF Secrets!Env, Given
  <2> QED
    BY <1>2, <2>3, <2>4
<1> QED
  BY <1>4, <1>5

LEMMA BackupHolds == ASSUME SecretsState PROVE Secrets!BackupIsComplete
<1> SUFFICES ASSUME backup # Secrets!NoBackup PROVE Secrets!BackupIsComplete
  BY DEF Secrets!BackupIsComplete
<1>1. BackupOf(backup, log) /\ backup \in BackupIs
  BY DEF SecretsState, SecretsTypes
<1>2. PICK n \in Nat : n = backup.asOf
  BY <1>1 DEF BackupIs
<1>3. PICK E : E = backup.entries
  OBVIOUS
<1> DEFINE scopes == {s \in Secrets!Scopes : Secrets!Holds(s, n) /\ backup.agent \in {None, s.agent}}
           Out(scope, plain) == [scope |-> scope, plain |-> plain]
           Plain(scope) == log[Secrets!LastWrite(scope, n)].plain
<1>4. ASSUME NEW e \in E PROVE e.scope \in scopes /\ e.plain = Plain(e.scope)
  <2>1. PICK i \in 1..n : LastOf(log, e.scope, n, i) /\ log[i].op # "remove" /\ log[i].plain = e.plain
    BY <1>1, <1>2, <1>3 DEF BackupOf
  <2>2. Secrets!Writes(e.scope, n) # {} /\ Secrets!LastWrite(e.scope, n) = i
    BY <2>1, LastWriteIs
  <2>3. e.scope \in Secrets!Scopes /\ backup.agent \in {None, e.scope.agent}
    BY <1>1, <1>3 DEF BackupOf, BackupIs, BackedUp
  <2> QED
    BY <2>1, <2>2, <2>3 DEF Secrets!Holds
<1>5. ASSUME NEW scope \in scopes PROVE \E e \in E : e.scope = scope
  <2>1. PICK i \in 1..n : LastOf(log, scope, n, i)
    BY LastWriteIs DEF Secrets!Holds
  <2>2. log[i].op # "remove"
    BY <2>1, LastWriteIs DEF Secrets!Holds
  <2> QED
    BY <1>1, <1>2, <1>3, <2>1, <2>2 DEF BackupOf
<1> HIDE DEF scopes, Plain
<1>6. {Out(e.scope, e.plain) : e \in E} = {Out(scope, Plain(scope)) : scope \in scopes}
  BY <1>4, <1>5
<1> QED
  BY <1>2, <1>3, <1>6 DEF Secrets!BackupIsComplete, scopes, Plain

LEMMA SecretsTyped == ASSUME SecretsState, Secrets!SecretsAssumption PROVE Secrets!TypeOK
<1>1. SecretsTypes /\ MaxOps \in Nat /\ MaxTime \in Nat /\ ops \in Nat /\ today \in Nat /\ Len(log) \in Nat
  BY DEF SecretsState, SecretsTypes, Secrets!SecretsAssumption
<1>2. ASSUME NEW s \in secrets
      PROVE  /\ s.scope \in Secrets!Scopes /\ s.value \in Boxes
             /\ s.previous \in Boxes \cup {Secrets!Unsealed}
             /\ s.version \in 1..MaxOps /\ s.rotated \in 0..today /\ s.expires \in Expiries
  <2>1. s \in Entries /\ 1 <= s.version /\ s.version <= ops /\ s.rotated <= today /\ ops \in 0..MaxOps
    BY <1>1 DEF SecretsTypes
  <2> QED
    BY <1>1, <2>1 DEF Entries
<1>3. backup.asOf \in 0..Len(log)
  <2>1. CASE backup = Secrets!NoBackup
    BY <1>1, <2>1 DEF Secrets!NoBackup
  <2>2. CASE backup # Secrets!NoBackup
    BY <1>1, <2>2 DEF SecretsState, SecretsTypes, BackupOf, BackupIs
  <2> QED
    BY <2>1, <2>2
<1> QED
  BY <1>1, <1>2, <1>3 DEF Secrets!TypeOK, SecretsTypes, OneEach, Boxes, Expiries

LEMMA SecretsStart == ASSUME Secrets!Init, Secrets!SecretsAssumption PROVE SecretsState
<1>1. MaxOps \in Nat /\ MaxTime \in Nat
  BY DEF Secrets!SecretsAssumption
<1>2. log = <<>> /\ Len(log) = 0 /\ log \in Seq(Written)
  BY DEF Secrets!Init
<1>3. SecretsTypes
  BY <1>1, <1>2, FS_EmptySet DEF Secrets!Init, SecretsTypes, OneEach
<1> QED
  BY <1>2, <1>3 DEF Secrets!Init, SecretsState, HeldAsWritten, WrittenIsHeld

(* A run is given exactly what the commands before it amount to, and a     *)
(* backup is complete (Set, Rotate, Remove, Export, Import and Env of      *)
(* secrets.go), for any number of agents, devices, keys and commands,      *)
(* whatever master keys and expiries they use.                             *)
THEOREM SecretsKept == PartsSpec => []SecretsAreWhatWasWritten
<1>1. PartsInit => SecretsInv
  BY SecretsStart, SecretsAssumption DEF PartsInit, SecretsInv
<1>2. SecretsInv /\ [PartsNext]_all => SecretsInv'
  BY StepOfPart, SecretsSteps, SecretsAssumption DEF SecretsInv
<1>3. SecretsInv => SecretsAreWhatWasWritten
  BY SecretsTyped, EnvHolds, BackupHolds, SecretsAssumption DEF SecretsInv, SecretsAreWhatWasWritten
<1> QED
  BY <1>1, <1>2, <1>3, PTL DEF PartsSpec

-----------------------------------------------------------------------------
(* Checkpoints: the archive of what was saved, and its file.               *)
Entry4 == {"manifest", "conversation", "memory", "context"}
WeightSet == {w \in {Weights[i] : i \in DOMAIN Weights} \cup {Other} : Weights # <<>>}
CellSet ==
  [entry : Entry4 \cup {"end", "sum"}, of : Sessions \cup {Other}]
    \cup [entry : {"weights"}, of : WeightSet]
StateKeys == {<<>>} \cup ((Phrases \cup {NoKey}) \X Nat)
PieceSet ==
  [kind : {"plain", "magic", "oldMagic", "salt", "frame"}, index : Nat, key : StateKeys,
   cells : Seq(CellSet), is : {"whole", "part", "flipped"}]
SaveSet == [session : Sessions \cup {Other}, seal : BOOLEAN, pass : Phrases \cup {NoKey}, by : Nat]
ReaderFields == {"on", "all", "intact", "key", "at", "frames", "buf", "got", "extracts"}

Cells(s) == Checkpoint!Archive(s)
WeightCells(s) == IF s.seal THEN Len(Weights) ELSE 0
Whole(s) ==
  IF s = Checkpoint!Nothing THEN <<>>
  ELSE IF s.by = 0 THEN Checkpoint!Legacy(s) ELSE Checkpoint!Pieces(s, s.by)

Saved(s) ==
  /\ s \in SaveSet /\ s.by <= MaxSaves
  /\ s # Checkpoint!Nothing => s.session \in Sessions /\ (s.by = 0 => s.pass # NoKey)

CheckpointTypes ==
  /\ Saved(stored)
  /\ damaged \subseteq {"cut", "mixed", "flipped"}
  /\ file \in Seq(PieceSet) /\ pending \in Seq(PieceSet)
  /\ weights \in Seq(WeightSet)
  /\ DOMAIN reader = ReaderFields /\ reader.on \in BOOLEAN /\ reader.extracts \in BOOLEAN
  /\ reader.at \in Nat /\ reader.frames \in Nat /\ reader.buf \in Seq(CellSet)
  /\ reader.key \in StateKeys
  /\ outcome = Checkpoint!NoOutcome
       \/ (outcome.is \in {"refused", "inspected", "restored"} /\ ~reader.on)

(* The cells that n frames hold; a piece holds those of its place, unless  *)
(* it is of a plain file and was changed.                                  *)
UpTo(s, n) == IF n * FrameSize < Len(Cells(s)) THEN n * FrameSize ELSE Len(Cells(s))

PieceIs(s, p, i, changed) ==
  /\ s.pass = NoKey =>
       /\ p.kind = "plain"
       /\ ~changed =>
            p.is # "flipped" /\ (p.is = "whole" => i <= Len(Cells(s)) /\ p.cells = <<Cells(s)[i]>>)
  /\ s.pass # NoKey =>
       /\ p.kind # "plain"
       /\ p.kind = "frame" /\ p.is = "whole" =>
            /\ p.index * FrameSize < Len(Cells(s))
            /\ p.cells = SubSeq(Cells(s), p.index * FrameSize + 1, UpTo(s, p.index + 1))

AllPieces(s, f, changed) == \A i \in 1..Len(f) : PieceIs(s, f[i], i, changed)

FileIs ==
  /\ stored = Checkpoint!Nothing => damaged = {}
  /\ damaged = {} => file \o pending = Whole(stored)
  /\ pending # <<>> => damaged = {}
  /\ AllPieces(stored, file, "flipped" \in damaged)

(* A reader has taken the first n cells and holds those it has read since. *)
Reach(s, r) == IF r.key = <<>> THEN r.at - 1 ELSE UpTo(s, r.frames)

Follows(s, r, out, n) ==
  /\ n <= Reach(s, r) /\ Reach(s, r) <= Len(Cells(s)) /\ n <= 4 + WeightCells(s)
  /\ r.buf = SubSeq(Cells(s), n + 1, Reach(s, r))
  /\ r.got = [e \in {Cells(s)[k].entry : k \in 1..n} \cap Entry4 |-> s.session]
  /\ r.extracts <=> n > 4
  /\ r.extracts => out = SubSeq(Weights, 1, n - 4)

Offset(s) == IF s.by = 0 THEN 2 ELSE 3

ReaderIs ==
  reader.on =>
    /\ stored # Checkpoint!Nothing /\ reader.at >= 1
    /\ reader.key = <<>> <=> stored.pass = NoKey
    /\ stored.pass # NoKey \/ "flipped" \notin damaged => \E n \in Nat : Follows(stored, reader, weights, n)
    /\ reader.intact =>
         /\ Checkpoint!Intact
         /\ stored.pass # NoKey =>
              /\ reader.key[1] # NoKey /\ reader.key[2] = stored.by
              /\ reader.at = reader.frames + Offset(stored)
              /\ reader.key[1] # stored.pass => reader.frames = 0 /\ reader.buf = <<>>

(* What is shown of a save, restored from it or inspected, is all of it.   *)
Shows(s, out, w) ==
  /\ out.is = "inspected" => out.got["manifest"] = s.session
  /\ out.is = "restored" =>
       /\ out.got = [e \in Entry4 |-> s.session]
       /\ s.seal => w = Weights
Explains(s, out) ==
  IF s.pass = NoKey \/ out.with = s.pass THEN out.is # "refused"
  ELSE out.why = IF out.with = NoKey THEN "no key" ELSE "decrypt"

ShownIs ==
  /\ stored.pass # NoKey \/ "flipped" \notin damaged => Shows(stored, outcome, weights)
  /\ outcome.is # "none" /\ outcome.intact => Explains(stored, outcome)

CheckpointState ==
  CheckpointTypes /\ FileIs /\ ReaderIs /\ ShownIs

CheckpointInv == part = "checkpoint" => CheckpointState

LEMMA Monotone == ASSUME NEW a \in Nat, NEW b \in Nat, NEW c \in Nat, a <= b PROVE a * c <= b * c
OBVIOUS

LEMMA Quotient ==
  ASSUME NEW a \in Nat, NEW b \in Nat \ {0}
  PROVE  a \div b \in Nat /\ (a \div b) * b <= a /\ a < (a \div b) * b + b
OBVIOUS

LEMMA Successor == ASSUME NEW a \in Nat, NEW b \in Nat PROVE (a + 1) * b = a * b + b
OBVIOUS

(* Frame i is there as long as the frames before it do not hold it all.    *)
LEMMA FrameCount ==
  ASSUME NEW L \in Nat, NEW F \in Nat \ {0}
  PROVE  /\ (L + F - 1) \div F \in Nat
         /\ \A i \in Nat : i < (L + F - 1) \div F <=> i * F < L
<1>1. PICK q : q = (L + F - 1) \div F
  OBVIOUS
<1>2. q \in Nat /\ q * F <= L + F - 1 /\ L + F - 1 < q * F + F
  BY <1>1, Quotient
<1>3. ASSUME NEW i \in Nat, i < q PROVE i * F < L
  <2>1. (i + 1) * F <= q * F
    BY <1>2, <1>3, Monotone
  <2>2. (i + 1) * F = i * F + F /\ i * F \in Nat /\ q * F \in Nat
    BY <1>2, Successor
  <2> QED
    BY <1>2, <2>1, <2>2
<1>4. ASSUME NEW i \in Nat, i * F < L PROVE i < q
  <2> SUFFICES ASSUME q <= i PROVE FALSE
    BY <1>2
  <2>1. q * F <= i * F
    BY <1>2, Monotone
  <2>2. q * F \in Nat /\ i * F \in Nat
    BY <1>2
  <2> QED
    BY <1>2, <1>4, <2>1, <2>2
<1> QED
  BY <1>1, <1>2, <1>3, <1>4

LEMMA ThreeParts ==
  ASSUME NEW S, NEW a \in Seq(S), NEW b \in Seq(S), NEW c \in Seq(S)
  PROVE  /\ a \o b \o c \in Seq(S) /\ Len(a \o b \o c) = Len(a) + Len(b) + Len(c)
         /\ \A i \in 1..Len(a) : (a \o b \o c)[i] = a[i]
         /\ \A i \in 1..Len(b) : (a \o b \o c)[Len(a) + i] = b[i]
         /\ \A i \in 1..Len(c) : (a \o b \o c)[Len(a) + Len(b) + i] = c[i]
OBVIOUS

LEMMA ArchiveIs ==
  ASSUME Checkpoint!CheckpointFileAssumption, NEW s \in SaveSet
  PROVE  /\ Cells(s) \in Seq(CellSet) /\ Len(Cells(s)) = WeightCells(s) + 6 /\ WeightCells(s) \in Nat
         /\ Cells(s)[1] = Checkpoint!Cell("manifest", s.session)
         /\ Cells(s)[2] = Checkpoint!Cell("conversation", s.session)
         /\ Cells(s)[3] = Checkpoint!Cell("memory", s.session)
         /\ Cells(s)[4] = Checkpoint!Cell("context", s.session)
         /\ \A i \in 1..WeightCells(s) :
              s.seal /\ Cells(s)[4 + i] = Checkpoint!Cell("weights", Weights[i]) /\ i \in DOMAIN Weights
         /\ Cells(s)[5 + WeightCells(s)].entry = "end" /\ Cells(s)[6 + WeightCells(s)].entry = "sum"
<1>1. Weights \in Seq(Checkpoint!Range(Weights))
  BY DEF Checkpoint!CheckpointFileAssumption
<1>2. Len(Weights) \in Nat /\ DOMAIN Weights = 1..Len(Weights)
  BY <1>1
<1>3. s.session \in Sessions \cup {Other} /\ s.seal \in BOOLEAN
  BY DEF SaveSet
<1> DEFINE cell(e) == Checkpoint!Cell(e, s.session)
<1>4. PICK a : a = <<cell("manifest"), cell("conversation"), cell("memory"), cell("context")>>
  OBVIOUS
<1>5. PICK b : b = IF s.seal THEN [i \in DOMAIN Weights |-> Checkpoint!Cell("weights", Weights[i])]
                   ELSE <<>>
  OBVIOUS
<1>6. PICK c : c = <<cell("end"), cell("sum")>>
  OBVIOUS
<1>7. Cells(s) = a \o b \o c
  BY <1>4, <1>5, <1>6 DEF Cells, Checkpoint!Archive
<1>8. \A e \in Entry4 \cup {"end", "sum"} : cell(e) \in CellSet /\ cell(e).entry = e
  BY <1>3 DEF Checkpoint!Cell, CellSet
<1>9. \A i \in DOMAIN Weights : Checkpoint!Cell("weights", Weights[i]) \in CellSet
  <2>1. \A i \in DOMAIN Weights : Weights # <<>>
    OBVIOUS
  <2>2. \A i \in DOMAIN Weights : Weights[i] \in WeightSet
    BY <2>1 DEF WeightSet
  <2> QED
    BY <2>2 DEF Checkpoint!Cell, CellSet
<1> HIDE DEF cell
<1>10. a \in Seq(CellSet) /\ Len(a) = 4
  BY <1>4, <1>8 DEF Entry4
<1>11. c \in Seq(CellSet) /\ Len(c) = 2 /\ c[1] = cell("end") /\ c[2] = cell("sum")
  BY <1>6, <1>8
<1>12. /\ b \in Seq(CellSet) /\ Len(b) = WeightCells(s) /\ WeightCells(s) \in Nat
       /\ \A i \in 1..WeightCells(s) :
            s.seal /\ b[i] = Checkpoint!Cell("weights", Weights[i]) /\ i \in DOMAIN Weights
  <2>1. CASE s.seal
    BY <1>2, <1>5, <1>9, <2>1 DEF WeightCells
  <2>2. CASE ~s.seal
    BY <1>5, <2>2 DEF WeightCells
  <2> QED
    BY <1>3, <2>1, <2>2
<1>13. /\ Cells(s) \in Seq(CellSet) /\ Len(Cells(s)) = WeightCells(s) + 6
       /\ \A i \in 1..4 : Cells(s)[i] = a[i]
       /\ \A i \in 1..WeightCells(s) : Cells(s)[4 + i] = b[i]
       /\ \A i \in 1..2 : Cells(s)[4 + WeightCells(s) + i] = c[i]
  <2>1. a \in Seq(CellSet) /\ b \in Seq(CellSet) /\ c \in Seq(CellSet)
    BY <1>10, <1>11, <1>12
  <2>2. /\ a \o b \o c \in Seq(CellSet) /\ Len(a \o b \o c) = Len(a) + Len(b) + Len(c)
        /\ \A i \in 1..Len(a) : (a \o b \o c)[i] = a[i]
        /\ \A i \in 1..Len(b) : (a \o b \o c)[Len(a) + i] = b[i]
        /\ \A i \in 1..Len(c) : (a \o b \o c)[Len(a) + Len(b) + i] = c[i]
    BY ONLY <2>1, ThreeParts
  <2>3. /\ Cells(s) \in Seq(CellSet) /\ Len(Cells(s)) = 4 + WeightCells(s) + 2
        /\ \A i \in 1..4 : Cells(s)[i] = a[i]
        /\ \A i \in 1..WeightCells(s) : Cells(s)[4 + i] = b[i]
        /\ \A i \in 1..2 : Cells(s)[4 + WeightCells(s) + i] = c[i]
    BY <1>7, <1>10, <1>11, <1>12, <2>2, Zenon
  <2>4. 4 + WeightCells(s) + 2 = WeightCells(s) + 6
    BY <1>12
  <2> QED
    BY <2>3, <2>4, Zenon
<1>14. Cells(s)[5 + WeightCells(s)] = c[1] /\ Cells(s)[6 + WeightCells(s)] = c[2]
  <2>1. Cells(s)[4 + WeightCells(s) + 1] = c[1] /\ Cells(s)[4 + WeightCells(s) + 2] = c[2]
    BY <1>13
  <2>2. 4 + WeightCells(s) + 1 = 5 + WeightCells(s) /\ 4 + WeightCells(s) + 2 = 6 + WeightCells(s)
    BY <1>12
  <2> QED
    BY <2>1, <2>2
<1>15. Cells(s)[1] = cell("manifest") /\ Cells(s)[2] = cell("conversation") /\ Cells(s)[3] = cell("memory")
       /\ Cells(s)[4] = cell("context")
  BY <1>4, <1>13
<1>16. Cells(s)[5 + WeightCells(s)].entry = "end" /\ Cells(s)[6 + WeightCells(s)].entry = "sum"
  BY <1>8, <1>11, <1>14
<1> QED
  BY <1>12, <1>13, <1>15, <1>16 DEF cell

(* A file as it was written.                                               *)
LEMMA UpToIs ==
  ASSUME Checkpoint!CheckpointFileAssumption, NEW s \in SaveSet, NEW n \in Nat
  PROVE  /\ UpTo(s, n) \in Nat /\ UpTo(s, n) <= Len(Cells(s)) /\ UpTo(s, n) <= UpTo(s, n + 1)
         /\ n * FrameSize < Len(Cells(s)) => UpTo(s, n) = n * FrameSize /\ UpTo(s, n) < UpTo(s, n + 1)
         /\ ~(n * FrameSize < Len(Cells(s))) => UpTo(s, n) = Len(Cells(s))
<1>1. Len(Cells(s)) \in Nat
  BY ArchiveIs
<1>2. FrameSize \in Nat /\ FrameSize > 0
  BY DEF Checkpoint!CheckpointFileAssumption
<1>3. n * FrameSize \in Nat /\ (n + 1) * FrameSize = n * FrameSize + FrameSize
  BY <1>2, Successor
<1> QED
  BY <1>1, <1>2, <1>3 DEF UpTo

LEMMA FramesAre ==
  ASSUME Checkpoint!CheckpointFileAssumption, NEW s \in SaveSet, NEW key \in StateKeys
  PROVE  /\ Checkpoint!Frames(Cells(s), key) \in Seq(PieceSet)
         /\ \A f \in Nat : f < Len(Checkpoint!Frames(Cells(s), key)) <=> f * FrameSize < Len(Cells(s))
         /\ \A i \in 1..Len(Checkpoint!Frames(Cells(s), key)) :
              LET p == Checkpoint!Frames(Cells(s), key)[i] IN
                /\ p.kind = "frame" /\ p.is = "whole" /\ p.index = i - 1 /\ p.key = key
                /\ p.cells = SubSeq(Cells(s), (i - 1) * FrameSize + 1, UpTo(s, i))
<1>1. Cells(s) \in Seq(CellSet) /\ Len(Cells(s)) \in Nat
  BY ArchiveIs
<1>2. FrameSize \in Nat \ {0}
  BY DEF Checkpoint!CheckpointFileAssumption
<1>3. PICK n : n = (Len(Cells(s)) + FrameSize - 1) \div FrameSize
  OBVIOUS
<1>4. n \in Nat /\ \A i \in Nat : i < n <=> i * FrameSize < Len(Cells(s))
  BY <1>1, <1>2, <1>3, FrameCount
<1>5. PICK F : F = Checkpoint!Frames(Cells(s), key)
  OBVIOUS
<1>6. F = [i \in 1..n |->
             Checkpoint!Piece("frame", i - 1, key,
               SubSeq(Cells(s), i * FrameSize - FrameSize + 1,
                      IF i * FrameSize < Len(Cells(s)) THEN i * FrameSize ELSE Len(Cells(s))))]
  BY <1>3, <1>5 DEF Checkpoint!Frames
<1>7. ASSUME NEW i \in 1..n
      PROVE  /\ F[i].kind = "frame" /\ F[i].is = "whole" /\ F[i].index = i - 1 /\ F[i].key = key
             /\ F[i].cells = SubSeq(Cells(s), (i - 1) * FrameSize + 1, UpTo(s, i))
             /\ F[i] \in PieceSet
  <2>1. i - 1 \in Nat /\ i \in Nat /\ i * FrameSize \in Nat /\ (i - 1) * FrameSize \in Nat
    BY <1>2, <1>4
  <2>2. i * FrameSize = (i - 1) * FrameSize + FrameSize
    <3>1. PICK j \in Nat : i = j + 1
      BY <2>1
    <3>2. (j + 1) * FrameSize = j * FrameSize + FrameSize
      BY <1>2, Successor
    <3> QED
      BY <3>1, <3>2
  <2>3. i * FrameSize - FrameSize + 1 = (i - 1) * FrameSize + 1
    BY <1>2, <2>1, <2>2
  <2>4. F[i] = Checkpoint!Piece("frame", i - 1, key,
                 SubSeq(Cells(s), i * FrameSize - FrameSize + 1,
                        IF i * FrameSize < Len(Cells(s)) THEN i * FrameSize ELSE Len(Cells(s))))
    BY <1>6
  <2>5. F[i] = Checkpoint!Piece("frame", i - 1, key, SubSeq(Cells(s), (i - 1) * FrameSize + 1, UpTo(s, i)))
    BY <2>3, <2>4 DEF UpTo
  <2>6. SubSeq(Cells(s), (i - 1) * FrameSize + 1, UpTo(s, i)) \in Seq(CellSet)
    <3>1. UpTo(s, i) \in Nat /\ UpTo(s, i) <= Len(Cells(s))
      BY <2>1, UpToIs
    <3> QED
      BY <1>1, <2>1, <3>1
  <2>7. PICK cells : cells = SubSeq(Cells(s), (i - 1) * FrameSize + 1, UpTo(s, i))
    OBVIOUS
  <2>8. F[i] = [kind |-> "frame", index |-> i - 1, key |-> key, cells |-> cells, is |-> "whole"]
    BY <2>5, <2>7 DEF Checkpoint!Piece
  <2>9. cells \in Seq(CellSet) /\ i - 1 \in Nat /\ key \in StateKeys
    BY <2>1, <2>6, <2>7
  <2>10. F[i] \in PieceSet
    BY ONLY <2>8, <2>9 DEF PieceSet
  <2>11. /\ F[i].kind = "frame" /\ F[i].is = "whole" /\ F[i].index = i - 1 /\ F[i].key = key
         /\ F[i].cells = cells
    BY ONLY <2>8
  <2> QED
    BY ONLY <2>7, <2>10, <2>11
<1>8. F \in Seq(PieceSet) /\ Len(F) = n
  BY <1>4, <1>6, <1>7
<1> QED
  BY <1>4, <1>5, <1>7, <1>8

Key(s) == Checkpoint!StateKey(s.pass, s.by)

(* An encrypted file: a header and the frames, each in its place.          *)
Framed(s, W) ==
  /\ Offset(s) <= Len(W)
  /\ IF s.by = 0 THEN W[1].kind = "oldMagic"
     ELSE W[1].kind = "magic" /\ W[2].kind = "salt" /\ W[2].index = s.by
  /\ \A f \in Nat : f + Offset(s) <= Len(W) <=> f * FrameSize < Len(Cells(s))
  /\ \A f \in Nat : f + Offset(s) <= Len(W) =>
       W[f + Offset(s)].kind = "frame" /\ W[f + Offset(s)].index = f /\ W[f + Offset(s)].key = Key(s)

AsWritten(s, W) ==
  /\ W \in Seq(PieceSet)
  /\ \A i \in 1..Len(W) : W[i].is = "whole" /\ \A changed \in BOOLEAN : PieceIs(s, W[i], i, changed)

LEMMA JoinedOf ==
  ASSUME NEW S, NEW L \in Seq(S), NEW M \in Seq(S)
  PROVE  /\ L \o M \in Seq(S) /\ Len(L \o M) = Len(L) + Len(M) /\ Len(L) \in Nat /\ Len(M) \in Nat
         /\ \A i \in 1..Len(L) : (L \o M)[i] = L[i]
         /\ \A i \in Len(L) + 1..Len(L) + Len(M) : (L \o M)[i] = M[i - Len(L)]
OBVIOUS

LEMMA PlainIs ==
  ASSUME Checkpoint!CheckpointFileAssumption, NEW s \in SaveSet, s.pass = NoKey
  PROVE  LET W == Checkpoint!Plain(Cells(s)) IN AsWritten(s, W) /\ Len(W) = Len(Cells(s))
<1>1. Cells(s) \in Seq(CellSet) /\ Len(Cells(s)) \in Nat /\ DOMAIN Cells(s) = 1..Len(Cells(s))
  BY ArchiveIs
<1>2. PICK W : W = Checkpoint!Plain(Cells(s))
  OBVIOUS
<1>3. W = [i \in 1..Len(Cells(s)) |-> Checkpoint!Piece("plain", i - 1, <<>>, <<Cells(s)[i]>>)]
  BY <1>1, <1>2 DEF Checkpoint!Plain
<1>4. ASSUME NEW i \in 1..Len(Cells(s))
      PROVE  W[i] \in PieceSet /\ W[i].is = "whole" /\ \A changed \in BOOLEAN : PieceIs(s, W[i], i, changed)
  <2>1. PICK cells : cells = <<Cells(s)[i]>>
    OBVIOUS
  <2>2. cells \in Seq(CellSet)
    BY <1>1, <2>1
  <2>3. W[i] = [kind |-> "plain", index |-> i - 1, key |-> <<>>, cells |-> cells, is |-> "whole"]
    BY <1>3, <2>1 DEF Checkpoint!Piece
  <2>4. W[i] \in PieceSet
    BY <1>1, <2>2, <2>3 DEF PieceSet, StateKeys
  <2>5. W[i].kind = "plain" /\ W[i].is = "whole" /\ W[i].cells = <<Cells(s)[i]>> /\ i <= Len(Cells(s))
    BY <1>1, <2>1, <2>3
  <2> QED
    BY <2>4, <2>5 DEF PieceIs
<1>5. W \in Seq(PieceSet) /\ Len(W) = Len(Cells(s))
  BY <1>1, <1>3, <1>4
<1> QED
  BY <1>2, <1>4, <1>5 DEF AsWritten

LEMMA FramedIs ==
  ASSUME Checkpoint!CheckpointFileAssumption, NEW s \in SaveSet, s.pass # NoKey,
         NEW H \in Seq(PieceSet), Len(H) + 1 = Offset(s),
         \A i \in 1..Len(H) : H[i].is = "whole" /\ H[i].kind \notin {"plain", "frame"},
         IF s.by = 0 THEN H[1].kind = "oldMagic"
         ELSE H[1].kind = "magic" /\ H[2].kind = "salt" /\ H[2].index = s.by
  PROVE  AsWritten(s, H \o Checkpoint!Frames(Cells(s), Key(s)))
         /\ Framed(s, H \o Checkpoint!Frames(Cells(s), Key(s)))
<1>1. Key(s) \in StateKeys
  BY DEF Key, Checkpoint!StateKey, StateKeys, SaveSet
<1>2. PICK F : F = Checkpoint!Frames(Cells(s), Key(s))
  OBVIOUS
<1>3. /\ F \in Seq(PieceSet)
      /\ \A f \in Nat : f < Len(F) <=> f * FrameSize < Len(Cells(s))
      /\ \A i \in 1..Len(F) : /\ F[i].kind = "frame" /\ F[i].is = "whole" /\ F[i].index = i - 1 /\ F[i].key = Key(s)
                              /\ F[i].cells = SubSeq(Cells(s), (i - 1) * FrameSize + 1, UpTo(s, i))
  BY <1>1, <1>2, FramesAre
<1>4. PICK W : W = H \o F
  OBVIOUS
<1>5. /\ W \in Seq(PieceSet) /\ Len(W) = Len(H) + Len(F) /\ Len(H) \in Nat /\ Len(F) \in Nat
      /\ \A i \in 1..Len(H) : W[i] = H[i]
      /\ \A i \in Len(H) + 1..Len(H) + Len(F) : W[i] = F[i - Len(H)]
  <2>1. /\ H \o F \in Seq(PieceSet) /\ Len(H \o F) = Len(H) + Len(F) /\ Len(H) \in Nat /\ Len(F) \in Nat
        /\ \A i \in 1..Len(H) : (H \o F)[i] = H[i]
        /\ \A i \in Len(H) + 1..Len(H) + Len(F) : (H \o F)[i] = F[i - Len(H)]
    BY ONLY <1>3, H \in Seq(PieceSet), JoinedOf
  <2> QED
    BY <1>4, <2>1, Zenon
<1>6. Len(Cells(s)) \in Nat /\ Len(Cells(s)) > 0 /\ FrameSize \in Nat
  BY ArchiveIs DEF Checkpoint!CheckpointFileAssumption
<1>7. ASSUME NEW i \in 1..Len(F)
      PROVE  /\ (i - 1) * FrameSize < Len(Cells(s)) /\ i - 1 \in Nat
             /\ F[i].cells = SubSeq(Cells(s), F[i].index * FrameSize + 1, UpTo(s, F[i].index + 1))
  <2>1. i - 1 \in Nat /\ i - 1 < Len(F) /\ i - 1 + 1 = i
    BY <1>5
  <2> QED
    BY <1>3, <2>1
<1>8. \A i \in 1..Len(F) : \A j, changed : PieceIs(s, F[i], j, changed)
  BY <1>3, <1>7 DEF PieceIs
<1>9. \A i \in 1..Len(H) : \A j, changed : PieceIs(s, H[i], j, changed)
  BY DEF PieceIs
<1>10. AsWritten(s, W)
  <2> SUFFICES ASSUME NEW i \in 1..Len(W)
               PROVE  W[i].is = "whole" /\ \A changed \in BOOLEAN : PieceIs(s, W[i], i, changed)
    BY <1>5 DEF AsWritten
  <2>1. CASE i \in 1..Len(H)
    BY <1>5, <1>9, <2>1
  <2>2. CASE i \in Len(H) + 1..Len(H) + Len(F)
    <3>1. i - Len(H) \in 1..Len(F) /\ W[i] = F[i - Len(H)]
      BY <1>5, <2>2
    <3> QED
      BY <1>3, <1>8, <3>1, SMTT(30)
  <2> QED
    BY <1>5, <2>1, <2>2
<1>11. ASSUME NEW f \in Nat
       PROVE  /\ f + Offset(s) <= Len(W) <=> f * FrameSize < Len(Cells(s))
              /\ f + Offset(s) <= Len(W) =>
                   /\ W[f + Offset(s)].kind = "frame" /\ W[f + Offset(s)].index = f
                   /\ W[f + Offset(s)].key = Key(s)
  <2>1. f + Offset(s) <= Len(W) <=> f < Len(F)
    BY <1>5
  <2>2. ASSUME f < Len(F)
        PROVE  /\ W[f + Offset(s)].kind = "frame" /\ W[f + Offset(s)].index = f
               /\ W[f + Offset(s)].key = Key(s)
    <3>1. f + 1 \in 1..Len(F) /\ f + Offset(s) \in Len(H) + 1..Len(H) + Len(F)
      BY <1>5, <2>2
    <3>2. f + Offset(s) - Len(H) = f + 1
      BY <1>5
    <3>3. W[f + Offset(s)] = F[f + 1]
      BY <1>5, <3>1, <3>2
    <3>4. f + 1 - 1 = f
      OBVIOUS
    <3> QED
      BY <1>3, <3>1, <3>3, <3>4
  <2> QED
    BY <1>3, <2>1, <2>2
<1>12. Offset(s) <= Len(W)
  <2>1. 0 * FrameSize = 0 /\ 0 + Offset(s) = Offset(s)
    BY <1>5, <1>6
  <2> QED
    BY <1>6, <1>11, <2>1
<1>13. IF s.by = 0 THEN W[1].kind = "oldMagic"
       ELSE W[1].kind = "magic" /\ W[2].kind = "salt" /\ W[2].index = s.by
  <2>1. 1 \in 1..Len(H) /\ (s.by # 0 => 2 \in 1..Len(H))
    BY <1>5 DEF Offset
  <2> QED
    BY <1>5, <2>1
<1>14. Framed(s, W)
  BY <1>11, <1>12, <1>13 DEF Framed
<1> QED
  BY <1>2, <1>4, <1>10, <1>14

LEMMA WholeIs ==
  ASSUME Checkpoint!CheckpointFileAssumption, NEW s, Saved(s)
  PROVE  /\ AsWritten(s, Whole(s))
         /\ s # Checkpoint!Nothing /\ s.pass = NoKey => Len(Whole(s)) = Len(Cells(s))
         /\ s.pass # NoKey => Framed(s, Whole(s))
         /\ s = Checkpoint!Nothing => s.pass = NoKey /\ Len(Whole(s)) = 0
<1>1. s \in SaveSet /\ s.by \in Nat
  BY DEF Saved, SaveSet
<1>2. CASE s = Checkpoint!Nothing
  BY <1>2 DEF Whole, AsWritten, Checkpoint!Nothing
<1>3. CASE s # Checkpoint!Nothing /\ s.pass = NoKey
  <2>1. Whole(s) = Checkpoint!Plain(Cells(s))
    BY <1>3 DEF Whole, Saved, Checkpoint!Pieces, Cells
  <2> QED
    BY <1>1, <1>3, <2>1, PlainIs
<1>4. CASE s # Checkpoint!Nothing /\ s.pass # NoKey /\ s.by = 0
  <2>1. PICK p : p = Checkpoint!Piece("oldMagic", 0, <<>>, <<>>)
    OBVIOUS
  <2>2. p \in PieceSet /\ p.kind = "oldMagic" /\ p.is = "whole"
    BY <2>1 DEF Checkpoint!Piece, PieceSet, StateKeys
  <2>3. Whole(s) = <<p>> \o Checkpoint!Frames(Cells(s), Key(s))
    BY <1>4, <2>1 DEF Whole, Checkpoint!Legacy, Cells, Key
  <2>4. <<p>> \in Seq(PieceSet) /\ Len(<<p>>) = 1 /\ <<p>>[1] = p /\ \A i \in 1..Len(<<p>>) : <<p>>[i] = p
    BY <2>2
  <2>5. Len(<<p>>) + 1 = Offset(s)
    BY <1>4, <2>4 DEF Offset
  <2> QED
    BY <1>1, <1>4, <2>2, <2>3, <2>4, <2>5, FramedIs
<1>5. CASE s # Checkpoint!Nothing /\ s.pass # NoKey /\ s.by # 0
  <2>1. PICK p : p = Checkpoint!Piece("magic", 0, <<>>, <<>>)
    OBVIOUS
  <2>2. PICK q : q = Checkpoint!Piece("salt", s.by, <<>>, <<>>)
    OBVIOUS
  <2>3. p \in PieceSet /\ p.kind = "magic" /\ p.is = "whole"
    BY <2>1 DEF Checkpoint!Piece, PieceSet, StateKeys
  <2>4. q \in PieceSet /\ q.kind = "salt" /\ q.is = "whole" /\ q.index = s.by
    BY <1>1, <2>2 DEF Checkpoint!Piece, PieceSet, StateKeys
  <2>5. Whole(s) = <<p, q>> \o Checkpoint!Frames(Cells(s), Key(s))
    BY <1>5, <2>1, <2>2 DEF Whole, Checkpoint!Pieces, Cells, Key
  <2>6. /\ <<p, q>> \in Seq(PieceSet) /\ Len(<<p, q>>) = 2 /\ <<p, q>>[1] = p /\ <<p, q>>[2] = q
        /\ \A i \in 1..Len(<<p, q>>) : <<p, q>>[i] \in {p, q}
    BY <2>3, <2>4
  <2>7. Len(<<p, q>>) + 1 = Offset(s)
    BY <1>5, <2>6 DEF Offset
  <2>8. \A i \in 1..Len(<<p, q>>) : <<p, q>>[i].is = "whole" /\ <<p, q>>[i].kind \notin {"plain", "frame"}
    BY <2>3, <2>4, <2>6
  <2> QED
    BY <1>1, <1>5, <2>3, <2>4, <2>5, <2>6, <2>7, <2>8, FramedIs
<1> QED
  BY <1>2, <1>3, <1>4, <1>5

LEMMA Alike ==
  ASSUME NEW S, NEW a \in Seq(S), NEW b \in Seq(S), Len(a) = Len(b), \A i \in 1..Len(a) : a[i] = b[i]
  PROVE  a = b
OBVIOUS

(* What a reader holds is a stretch of the cells.                          *)
LEMMA Stretch ==
  ASSUME NEW S, NEW A \in Seq(S), NEW c \in Nat, NEW m \in Nat, c <= m, m <= Len(A)
  PROVE  /\ SubSeq(A, c + 1, m) \in Seq(S)
         /\ SubSeq(A, c + 1, m) = <<>> <=> c = m
         /\ c < m => Head(SubSeq(A, c + 1, m)) = A[c + 1] /\ Tail(SubSeq(A, c + 1, m)) = SubSeq(A, c + 2, m)
<1>1. /\ SubSeq(A, c + 1, m) \in Seq(S) /\ Len(SubSeq(A, c + 1, m)) = m - c
      /\ \A i \in 1..m - c : SubSeq(A, c + 1, m)[i] = A[c + i]
  OBVIOUS
<1>2. SubSeq(A, c + 1, m) = <<>> <=> c = m
  BY <1>1
<1>3. ASSUME c < m
      PROVE  Head(SubSeq(A, c + 1, m)) = A[c + 1] /\ Tail(SubSeq(A, c + 1, m)) = SubSeq(A, c + 2, m)
  <2>1. PICK B : B = SubSeq(A, c + 1, m)
    OBVIOUS
  <2>2. B \in Seq(S) /\ Len(B) = m - c /\ B # <<>> /\ \A i \in 1..m - c : B[i] = A[c + i]
    BY <1>1, <1>2, <1>3, <2>1
  <2>3. Head(B) = A[c + 1]
    BY <1>3, <2>2
  <2>4. Tail(B) \in Seq(S) /\ Len(Tail(B)) = Len(B) - 1 /\ \A i \in 1..Len(B) - 1 : Tail(B)[i] = B[i + 1]
    BY <2>2
  <2>5. SubSeq(A, c + 2, m) \in Seq(S) /\ Len(SubSeq(A, c + 2, m)) = m - c - 1
    BY <1>3
  <2>6. \A i \in 1..m - c - 1 : SubSeq(A, c + 2, m)[i] = A[c + 1 + i]
    BY <1>3
  <2>7. \A i \in 1..m - c - 1 : Tail(B)[i] = A[c + 1 + i]
    BY <2>2, <2>4
  <2>8. Tail(B) = SubSeq(A, c + 2, m)
    <3>1. PICK T : T = Tail(B)
      OBVIOUS
    <3>2. PICK D : D = SubSeq(A, c + 2, m)
      OBVIOUS
    <3>3. T \in Seq(S) /\ D \in Seq(S) /\ Len(T) = Len(D)
      BY <2>2, <2>4, <2>5, <3>1, <3>2
    <3>4. \A i \in 1..Len(T) : T[i] = D[i]
      BY <2>2, <2>4, <2>6, <2>7, <3>1, <3>2
    <3> QED
      BY <3>1, <3>2, <3>3, <3>4, Alike, Zenon
  <2> QED
    BY <2>1, <2>3, <2>8
<1> QED
  BY <1>1, <1>2, <1>3

LEMMA OneMore ==
  ASSUME NEW S, NEW A \in Seq(S), NEW c \in Nat, c < Len(A)
  PROVE  Append(SubSeq(A, 1, c), A[c + 1]) = SubSeq(A, 1, c + 1)
<1>1. /\ SubSeq(A, 1, c) \in Seq(S) /\ Len(SubSeq(A, 1, c)) = c
      /\ \A i \in 1..c : SubSeq(A, 1, c)[i] = A[i]
  OBVIOUS
<1>2. /\ SubSeq(A, 1, c + 1) \in Seq(S) /\ Len(SubSeq(A, 1, c + 1)) = c + 1
      /\ \A i \in 1..c + 1 : SubSeq(A, 1, c + 1)[i] = A[i]
  OBVIOUS
<1>3. PICK B : B = Append(SubSeq(A, 1, c), A[c + 1])
  OBVIOUS
<1>4. B \in Seq(S) /\ Len(B) = c + 1 /\ B[c + 1] = A[c + 1]
  BY <1>1, <1>3
<1>5. \A i \in 1..c : B[i] = A[i]
  BY <1>1, <1>3
<1>6. \A i \in 1..c + 1 : B[i] = SubSeq(A, 1, c + 1)[i]
  BY <1>2, <1>4, <1>5
<1> QED
  BY <1>2, <1>3, <1>4, <1>6

(* What is written next goes from one sequence to the end of the other.    *)
LEMMA PassedOn ==
  ASSUME NEW S, NEW f \in Seq(S), NEW p \in Seq(S), p # <<>>
  PROVE  /\ Head(p) \in S /\ Tail(p) \in Seq(S) /\ Append(f, Head(p)) \in Seq(S)
         /\ Append(f, Head(p)) \o Tail(p) = f \o p
         /\ Len(f) + 1 <= Len(f \o p) /\ (f \o p)[Len(f) + 1] = Head(p)
         /\ Len(f) \in Nat /\ Len(Append(f, Head(p))) = Len(f) + 1
OBVIOUS

LEMMA PieceAdded ==
  ASSUME NEW s, NEW f \in Seq(PieceSet), NEW changed, AllPieces(s, f, changed), NEW p \in PieceSet,
         PieceIs(s, p, Len(f) + 1, changed)
  PROVE  Append(f, p) \in Seq(PieceSet) /\ AllPieces(s, Append(f, p), changed)
<1>1. PICK g : g = Append(f, p)
  OBVIOUS
<1>2. g \in Seq(PieceSet) /\ Len(g) = Len(f) + 1 /\ g[Len(f) + 1] = p /\ Len(f) \in Nat
  BY <1>1
<1>3. \A i \in 1..Len(f) : g[i] = f[i]
  BY <1>1
<1>4. ASSUME NEW i \in 1..Len(g) PROVE PieceIs(s, g[i], i, changed)
  <2>1. i \in 1..Len(f) \/ i = Len(f) + 1
    BY <1>2
  <2> QED
    BY <1>2, <1>3, <2>1 DEF AllPieces
<1> QED
  BY <1>1, <1>2, <1>4 DEF AllPieces

LEMMA PieceChanges ==
  ASSUME NEW p \in PieceSet, NEW how \in {"part", "flipped"}
  PROVE  LET q == [p EXCEPT !.is = how] IN
           q \in PieceSet /\ q.is = how /\ q.kind = p.kind
BY DEF PieceSet

(* A piece that was cut, or changed in a file that was, says nothing.      *)
LEMMA CutPiece ==
  ASSUME NEW s, NEW i, NEW changed \in BOOLEAN, NEW p \in PieceSet, PieceIs(s, p, i, changed),
         NEW how \in {"part", "flipped"}, how = "flipped" => changed
  PROVE  PieceIs(s, [p EXCEPT !.is = how], i, changed)
<1>1. PICK q : q = [p EXCEPT !.is = how]
  OBVIOUS
<1>2. q.is = how /\ q.kind = p.kind
  BY <1>1, PieceChanges
<1>3. PieceIs(s, q, i, changed)
  BY <1>2 DEF PieceIs
<1> QED
  BY <1>1, <1>3

(* While nothing is read and nothing is shown, the reader's part holds.    *)
LEMMA NothingRead ==
  ASSUME ~reader.on, outcome = Checkpoint!NoOutcome
  PROVE  ReaderIs /\ ShownIs
BY Zenon DEF ReaderIs, ShownIs, Shows, Checkpoint!NoOutcome

LEMMA CheckpointSaves ==
  ASSUME Checkpoint!CheckpointFileAssumption, CheckpointState,
         NEW s \in Sessions, NEW seal \in BOOLEAN, NEW p \in Phrases \cup {NoKey}, Checkpoint!Save(s, seal, p)
  PROVE  CheckpointState'
<1>1. /\ CheckpointTypes /\ stored.by \in Nat /\ MaxSaves \in Nat /\ stored.by < MaxSaves
      /\ stored' = [session |-> s, seal |-> seal, pass |-> p, by |-> stored.by + 1]
      /\ ~reader.on /\ outcome = Checkpoint!NoOutcome
      /\ UNCHANGED <<weights, reader, outcome>> /\ damaged' = {} /\ file' = <<>>
      /\ pending' = Checkpoint!Pieces(stored', stored.by + 1)
  BY DEF CheckpointState, CheckpointTypes, Saved, SaveSet, Checkpoint!Save, Checkpoint!CheckpointFileAssumption
<1>2. stored'.by = stored.by + 1 /\ stored'.by # 0 /\ stored'.session = s /\ stored' # Checkpoint!Nothing
  BY <1>1 DEF Checkpoint!Nothing
<1>3. Saved(stored')
  <2>1. stored' \in SaveSet /\ stored'.by <= MaxSaves
    BY <1>1 DEF SaveSet
  <2> QED
    BY <1>2, <2>1 DEF Saved
<1>4. pending' = Whole(stored')
  BY <1>1, <1>2 DEF Whole
<1>5. pending' \in Seq(PieceSet)
  BY <1>3, <1>4, WholeIs DEF AsWritten
<1>6. CheckpointTypes'
  BY <1>1, <1>3, <1>5 DEF CheckpointTypes
<1>7. file' \o pending' = Whole(stored')
  BY <1>1, <1>4, <1>5
<1>8. FileIs'
  BY <1>1, <1>2, <1>7 DEF FileIs, AllPieces
<1> QED
  BY <1>1, <1>6, <1>8, Zenon DEF CheckpointState, ReaderIs, ShownIs, Shows, Checkpoint!NoOutcome

(* What a reader or an outcome says stays true while the file is written.  *)
LEMMA ReadingGoesOn ==
  ASSUME CheckpointState, UNCHANGED <<stored, weights, reader, outcome>>, pending # <<>>,
         damaged \subseteq damaged'
  PROVE  ReaderIs' /\ ShownIs'
<1>1. "flipped" \in damaged => "flipped" \in damaged'
  OBVIOUS
<1>2. ShownIs'
  <2>1. stored' = stored /\ weights' = weights /\ outcome' = outcome /\ ShownIs
    BY DEF CheckpointState
  <2> QED
    BY <1>1, <2>1, Zenon DEF ShownIs
<1>3. ReaderIs'
  <2> SUFFICES ASSUME reader.on PROVE ReaderIs'
    BY DEF ReaderIs
  <2>1. stored # Checkpoint!Nothing /\ reader.at >= 1 /\ ~reader.intact
    BY DEF CheckpointState, ReaderIs, Checkpoint!Intact
  <2>2. reader.key = <<>> <=> stored.pass = NoKey
    BY DEF CheckpointState, ReaderIs
  <2>3. stored.pass # NoKey \/ "flipped" \notin damaged => \E n \in Nat : Follows(stored, reader, weights, n)
    BY DEF CheckpointState, ReaderIs
  <2>4. stored.pass # NoKey \/ "flipped" \notin damaged' => \E n \in Nat : Follows(stored, reader, weights, n)
    BY <1>1, <2>3, Zenon
  <2> QED
    BY <2>1, <2>2, <2>4 DEF ReaderIs
<1> QED
  BY <1>2, <1>3

LEMMA CheckpointWrites ==
  ASSUME Checkpoint!CheckpointFileAssumption, CheckpointState, Checkpoint!WriteMore \/ Checkpoint!SaveStops
  PROVE  CheckpointState'
<1>1. /\ pending # <<>> /\ UNCHANGED <<stored, weights, reader, outcome>> /\ damaged = {}
      /\ file \o pending = Whole(stored) /\ file \in Seq(PieceSet) /\ pending \in Seq(PieceSet)
      /\ AllPieces(stored, file, FALSE) /\ Saved(stored)
  <2>1. pending # <<>> /\ UNCHANGED <<stored, weights, reader, outcome>>
    BY DEF Checkpoint!WriteMore, Checkpoint!SaveStops
  <2>2. CheckpointTypes /\ FileIs
    BY DEF CheckpointState
  <2>3. damaged = {} /\ file \o pending = Whole(stored) /\ AllPieces(stored, file, "flipped" \in damaged)
    BY <2>1, <2>2 DEF FileIs
  <2>4. ("flipped" \in damaged) = FALSE
    BY <2>3
  <2> QED
    BY <2>1, <2>2, <2>3, <2>4 DEF CheckpointTypes
<1>2. PICK p : p = Head(pending)
  OBVIOUS
<1>3. /\ p \in PieceSet /\ Tail(pending) \in Seq(PieceSet) /\ Append(file, p) \o Tail(pending) = Whole(stored)
      /\ p = Whole(stored)[Len(file) + 1] /\ Len(file) + 1 \in 1..Len(Whole(stored))
  <2>1. /\ Append(file, p) \o Tail(pending) = file \o pending /\ p \in PieceSet /\ Tail(pending) \in Seq(PieceSet)
        /\ (file \o pending)[Len(file) + 1] = p /\ Len(file) + 1 <= Len(file \o pending) /\ Len(file) \in Nat
    <3>1. /\ Append(file, Head(pending)) \o Tail(pending) = file \o pending /\ Head(pending) \in PieceSet
          /\ Tail(pending) \in Seq(PieceSet) /\ (file \o pending)[Len(file) + 1] = Head(pending)
          /\ Len(file) + 1 <= Len(file \o pending) /\ Len(file) \in Nat
      BY ONLY <1>1, PassedOn, ZenonT(40)
    <3> QED
      BY ONLY <1>2, <3>1, Zenon
  <2>2. Len(Whole(stored)) \in Nat
    BY <1>1, WholeIs DEF AsWritten
  <2> QED
    BY <1>1, <2>1, <2>2
<1>4. PieceIs(stored, p, Len(file) + 1, FALSE) /\ Len(file) \in Nat
  <2>1. AsWritten(stored, Whole(stored)) /\ FALSE \in BOOLEAN
    BY <1>1, WholeIs
  <2>2. PieceIs(stored, Whole(stored)[Len(file) + 1], Len(file) + 1, FALSE)
    BY <1>3, <2>1, Zenon DEF AsWritten
  <2>3. PieceIs(stored, p, Len(file) + 1, FALSE)
    BY <1>3, <2>2, Zenon
  <2>4. Len(file) \in Nat
    BY <1>1
  <2> QED
    BY <2>3, <2>4, Zenon
<1>5. stored # Checkpoint!Nothing
  <2>1. Len(Whole(stored)) # 0
    BY <1>1, <1>3, <1>4
  <2> QED
    BY <1>1, <2>1, WholeIs
<1>6. damaged' \subseteq {"cut"} /\ ("flipped" \in damaged') = FALSE
  BY <1>1 DEF Checkpoint!WriteMore, Checkpoint!SaveStops
<1>7. CASE Checkpoint!WriteMore
  <2>1. file' = Append(file, p) /\ pending' = Tail(pending) /\ damaged' = {}
    BY <1>1, <1>2, <1>7 DEF Checkpoint!WriteMore
  <2>2. file' \in Seq(PieceSet) /\ AllPieces(stored, file', FALSE)
    BY <1>1, <1>3, <1>4, <2>1, PieceAdded
  <2>3. FileIs'
    BY <1>1, <1>3, <1>5, <1>6, <2>1, <2>2 DEF FileIs
  <2>4. CheckpointTypes'
    BY <1>1, <1>3, <2>1, <2>2 DEF CheckpointState, CheckpointTypes
  <2> QED
    BY <1>1, <1>6, <2>3, <2>4, ReadingGoesOn DEF CheckpointState
<1>8. CASE Checkpoint!SaveStops
  <2>1. /\ file' = file \/ file' = Append(file, [p EXCEPT !.is = "part"])
        /\ pending' = <<>> /\ damaged' = {"cut"}
    BY <1>1, <1>2, <1>8 DEF Checkpoint!SaveStops
  <2>2. PICK q : q = [p EXCEPT !.is = "part"]
    OBVIOUS
  <2>3. q \in PieceSet /\ PieceIs(stored, q, Len(file) + 1, FALSE)
    BY <1>3, <1>4, <2>2, PieceChanges, CutPiece
  <2>4. file' \in Seq(PieceSet) /\ AllPieces(stored, file', FALSE)
    BY <1>1, <2>1, <2>2, <2>3, PieceAdded
  <2>5. FileIs'
    BY <1>1, <1>5, <1>6, <2>1, <2>4 DEF FileIs
  <2>6. CheckpointTypes'
    BY <1>1, <2>1, <2>4 DEF CheckpointState, CheckpointTypes
  <2> QED
    BY <1>1, <1>6, <2>5, <2>6, ReadingGoesOn DEF CheckpointState
<1> QED
  BY <1>7, <1>8

LEMMA FirstPieces ==
  ASSUME NEW s, NEW W, AsWritten(s, W), NEW i \in 1..Len(W)
  PROVE  LET f == SubSeq(W, 1, i - 1) IN
           f \in Seq(PieceSet) /\ Len(f) = i - 1 /\ AllPieces(s, f, FALSE)
<1>1. W \in Seq(PieceSet) /\ \A k \in 1..Len(W) : PieceIs(s, W[k], k, FALSE)
  BY Zenon DEF AsWritten
<1>2. PICK f : f = SubSeq(W, 1, i - 1)
  OBVIOUS
<1>3. /\ f \in Seq(PieceSet) /\ Len(f) = i - 1
      /\ \A k \in 1..i - 1 : f[k] = W[k] /\ k \in 1..Len(W)
  BY <1>1, <1>2
<1>4. AllPieces(s, f, FALSE)
  BY <1>1, <1>3 DEF AllPieces
<1> QED
  BY <1>2, <1>3, <1>4

(* The pieces of an encrypted file know their place.                       *)
LEMMA InAnyPlace ==
  ASSUME NEW s, s.pass # NoKey, NEW W, AsWritten(s, W), NEW f \in Seq(PieceSet),
         \A k \in 1..Len(f) : \E j \in 1..Len(W) : f[k] = W[j]
  PROVE  AllPieces(s, f, FALSE)
<1> SUFFICES ASSUME NEW k \in 1..Len(f) PROVE PieceIs(s, f[k], k, FALSE)
  BY DEF AllPieces
<1>1. PICK j \in 1..Len(W) : f[k] = W[j]
  OBVIOUS
<1>2. PieceIs(s, W[j], j, FALSE)
  BY Zenon DEF AsWritten
<1> QED
  BY <1>1, <1>2 DEF PieceIs

LEMMA InTheRest ==
  ASSUME NEW L \in Nat, NEW i \in 1..L, NEW k \in Nat, ~(k <= i - 1), NEW a, NEW b, a = i - 1, b = L - i, k <= a + b
  PROVE  k \in a + 1..a + b /\ k - (i - 1) \in 1..L - i
OBVIOUS

LEMMA CheckpointCarried ==
  ASSUME Checkpoint!CheckpointFileAssumption, CheckpointState, Checkpoint!Carry
  PROVE  CheckpointState'
<1>1. /\ pending = <<>> /\ ~reader.on /\ outcome = Checkpoint!NoOutcome /\ damaged = {}
      /\ UNCHANGED <<pending, stored, weights, reader, outcome>>
      /\ CheckpointTypes /\ FileIs /\ Saved(stored) /\ file \in Seq(PieceSet)
  BY DEF CheckpointState, CheckpointTypes, Checkpoint!Carry
<1>2. file = Whole(stored)
  <2>1. file \o pending = Whole(stored)
    BY <1>1 DEF FileIs
  <2>2. file \o pending = file
    BY <1>1
  <2> QED
    BY <2>1, <2>2, Zenon
<1>3. AsWritten(stored, file)
  <2>1. AsWritten(stored, Whole(stored))
    BY <1>1, WholeIs
  <2> QED
    BY <1>2, <2>1, Zenon
<1>4. PICK i \in DOMAIN file :
       \/ Checkpoint!Happens("cut", SubSeq(file, 1, i - 1))
       \/ Checkpoint!Happens("cut", Append(SubSeq(file, 1, i - 1), [file[i] EXCEPT !.is = "part"]))
       \/ Checkpoint!Happens("flipped", [file EXCEPT ![i].is = "flipped"])
       \/ /\ file[i].kind = "frame"
          /\ \/ Checkpoint!Happens("mixed", SubSeq(file, 1, i - 1) \o SubSeq(file, i + 1, Len(file)))
             \/ \E j \in i + 1 .. Len(file) :
                  Checkpoint!Happens("mixed", [file EXCEPT ![i] = file[j], ![j] = file[i]])
  BY DEF Checkpoint!Carry
<1>5. i \in 1..Len(file) /\ i \in Nat /\ Len(file) \in Nat /\ file[i] \in PieceSet
  BY <1>1
<1>6. stored # Checkpoint!Nothing
  <2>1. Len(Whole(stored)) # 0
    BY <1>2, <1>5
  <2> QED
    BY <1>1, <2>1, WholeIs
<1>7. \A k \in 1..Len(file), changed \in BOOLEAN : PieceIs(stored, file[k], k, changed)
  BY <1>3, Zenon DEF AsWritten
<1>8. PICK f : f = SubSeq(file, 1, i - 1)
  OBVIOUS
<1>9. f \in Seq(PieceSet) /\ Len(f) = i - 1 /\ AllPieces(stored, f, FALSE)
  BY <1>3, <1>5, <1>8, FirstPieces
<1>10. SUFFICES \E kind \in {"cut", "flipped", "mixed"}, to \in Seq(PieceSet), changed \in BOOLEAN :
         Checkpoint!Happens(kind, to) /\ changed = (kind = "flipped") /\ AllPieces(stored, to, changed)
  <2>1. PICK kind \in {"cut", "flipped", "mixed"}, to \in Seq(PieceSet), changed \in BOOLEAN :
          Checkpoint!Happens(kind, to) /\ changed = (kind = "flipped") /\ AllPieces(stored, to, changed)
    BY <1>10
  <2>2. file' = to /\ damaged' = {kind}
    BY <1>1, <2>1 DEF Checkpoint!Happens
  <2>3. CheckpointTypes'
    BY <1>1, <2>1, <2>2 DEF CheckpointTypes
  <2>4. ("flipped" \in damaged') = changed
    BY <2>1, <2>2
  <2>5. AllPieces(stored', file', "flipped" \in damaged')
    BY <1>1, <2>1, <2>2, <2>4, Zenon
  <2>6. FileIs'
    BY <1>1, <1>6, <2>2, <2>5 DEF FileIs
  <2>7. ReaderIs' /\ ShownIs'
    BY <1>1, Zenon DEF ReaderIs, ShownIs, Shows, Checkpoint!NoOutcome
  <2> QED
    BY <2>3, <2>6, <2>7 DEF CheckpointState
<1>11. CASE Checkpoint!Happens("cut", SubSeq(file, 1, i - 1))
  BY <1>8, <1>9, <1>11
<1>12. CASE Checkpoint!Happens("cut", Append(SubSeq(file, 1, i - 1), [file[i] EXCEPT !.is = "part"]))
  <2>1. PICK q : q = [file[i] EXCEPT !.is = "part"]
    OBVIOUS
  <2>2. q \in PieceSet /\ PieceIs(stored, q, i, FALSE)
    BY <1>5, <1>7, <2>1, PieceChanges, CutPiece
  <2>3. Len(f) + 1 = i
    BY <1>5, <1>9
  <2>4. Append(f, q) \in Seq(PieceSet) /\ AllPieces(stored, Append(f, q), FALSE)
    BY <1>9, <2>2, <2>3, PieceAdded
  <2> QED
    BY <1>8, <1>12, <2>1, <2>4
<1>13. CASE Checkpoint!Happens("flipped", [file EXCEPT ![i].is = "flipped"])
  <2>1. PICK q : q = [file[i] EXCEPT !.is = "flipped"]
    OBVIOUS
  <2>2. q \in PieceSet /\ PieceIs(stored, q, i, TRUE)
    BY <1>5, <1>7, <2>1, PieceChanges, CutPiece
  <2>3. PICK g : g = [file EXCEPT ![i].is = "flipped"]
    OBVIOUS
  <2>4. g = [file EXCEPT ![i] = q]
    BY <2>1, <2>3
  <2>5. g \in Seq(PieceSet) /\ Len(g) = Len(file) /\ g[i] = q /\ \A k \in 1..Len(file) : k # i => g[k] = file[k]
    BY <1>1, <1>5, <2>2, <2>4
  <2>6. AllPieces(stored, g, TRUE)
    BY <1>7, <2>2, <2>5 DEF AllPieces
  <2> QED
    BY <1>13, <2>3, <2>5, <2>6
<1>14. ASSUME file[i].kind = "frame" PROVE stored.pass # NoKey
  BY <1>5, <1>7, <1>14 DEF PieceIs
<1>15. CASE /\ file[i].kind = "frame"
            /\ Checkpoint!Happens("mixed", SubSeq(file, 1, i - 1) \o SubSeq(file, i + 1, Len(file)))
  <2>1. PICK e : e = SubSeq(file, i + 1, Len(file))
    OBVIOUS
  <2>2. e \in Seq(PieceSet) /\ Len(e) = Len(file) - i /\ \A k \in 1..Len(file) - i : e[k] = file[i + k]
    BY <1>1, <1>5, <2>1
  <2>3. \A k \in 1..i - 1 : f[k] = file[k]
    BY <1>1, <1>5, <1>8
  <2>4. PICK g : g = f \o e
    OBVIOUS
  <2>5. /\ g \in Seq(PieceSet) /\ Len(g) = Len(f) + Len(e)
        /\ \A k \in 1..Len(f) : g[k] = f[k]
        /\ \A k \in Len(f) + 1..Len(f) + Len(e) : g[k] = e[k - Len(f)]
    BY <1>9, <2>2, <2>4, JoinedOf
  <2>6. ASSUME NEW k \in 1..Len(g) PROVE \E j \in 1..Len(file) : g[k] = file[j]
    <3>1. CASE k <= i - 1
      <4>1. g[k] = file[k] /\ k \in 1..Len(file)
        BY <1>5, <1>9, <2>3, <2>5, <3>1
      <4> QED
        BY <4>1
    <3>2. CASE ~(k <= i - 1)
      <4>1. g[k] = e[k - (i - 1)] /\ k - (i - 1) \in 1..Len(file) - i
        <5>1. k \in Nat /\ k <= Len(f) + Len(e) /\ Len(f) = i - 1 /\ Len(e) = Len(file) - i
          BY <1>9, <2>2, <2>5
        <5>2. k \in Len(f) + 1..Len(f) + Len(e) /\ k - (i - 1) \in 1..Len(file) - i
          BY <1>5, <3>2, <5>1, InTheRest
        <5> QED
          BY <2>5, <5>1, <5>2
      <4>2. e[k - (i - 1)] = file[i + (k - (i - 1))] /\ i + (k - (i - 1)) \in 1..Len(file)
        BY <1>5, <2>2, <4>1, SMTT(30)
      <4> QED
        BY <4>1, <4>2
    <3> QED
      BY <3>1, <3>2
  <2>7. AllPieces(stored, g, FALSE)
    BY <1>3, <1>14, <1>15, <2>5, <2>6, InAnyPlace, Zenon
  <2> QED
    BY <1>8, <1>15, <2>1, <2>4, <2>5, <2>7
<1>16. CASE /\ file[i].kind = "frame"
            /\ \E j \in i + 1 .. Len(file) :
                 Checkpoint!Happens("mixed", [file EXCEPT ![i] = file[j], ![j] = file[i]])
  <2>1. PICK j \in i + 1 .. Len(file) :
          Checkpoint!Happens("mixed", [file EXCEPT ![i] = file[j], ![j] = file[i]])
    BY <1>16
  <2>2. PICK h : h = [file EXCEPT ![i] = file[j]]
    OBVIOUS
  <2>3. PICK g : g = [file EXCEPT ![i] = file[j], ![j] = file[i]]
    OBVIOUS
  <2>4. g = [h EXCEPT ![j] = file[i]]
    BY <2>2, <2>3
  <2>5. j \in 1..Len(file) /\ file[j] \in PieceSet
    BY <1>1, <1>5
  <2>6. h \in Seq(PieceSet) /\ Len(h) = Len(file) /\ \A k \in 1..Len(file) : h[k] \in {file[k], file[j]}
    BY <1>1, <1>5, <2>2, <2>5
  <2>7. g \in Seq(PieceSet) /\ Len(g) = Len(file) /\ \A k \in 1..Len(file) : g[k] \in {h[k], file[i]}
    BY <1>5, <2>4, <2>5, <2>6
  <2>8. \A k \in 1..Len(g) : \E l \in 1..Len(file) : g[k] = file[l]
    BY <1>5, <2>5, <2>6, <2>7
  <2>9. AllPieces(stored, g, FALSE)
    BY <1>3, <1>14, <1>16, <2>7, <2>8, InAnyPlace
  <2> QED
    BY <2>1, <2>3, <2>7, <2>9
<1> QED
  BY <1>4, <1>11, <1>12, <1>13, <1>15, <1>16

LEMMA NothingTaken ==
  ASSUME Checkpoint!CheckpointFileAssumption, NEW s \in SaveSet, NEW r, NEW out,
         r.buf = <<>>, r.got = [e \in {} |-> Other], r.extracts = FALSE, Reach(s, r) = 0
  PROVE  Follows(s, r, out, 0)
<1>1. Cells(s) \in Seq(CellSet) /\ WeightCells(s) \in Nat /\ Len(Cells(s)) = WeightCells(s) + 6
  BY ArchiveIs
<1>2. SubSeq(Cells(s), 0 + 1, 0) = <<>>
  <2>1. 0 \in Nat /\ 0 <= Len(Cells(s))
    BY <1>1
  <2> QED
    BY <1>1, <2>1, Stretch
<1>3. PICK D : D = {Cells(s)[k].entry : k \in 1..0} \cap Entry4
  OBVIOUS
<1>4. D = {}
  BY <1>3
<1>5. [e \in {} |-> Other] = [e \in D |-> s.session]
  BY <1>4
<1>6. 0 <= Reach(s, r) /\ Reach(s, r) <= Len(Cells(s)) /\ 0 <= 4 + WeightCells(s)
  BY <1>1
<1>7. r.buf = SubSeq(Cells(s), 0 + 1, Reach(s, r))
  BY <1>2, Zenon
<1>8. r.got = [e \in {Cells(s)[k].entry : k \in 1..0} \cap Entry4 |-> s.session]
  BY <1>3, <1>5, Zenon
<1>9. (r.extracts <=> 0 > 4) /\ (r.extracts => out = SubSeq(Weights, 1, 0 - 4))
  OBVIOUS
<1> QED
  BY <1>6, <1>7, <1>8, <1>9, Zenon DEF Follows

LEMMA CheckpointOpensPlain ==
  ASSUME Checkpoint!CheckpointFileAssumption, CheckpointState, NEW all_ \in BOOLEAN, Checkpoint!OpenPlain(all_)
  PROVE  CheckpointState'
<1>1. /\ ~reader.on /\ outcome = Checkpoint!NoOutcome
      /\ UNCHANGED <<file, pending, stored, damaged, weights, outcome>>
      /\ file # <<>> /\ file[1].kind = "plain" /\ file \in Seq(PieceSet)
      /\ CheckpointTypes /\ FileIs /\ Saved(stored) /\ stored \in SaveSet
  BY DEF CheckpointState, CheckpointTypes, Saved, Checkpoint!OpenPlain, Checkpoint!Starts
<1>2. /\ reader'.on = TRUE /\ reader'.intact = Checkpoint!Intact /\ reader'.at = 1 /\ reader'.key = <<>>
      /\ reader'.frames = 0 /\ reader'.buf = <<>> /\ reader'.got = [e \in {} |-> Other]
      /\ reader'.extracts = FALSE /\ DOMAIN reader' = ReaderFields
  BY DEF Checkpoint!OpenPlain, Checkpoint!Nowhere, ReaderFields
<1>3. 1 \in 1..Len(file) /\ Len(file) # 0
  BY <1>1
<1>4. stored.pass = NoKey
  <2>1. PieceIs(stored, file[1], 1, "flipped" \in damaged)
    BY <1>1, <1>3, Zenon DEF FileIs, AllPieces
  <2> QED
    BY <1>1, <2>1 DEF PieceIs
<1>5. stored # Checkpoint!Nothing
  <2> SUFFICES ASSUME stored = Checkpoint!Nothing PROVE FALSE
    OBVIOUS
  <2>1. file \o pending = Whole(stored) /\ pending \in Seq(PieceSet)
    BY <1>1 DEF FileIs, CheckpointTypes
  <2>2. Len(file \o pending) # 0
    BY <1>1, <1>3, <2>1
  <2> QED
    BY <1>1, <2>1, <2>2, WholeIs
<1>6. Follows(stored, reader', weights, 0)
  <2>1. Reach(stored, reader') = 0
    BY <1>2 DEF Reach
  <2> QED
    BY <1>1, <1>2, <2>1, NothingTaken
<1>7. ReaderIs'
  <2>1. \E n \in Nat : Follows(stored', reader', weights', n)
    <3>1. Follows(stored', reader', weights', 0) /\ 0 \in Nat
      BY <1>1, <1>6
    <3> QED
      BY <3>1, Zenon
  <2>2. reader'.intact => Checkpoint!Intact'
    BY <1>1, <1>2 DEF Checkpoint!Intact, Checkpoint!Nothing
  <2> QED
    BY <1>1, <1>2, <1>4, <1>5, <2>1, <2>2 DEF ReaderIs
<1>8. CheckpointTypes'
  <2>1. reader'.on \in BOOLEAN /\ reader'.extracts \in BOOLEAN
    BY <1>2, Zenon
  <2>2. reader'.at \in Nat /\ reader'.frames \in Nat /\ reader'.buf \in Seq(CellSet) /\ reader'.key \in StateKeys
    BY <1>2 DEF StateKeys
  <2> QED
    BY <1>1, <1>2, <2>1, <2>2 DEF CheckpointTypes
<1>9. FileIs' /\ ShownIs'
  BY <1>1, Zenon DEF CheckpointState, FileIs, ShownIs, Shows, Checkpoint!NoOutcome
<1> QED
  BY <1>7, <1>8, <1>9 DEF CheckpointState

(* An intact file is what the save wrote.                                  *)
LEMMA IntactFile ==
  ASSUME Checkpoint!CheckpointFileAssumption, CheckpointTypes, FileIs, Checkpoint!Intact
  PROVE  /\ AsWritten(stored, file) /\ stored # Checkpoint!Nothing /\ damaged = {}
         /\ stored.pass = NoKey => Len(file) = Len(Cells(stored))
         /\ stored.pass # NoKey => Framed(stored, file)
<1>1. pending = <<>> /\ damaged = {} /\ stored # Checkpoint!Nothing /\ file \in Seq(PieceSet) /\ Saved(stored)
  BY DEF Checkpoint!Intact, CheckpointTypes
<1>2. file = Whole(stored)
  <2>1. file \o pending = Whole(stored)
    BY <1>1 DEF FileIs
  <2>2. file \o pending = file
    BY <1>1
  <2> QED
    BY <2>1, <2>2, Zenon
<1>3. /\ AsWritten(stored, Whole(stored))
      /\ stored # Checkpoint!Nothing /\ stored.pass = NoKey => Len(Whole(stored)) = Len(Cells(stored))
      /\ stored.pass # NoKey => Framed(stored, Whole(stored))
  BY <1>1, WholeIs
<1> QED
  BY <1>1, <1>2, <1>3, Zenon

LEMMA WholePieces ==
  ASSUME NEW s, NEW W, AsWritten(s, W), NEW i \in 1..Len(W)
  PROVE  W[i] \in PieceSet /\ W[i].is = "whole" /\ PieceIs(s, W[i], i, FALSE)
<1>1. W \in Seq(PieceSet) /\ W[i].is = "whole" /\ PieceIs(s, W[i], i, FALSE)
  BY Zenon DEF AsWritten
<1>2. W[i] \in PieceSet
  BY <1>1
<1> QED
  BY <1>1, <1>2, Zenon

LEMMA SaltIs ==
  ASSUME Checkpoint!CheckpointFileAssumption, CheckpointTypes, Checkpoint!Encrypted, ~Checkpoint!SaltMissing
  PROVE  Checkpoint!SaltRead \in Nat
<1>1. CASE ~Checkpoint!Salted
  BY <1>1 DEF Checkpoint!SaltRead
<1>2. CASE Checkpoint!Salted
  <2>1. Len(file) >= 2 /\ file \in Seq(PieceSet) /\ MaxSaves \in Nat
    BY <1>2 DEF Checkpoint!SaltMissing, CheckpointTypes, Checkpoint!CheckpointFileAssumption
  <2>2. file[2] \in PieceSet
    BY <2>1
  <2>3. file[2].index \in Nat
    BY <2>2 DEF PieceSet
  <2> QED
    BY <1>2, <2>1, <2>3 DEF Checkpoint!SaltRead
<1> QED
  BY <1>1, <1>2

(* What an intact encrypted file begins with.                              *)
LEMMA IntactHeader ==
  ASSUME Checkpoint!CheckpointFileAssumption, CheckpointTypes, FileIs, Checkpoint!Intact, stored.pass # NoKey
  PROVE  /\ Checkpoint!Encrypted /\ ~Checkpoint!SaltMissing
         /\ Checkpoint!SaltRead = stored.by /\ (IF Checkpoint!Salted THEN 3 ELSE 2) = Offset(stored)
<1>1. AsWritten(stored, file) /\ Framed(stored, file) /\ file \in Seq(PieceSet) /\ Len(file) \in Nat
  BY IntactFile DEF CheckpointTypes
<1>2. Offset(stored) \in {2, 3} /\ Offset(stored) <= Len(file)
  BY <1>1 DEF Offset, Framed
<1>3. 1 \in 1..Len(file) /\ 2 \in 1..Len(file) /\ Len(file) >= 2 /\ file # <<>>
  BY <1>1, <1>2
<1>4. file[1].is = "whole" /\ file[2].is = "whole"
  BY <1>1, <1>3, WholePieces
<1>5. CASE stored.by = 0
  <2>1. file[1].kind = "oldMagic"
    BY <1>1, <1>5 DEF Framed
  <2>2. Checkpoint!Encrypted /\ ~Checkpoint!Salted
    BY <1>3, <1>4, <2>1 DEF Checkpoint!Encrypted, Checkpoint!Salted, Checkpoint!Starts
  <2> QED
    BY <1>5, <2>2 DEF Checkpoint!SaltMissing, Checkpoint!SaltRead, Offset
<1>6. CASE stored.by # 0
  <2>1. file[1].kind = "magic" /\ file[2].index = stored.by
    BY <1>1, <1>6 DEF Framed
  <2>2. Checkpoint!Encrypted /\ Checkpoint!Salted
    BY <1>3, <1>4, <2>1 DEF Checkpoint!Encrypted, Checkpoint!Salted, Checkpoint!Starts
  <2> QED
    BY <1>3, <1>4, <1>6, <2>1, <2>2 DEF Checkpoint!SaltMissing, Checkpoint!SaltRead, Offset
<1> QED
  BY <1>5, <1>6

LEMMA CheckpointOpensEncrypted ==
  ASSUME Checkpoint!CheckpointFileAssumption, CheckpointState, NEW key \in Phrases \cup {NoKey},
         NEW all_ \in BOOLEAN, Checkpoint!OpenEncrypted(key, all_)
  PROVE  CheckpointState'
<1>1. /\ ~reader.on /\ outcome = Checkpoint!NoOutcome /\ key # NoKey
      /\ UNCHANGED <<file, pending, stored, damaged, weights, outcome>>
      /\ Checkpoint!Encrypted /\ ~Checkpoint!SaltMissing
      /\ CheckpointTypes /\ FileIs /\ Saved(stored) /\ stored \in SaveSet
  BY DEF CheckpointState, CheckpointTypes, Saved, Checkpoint!OpenEncrypted
<1>2. /\ reader'.on = TRUE /\ reader'.intact = Checkpoint!Intact
      /\ reader'.at = (IF Checkpoint!Salted THEN 3 ELSE 2)
      /\ reader'.key = <<key, Checkpoint!SaltRead>>
      /\ reader'.frames = 0 /\ reader'.buf = <<>> /\ reader'.got = [e \in {} |-> Other]
      /\ reader'.extracts = FALSE /\ DOMAIN reader' = ReaderFields
  BY DEF Checkpoint!OpenEncrypted, Checkpoint!Nowhere, Checkpoint!StateKey, ReaderFields
<1>3. file \in Seq(PieceSet) /\ 1 \in 1..Len(file) /\ file[1].kind \in {"magic", "oldMagic"}
  BY <1>1 DEF Checkpoint!Encrypted, Checkpoint!Starts, CheckpointTypes
<1>4. stored.pass # NoKey /\ stored # Checkpoint!Nothing
  <2>1. PieceIs(stored, file[1], 1, "flipped" \in damaged)
    BY <1>1, <1>3, Zenon DEF FileIs, AllPieces
  <2> QED
    BY <1>3, <2>1 DEF PieceIs, Checkpoint!Nothing
<1>5. reader'.key \in StateKeys /\ reader'.key # <<>> /\ reader'.key[1] = key /\ reader'.key[2] = Checkpoint!SaltRead
  BY <1>1, <1>2, SaltIs DEF StateKeys
<1>6. Follows(stored, reader', weights, 0)
  <2>1. UpTo(stored, 0) = 0
    <3>1. 0 * FrameSize = 0
      BY DEF Checkpoint!CheckpointFileAssumption
    <3>2. 0 < Len(Cells(stored))
      BY <1>1, ArchiveIs
    <3> QED
      BY <3>1, <3>2 DEF UpTo
  <2>2. Reach(stored, reader') = 0
    BY <1>2, <1>5, <2>1 DEF Reach
  <2> QED
    BY <1>1, <1>2, <2>2, NothingTaken
<1>7. ReaderIs'
  <2>1. \E n \in Nat : Follows(stored', reader', weights', n)
    <3>1. Follows(stored', reader', weights', 0) /\ 0 \in Nat
      BY <1>1, <1>6
    <3> QED
      BY <3>1, Zenon
  <2>2. reader'.intact => Checkpoint!Intact'
    BY <1>1, <1>2 DEF Checkpoint!Intact, Checkpoint!Nothing
  <2>3. ASSUME reader'.intact
        PROVE  reader'.key[2] = stored.by /\ reader'.at = reader'.frames + Offset(stored)
    <3>1. Checkpoint!Intact
      BY <1>2, <2>3
    <3>2. Checkpoint!SaltRead = stored.by /\ (IF Checkpoint!Salted THEN 3 ELSE 2) = Offset(stored)
      BY <1>1, <1>4, <3>1, IntactHeader
    <3> QED
      BY <1>2, <1>5, <3>2 DEF Offset
  <2>4. reader'.at >= 1 /\ stored' = stored /\ (reader'.key = <<>> <=> stored.pass = NoKey)
    BY <1>1, <1>2, <1>4, <1>5
  <2> QED
    BY <1>1, <1>2, <1>4, <1>5, <2>1, <2>2, <2>3, <2>4 DEF ReaderIs
<1>8. CheckpointTypes'
  <2>1. reader'.on \in BOOLEAN /\ reader'.extracts \in BOOLEAN
    BY <1>2, Zenon
  <2>2. reader'.at \in Nat /\ reader'.frames \in Nat /\ reader'.buf \in Seq(CellSet)
    BY <1>2
  <2> QED
    BY <1>1, <1>2, <1>5, <2>1, <2>2 DEF CheckpointTypes
<1>9. FileIs' /\ ShownIs'
  BY <1>1, Zenon DEF CheckpointState, FileIs, ShownIs, Shows, Checkpoint!NoOutcome
<1> QED
  BY <1>7, <1>8, <1>9 DEF CheckpointState

LEMMA CheckpointRefused ==
  ASSUME Checkpoint!CheckpointFileAssumption, CheckpointState, NEW key \in Phrases \cup {NoKey},
         Checkpoint!OpenFails(key)
  PROVE  CheckpointState'
<1>1. /\ ~reader.on /\ UNCHANGED <<file, pending, stored, damaged, weights, reader>>
      /\ CheckpointTypes /\ FileIs /\ Saved(stored) /\ stored \in SaveSet
  BY Zenon DEF CheckpointState, CheckpointTypes, Saved, Checkpoint!OpenFails
<1>2. PICK why : outcome' = Checkpoint!Refused(why, key)
  BY Zenon DEF Checkpoint!OpenFails
<1>3. outcome'.is = "refused" /\ outcome'.with = key /\ outcome'.why = why /\ outcome'.intact = Checkpoint!Intact
  BY <1>2 DEF Checkpoint!Refused
<1>4. ASSUME Checkpoint!Intact PROVE stored.pass # NoKey /\ key = NoKey /\ why = "no key"
  <2>1. AsWritten(stored, file) /\ stored # Checkpoint!Nothing /\ file \in Seq(PieceSet)
    BY <1>1, <1>4, IntactFile DEF CheckpointTypes
  <2>2. CASE stored.pass = NoKey
    <3>1. Len(file) >= 1
      BY <1>1, <1>4, <2>2, IntactFile, ArchiveIs
    <3>2. file[1].is = "whole" /\ file[1].kind = "plain" /\ file # <<>>
      <4>1. 1 \in 1..Len(file)
        BY <2>1, <3>1
      <4> QED
        BY <2>1, <2>2, <4>1, WholePieces DEF PieceIs
    <3>3. Checkpoint!Starts({"plain"}) /\ ~Checkpoint!Encrypted
      BY <3>2 DEF Checkpoint!Starts, Checkpoint!Encrypted
    <3> QED
      BY <3>3, Zenon DEF Checkpoint!OpenFails, Checkpoint!SaltMissing, Checkpoint!Salted
  <2>3. CASE stored.pass # NoKey
    <3>1. Checkpoint!Encrypted /\ ~Checkpoint!SaltMissing
      BY <1>1, <1>4, <2>3, IntactHeader
    <3>2. key = NoKey /\ outcome' = Checkpoint!Refused("no key", key)
      BY <3>1, Zenon DEF Checkpoint!OpenFails
    <3>3. outcome'.why = "no key"
      BY <3>2, Zenon DEF Checkpoint!Refused
    <3> QED
      BY <1>3, <2>3, <3>2, <3>3, Zenon
  <2> QED
    BY <2>2, <2>3, Zenon
<1>5. ShownIs'
  <2>1. Shows(stored', outcome', weights')
    BY <1>3 DEF Shows
  <2>2. outcome'.intact => Explains(stored', outcome')
    BY <1>1, <1>3, <1>4, Zenon DEF Explains
  <2> QED
    BY <2>1, <2>2 DEF ShownIs
<1>6. CheckpointTypes'
  BY <1>1, <1>3 DEF CheckpointTypes
<1>7. FileIs' /\ ReaderIs'
  BY <1>1 DEF FileIs, ReaderIs
<1> QED
  BY <1>5, <1>6, <1>7 DEF CheckpointState

LEMMA NowhereIs ==
  LET r == Checkpoint!Nowhere IN
    /\ r.on = FALSE /\ DOMAIN r = ReaderFields /\ r.on \in BOOLEAN /\ r.extracts \in BOOLEAN
    /\ r.at \in Nat /\ r.frames \in Nat /\ r.buf \in Seq(CellSet) /\ r.key \in StateKeys
<1>1. PICK r : r = Checkpoint!Nowhere
  OBVIOUS
<1>2. r.on = FALSE /\ r.extracts = FALSE /\ r.at = 0 /\ r.frames = 0 /\ r.buf = <<>> /\ r.key = <<>>
  BY <1>1 DEF Checkpoint!Nowhere
<1>3. DOMAIN r = ReaderFields
  BY <1>1 DEF Checkpoint!Nowhere, ReaderFields
<1>4. r.on \in BOOLEAN /\ r.extracts \in BOOLEAN
  BY <1>2, Zenon
<1>5. r.at \in Nat /\ r.frames \in Nat /\ r.buf \in Seq(CellSet) /\ r.key \in StateKeys
  BY <1>2 DEF StateKeys
<1> QED
  BY <1>1, <1>2, <1>3, <1>4, <1>5, Zenon

(* What a reader knows when it ends.                                       *)
LEMMA CheckpointReaderEnds ==
  ASSUME CheckpointState, reader.on, reader' = Checkpoint!Nowhere,
         UNCHANGED <<file, pending, stored, damaged, weights>>,
         outcome' = outcome \/
           (/\ outcome'.is \in {"refused", "inspected", "restored"} /\ outcome'.intact = reader.intact
            /\ stored.pass # NoKey \/ "flipped" \notin damaged => Shows(stored, outcome', weights)
            /\ reader.intact => Explains(stored, outcome'))
  PROVE  CheckpointState'
<1>1. CheckpointTypes /\ FileIs /\ ShownIs /\ outcome = Checkpoint!NoOutcome
  BY DEF CheckpointState, CheckpointTypes
<1>2. CheckpointTypes'
  <2>1. outcome' = Checkpoint!NoOutcome \/ (outcome'.is \in {"refused", "inspected", "restored"} /\ ~reader'.on)
    BY <1>1, NowhereIs
  <2> QED
    BY <1>1, <2>1, NowhereIs DEF CheckpointTypes
<1>3. FileIs' /\ ReaderIs'
  BY <1>1, NowhereIs DEF FileIs, ReaderIs
<1>4. ShownIs'
  <2>1. CASE outcome' = outcome
    BY <1>1, <2>1 DEF ShownIs
  <2>2. CASE outcome' # outcome
    <3>1. stored.pass # NoKey \/ "flipped" \notin damaged => Shows(stored, outcome', weights)
      BY <2>2, Zenon
    <3>2. outcome'.intact => Explains(stored, outcome')
      BY <2>2, Zenon
    <3>3. stored' = stored /\ weights' = weights /\ damaged' = damaged
      OBVIOUS
    <3> QED
      BY <3>1, <3>2, <3>3, Zenon DEF ShownIs
  <2> QED
    BY <2>1, <2>2
<1> QED
  BY <1>2, <1>3, <1>4 DEF CheckpointState

LEMMA CheckpointGoesOn ==
  ASSUME CheckpointState, Checkpoint!Again \/ UNCHANGED checkpointVars
  PROVE  CheckpointState'
<1>1. CASE UNCHANGED checkpointVars
  BY <1>1 DEF checkpointVars, CheckpointState, CheckpointTypes, FileIs, ReaderIs, ShownIs, Checkpoint!Intact
<1>2. CASE Checkpoint!Again
  <2>1. /\ outcome # Checkpoint!NoOutcome /\ outcome' = Checkpoint!NoOutcome /\ ~reader.on
        /\ UNCHANGED <<file, pending, stored, damaged, weights, reader>> /\ CheckpointTypes /\ FileIs
    BY <1>2 DEF CheckpointState, CheckpointTypes, Checkpoint!Again
  <2>2. CheckpointTypes'
    BY <2>1 DEF CheckpointTypes
  <2>3. FileIs' /\ ReaderIs' /\ ShownIs'
    BY <2>1, Zenon DEF FileIs, ReaderIs, ShownIs, Shows, Checkpoint!NoOutcome
  <2> QED
    BY <2>2, <2>3 DEF CheckpointState
<1> QED
  BY <1>1, <1>2

(* Of what is not damaged, or is encrypted, a reader follows the archive.  *)
LEMMA Reading ==
  ASSUME CheckpointState, reader.on
  PROVE  /\ stored # Checkpoint!Nothing /\ stored \in SaveSet /\ reader.at \in Nat \ {0} /\ reader.frames \in Nat
         /\ reader.key = <<>> <=> stored.pass = NoKey
         /\ stored.pass # NoKey \/ "flipped" \notin damaged \/ reader.intact =>
              \E n \in Nat : Follows(stored, reader, weights, n)
         /\ reader.intact =>
              /\ Checkpoint!Intact
              /\ stored.pass # NoKey =>
                   /\ reader.key[1] # NoKey /\ reader.key[2] = stored.by
                   /\ reader.at = reader.frames + Offset(stored)
                   /\ reader.key[1] # stored.pass => reader.frames = 0 /\ reader.buf = <<>>
<1>1. CheckpointTypes /\ ReaderIs
  BY DEF CheckpointState
<1>2. stored # Checkpoint!Nothing /\ stored \in SaveSet /\ reader.at \in Nat \ {0} /\ reader.frames \in Nat
  BY <1>1 DEF CheckpointTypes, ReaderIs, Saved
<1>3. reader.key = <<>> <=> stored.pass = NoKey
  BY <1>1 DEF ReaderIs
<1>4. stored.pass # NoKey \/ "flipped" \notin damaged => \E n \in Nat : Follows(stored, reader, weights, n)
  BY <1>1 DEF ReaderIs
<1>5. reader.intact =>
        /\ Checkpoint!Intact
        /\ stored.pass # NoKey =>
             /\ reader.key[1] # NoKey /\ reader.key[2] = stored.by
             /\ reader.at = reader.frames + Offset(stored)
             /\ reader.key[1] # stored.pass => reader.frames = 0 /\ reader.buf = <<>>
  BY <1>1 DEF ReaderIs
<1>6. reader.intact => "flipped" \notin damaged
  BY <1>5 DEF Checkpoint!Intact
<1>7. stored.pass # NoKey \/ "flipped" \notin damaged \/ reader.intact =>
        \E n \in Nat : Follows(stored, reader, weights, n)
  BY <1>4, <1>6, Zenon
<1> QED
  BY <1>2, <1>3, <1>5, <1>7

LEMMA OneCell ==
  ASSUME NEW S, NEW A \in Seq(S), NEW i \in Nat \ {0}, i <= Len(A)
  PROVE  SubSeq(A, i, i) = <<A[i]>>
<1>1. PICK a : a = SubSeq(A, i, i)
  OBVIOUS
<1>2. a \in Seq(S) /\ Len(a) = 1 /\ a[1] = A[i]
  <2>1. PICK c \in Nat : c = i - 1
    OBVIOUS
  <2>2. PICK m \in Nat : m = i
    OBVIOUS
  <2>3. /\ SubSeq(A, c + 1, m) \in Seq(S) /\ Len(SubSeq(A, c + 1, m)) = m - c
        /\ \A k \in 1..m - c : SubSeq(A, c + 1, m)[k] = A[c + k]
    BY <2>1, <2>2
  <2>4. c + 1 = i /\ m = i /\ m - c = 1
    BY <2>1, <2>2
  <2>5. a = SubSeq(A, c + 1, m)
    BY <1>1, <2>4, Zenon
  <2> QED
    BY <2>3, <2>4, <2>5
<1>3. PICK b : b = <<A[i]>>
  OBVIOUS
<1>4. A[i] \in S
  OBVIOUS
<1>5. b \in Seq(S) /\ Len(b) = 1 /\ b[1] = A[i]
  BY <1>3, <1>4
<1>6. a = b
  BY <1>2, <1>5, Alike
<1> QED
  BY <1>1, <1>3, <1>6

(* Before the next piece a reader has taken what it has read, and of an    *)
(* archive there is more to come.                                          *)
LEMMA TakenSoFar ==
  ASSUME Checkpoint!CheckpointFileAssumption, NEW s \in SaveSet, NEW r, r.at \in Nat \ {0}, r.frames \in Nat,
         NEW out, NEW n \in Nat, Follows(s, r, out, n), r.buf = <<>>
  PROVE  /\ n = Reach(s, r) /\ n < Len(Cells(s))
         /\ r.key = <<>> => n = r.at - 1
         /\ r.key # <<>> => n = r.frames * FrameSize /\ r.frames * FrameSize < Len(Cells(s))
<1>1. /\ n <= Reach(s, r) /\ Reach(s, r) <= Len(Cells(s)) /\ n <= 4 + WeightCells(s)
      /\ SubSeq(Cells(s), n + 1, Reach(s, r)) = <<>>
  BY Zenon DEF Follows
<1>2. Cells(s) \in Seq(CellSet) /\ WeightCells(s) \in Nat /\ Len(Cells(s)) = WeightCells(s) + 6
  BY ArchiveIs
<1>3. Reach(s, r) \in Nat
  <2>1. UpTo(s, r.frames) \in Nat
    BY UpToIs
  <2> QED
    BY <2>1 DEF Reach
<1>4. n = Reach(s, r)
  <2>1. PICK m : m = Reach(s, r)
    OBVIOUS
  <2>2. m \in Nat /\ n <= m /\ m <= Len(Cells(s)) /\ SubSeq(Cells(s), n + 1, m) = <<>>
    BY <1>1, <1>3, <2>1, Zenon
  <2>3. n = m
    BY <1>2, <2>2, Stretch
  <2> QED
    BY <2>1, <2>3
<1>5. n < Len(Cells(s))
  BY <1>1, <1>2
<1>6. ASSUME r.key # <<>> PROVE n = r.frames * FrameSize /\ r.frames * FrameSize < Len(Cells(s))
  <2>1. n = UpTo(s, r.frames)
    BY <1>4, <1>6 DEF Reach
  <2>2. UpTo(s, r.frames) # Len(Cells(s))
    BY <1>2, <1>5, <2>1
  <2>3. r.frames * FrameSize < Len(Cells(s)) /\ UpTo(s, r.frames) = r.frames * FrameSize
    BY <2>2, UpToIs
  <2> QED
    BY <2>1, <2>3
<1> QED
  BY <1>4, <1>5, <1>6 DEF Reach

(* The next piece of an intact file is there, and opens with its key.      *)
LEMMA IntactPiece ==
  ASSUME Checkpoint!CheckpointFileAssumption, CheckpointState, reader.on, reader.intact, reader.buf = <<>>
  PROVE  /\ reader.at \in 1..Len(file) /\ file[reader.at].is = "whole"
         /\ stored.pass # NoKey => (Checkpoint!Opens(file[reader.at]) <=> reader.key[1] = stored.pass)
<1>1. /\ stored \in SaveSet /\ reader.at \in Nat \ {0} /\ reader.frames \in Nat /\ Checkpoint!Intact
      /\ CheckpointTypes /\ FileIs /\ file \in Seq(PieceSet) /\ Len(file) \in Nat /\ reader.key \in StateKeys
      /\ reader.key = <<>> <=> stored.pass = NoKey
  BY Reading DEF CheckpointState, CheckpointTypes
<1>2. PICK n \in Nat : Follows(stored, reader, weights, n)
  BY Reading
<1>3. /\ AsWritten(stored, file)
      /\ stored.pass = NoKey => Len(file) = Len(Cells(stored))
      /\ stored.pass # NoKey => Framed(stored, file)
  BY <1>1, IntactFile
<1>4. /\ n < Len(Cells(stored))
      /\ reader.key = <<>> => n = reader.at - 1
      /\ reader.key # <<>> => reader.frames * FrameSize < Len(Cells(stored))
  BY <1>1, <1>2, TakenSoFar
<1>5. CASE stored.pass = NoKey
  <2>1. reader.at \in 1..Len(file)
    BY <1>1, <1>3, <1>4, <1>5
  <2> QED
    BY <1>3, <1>5, <2>1, WholePieces
<1>6. CASE stored.pass # NoKey
  <2>1. /\ reader.key # <<>> /\ reader.key[1] # NoKey /\ reader.key[2] = stored.by
        /\ reader.at = reader.frames + Offset(stored)
    BY <1>1, <1>6, Reading
  <2>2. reader.at <= Len(file)
    BY <1>1, <1>3, <1>4, <1>6, <2>1 DEF Framed
  <2>3. file[reader.at].kind = "frame" /\ file[reader.at].index = reader.frames /\ file[reader.at].key = Key(stored)
    BY <1>1, <1>3, <1>6, <2>1, <2>2 DEF Framed
  <2>4. reader.at \in 1..Len(file)
    BY <1>1, <2>2
  <2>5. file[reader.at].is = "whole"
    BY <1>3, <2>4, WholePieces
  <2>6. reader.key = Key(stored) <=> reader.key[1] = stored.pass
    <3>1. reader.key = <<reader.key[1], reader.key[2]>>
      BY <1>1, <2>1 DEF StateKeys
    <3>2. Key(stored) = <<stored.pass, stored.by>>
      BY DEF Key, Checkpoint!StateKey
    <3> QED
      BY <2>1, <3>1, <3>2
  <2> QED
    BY <2>3, <2>4, <2>5, <2>6 DEF Checkpoint!Opens
<1> QED
  BY <1>5, <1>6

(* The next piece opened.                                                  *)
LEMMA PieceRead ==
  ASSUME Checkpoint!CheckpointFileAssumption, CheckpointState, reader.on, reader.buf = <<>>,
         reader.at <= Len(file), UNCHANGED <<file, pending, stored, damaged, weights, outcome>>,
         NEW p, p = file[reader.at], p.is # "part", reader.key # <<>> => Checkpoint!Opens(p),
         reader' = [reader EXCEPT !.at = @ + 1, !.frames = @ + 1,
                      !.buf = IF p.is = "whole" THEN p.cells
                              ELSE [i \in DOMAIN p.cells |-> Checkpoint!Cell(p.cells[i].entry, Other)]]
  PROVE  CheckpointState'
<1>1. /\ stored # Checkpoint!Nothing /\ stored \in SaveSet /\ reader.at \in Nat \ {0} /\ reader.frames \in Nat
      /\ CheckpointTypes /\ FileIs /\ file \in Seq(PieceSet) /\ Len(file) \in Nat
      /\ DOMAIN reader = ReaderFields
  BY Reading DEF CheckpointState, CheckpointTypes
<1>2. reader.at \in 1..Len(file) /\ p \in PieceSet /\ p.cells \in Seq(CellSet)
  <2>1. reader.at \in 1..Len(file)
    BY <1>1
  <2>2. p \in PieceSet
    BY <1>1, <2>1
  <2>3. p.cells \in Seq(CellSet)
    BY <2>2 DEF PieceSet
  <2> QED
    BY <2>1, <2>2, <2>3
<1>3. PICK buf : buf = IF p.is = "whole" THEN p.cells
                       ELSE [i \in DOMAIN p.cells |-> Checkpoint!Cell(p.cells[i].entry, Other)]
  OBVIOUS
<1>4. /\ reader'.at = reader.at + 1 /\ reader'.frames = reader.frames + 1 /\ reader'.buf = buf
      /\ reader'.on = reader.on /\ reader'.intact = reader.intact /\ reader'.key = reader.key
      /\ reader'.got = reader.got /\ reader'.extracts = reader.extracts /\ DOMAIN reader' = ReaderFields
  BY <1>1, <1>3 DEF ReaderFields
<1>5. buf \in Seq(CellSet)
  <2>1. CASE p.is = "whole"
    BY <1>2, <1>3, <2>1
  <2>2. CASE p.is # "whole"
    <3>1. ASSUME NEW c \in CellSet PROVE Checkpoint!Cell(c.entry, Other) \in CellSet
      <4>1. CASE c \in [entry : {"weights"}, of : WeightSet]
        BY <4>1 DEF CellSet, WeightSet, Checkpoint!Cell
      <4>2. CASE c \in [entry : Entry4 \cup {"end", "sum"}, of : Sessions \cup {Other}]
        BY <4>2 DEF CellSet, Checkpoint!Cell
      <4> QED
        BY <4>1, <4>2 DEF CellSet
    <3>2. \A i \in 1..Len(p.cells) : p.cells[i] \in CellSet
      BY <1>2
    <3>3. \A i \in 1..Len(p.cells) : Checkpoint!Cell(p.cells[i].entry, Other) \in CellSet
      BY <3>1, <3>2
    <3>4. DOMAIN p.cells = 1..Len(p.cells) /\ Len(p.cells) \in Nat
      BY <1>2
    <3> QED
      BY <1>3, <2>2, <3>3, <3>4
  <2> QED
    BY <2>1, <2>2
<1>6. CheckpointTypes'
  <2>1. reader'.on \in BOOLEAN /\ reader'.extracts \in BOOLEAN /\ reader'.key \in StateKeys
    BY <1>1, <1>4, Zenon DEF CheckpointTypes
  <2>2. reader'.at \in Nat /\ reader'.frames \in Nat /\ reader'.buf \in Seq(CellSet)
    BY <1>1, <1>4, <1>5
  <2>3. outcome = Checkpoint!NoOutcome
    BY <1>1 DEF CheckpointTypes
  <2> QED
    BY <1>1, <1>4, <2>1, <2>2, <2>3 DEF CheckpointTypes
<1>7. PieceIs(stored, p, reader.at, "flipped" \in damaged)
  BY <1>1, <1>2, Zenon DEF FileIs, AllPieces
<1>8. Cells(stored) \in Seq(CellSet) /\ WeightCells(stored) \in Nat /\ Len(Cells(stored)) = WeightCells(stored) + 6
  BY <1>1, ArchiveIs, SMTT(30)
<1>9. ASSUME stored.pass # NoKey \/ "flipped" \notin damaged
      PROVE  \E n \in Nat : Follows(stored, reader', weights, n)
  <2>1. PICK n \in Nat : Follows(stored, reader, weights, n)
    BY <1>9, Reading
  <2>2. /\ n < Len(Cells(stored)) /\ n <= 4 + WeightCells(stored)
        /\ reader.key = <<>> => n = reader.at - 1
        /\ reader.key # <<>> => n = reader.frames * FrameSize /\ reader.frames * FrameSize < Len(Cells(stored))
    BY <1>1, <2>1, TakenSoFar DEF Follows
  <2>3. SUFFICES /\ n <= Reach(stored, reader') /\ Reach(stored, reader') <= Len(Cells(stored))
                 /\ buf = SubSeq(Cells(stored), n + 1, Reach(stored, reader'))
    <3>1. /\ reader.got = [e \in {Cells(stored)[k].entry : k \in 1..n} \cap Entry4 |-> stored.session]
          /\ reader.extracts <=> n > 4
          /\ reader.extracts => weights = SubSeq(Weights, 1, n - 4)
      BY <2>1, Zenon DEF Follows
    <3>2. Follows(stored, reader', weights, n)
      BY <1>4, <2>2, <2>3, <3>1, Zenon DEF Follows
    <3> QED
      BY <3>2, Zenon
  <2>4. CASE reader.key = <<>>
    <3>1. stored.pass = NoKey /\ "flipped" \notin damaged
      BY <1>9, <2>4, Reading
    <3>2. p.is = "whole" /\ reader.at <= Len(Cells(stored)) /\ p.cells = <<Cells(stored)[reader.at]>>
      BY <1>2, <1>7, <3>1 DEF PieceIs, PieceSet
    <3>3. Reach(stored, reader') = reader.at /\ n + 1 = reader.at
      BY <1>1, <1>4, <2>2, <2>4 DEF Reach
    <3>4. SubSeq(Cells(stored), reader.at, reader.at) = <<Cells(stored)[reader.at]>>
      BY <1>1, <1>8, <3>2, OneCell
    <3>5. buf = SubSeq(Cells(stored), n + 1, Reach(stored, reader'))
      BY <1>3, <3>2, <3>3, <3>4, Zenon
    <3>6. n <= Reach(stored, reader') /\ Reach(stored, reader') <= Len(Cells(stored))
      BY <1>1, <3>2, <3>3, SMTT(30)
    <3> QED
      BY <3>5, <3>6, Zenon
  <2>5. CASE reader.key # <<>>
    <3>1. p.kind = "frame" /\ p.is = "whole" /\ p.index = reader.frames /\ stored.pass # NoKey
      BY <2>5, Reading DEF Checkpoint!Opens
    <3>2. p.cells = SubSeq(Cells(stored), reader.frames * FrameSize + 1, UpTo(stored, reader.frames + 1))
      BY <1>7, <3>1 DEF PieceIs
    <3>3. Reach(stored, reader') = UpTo(stored, reader.frames + 1)
      BY <1>4, <2>5 DEF Reach
    <3>4. /\ UpTo(stored, reader.frames) = n /\ UpTo(stored, reader.frames) <= UpTo(stored, reader.frames + 1)
      BY <1>1, <2>2, <2>5, UpToIs
    <3>5. UpTo(stored, reader.frames + 1) <= Len(Cells(stored))
      BY <1>1, UpToIs
    <3>6. buf = SubSeq(Cells(stored), n + 1, Reach(stored, reader'))
      BY <1>3, <2>2, <2>5, <3>1, <3>2, <3>3, Zenon
    <3> QED
      BY <3>3, <3>4, <3>5, <3>6
  <2> QED
    BY <2>4, <2>5
<1>10. ReaderIs'
  <2>1. stored' = stored /\ weights' = weights /\ damaged' = damaged
    OBVIOUS
  <2>2. stored'.pass # NoKey \/ "flipped" \notin damaged' => \E n \in Nat : Follows(stored', reader', weights', n)
    BY <1>9, <2>1, Zenon
  <2>3. ASSUME reader.intact PROVE Checkpoint!Intact'
    BY <2>3, Reading DEF Checkpoint!Intact, Checkpoint!Nothing
  <2>4. ASSUME reader.intact, stored.pass # NoKey
        PROVE  /\ reader'.key[1] # NoKey /\ reader'.key[2] = stored.by
               /\ reader'.at = reader'.frames + Offset(stored) /\ reader'.key[1] = stored.pass
    <3>1. Checkpoint!Opens(p) /\ (Checkpoint!Opens(p) <=> reader.key[1] = stored.pass)
      BY <2>4, IntactPiece, Reading
    <3>2. reader.at = reader.frames + Offset(stored) /\ Offset(stored) \in Nat
      BY <2>4, Reading DEF Offset
    <3> QED
      BY <1>1, <1>4, <2>4, <3>1, <3>2, Reading
  <2>5. reader'.at >= 1 /\ (reader'.key = <<>> <=> stored.pass = NoKey)
    BY <1>1, <1>4, Reading
  <2> QED
    BY <1>1, <1>4, <2>1, <2>2, <2>3, <2>4, <2>5 DEF ReaderIs
<1>11. FileIs' /\ ShownIs'
  <2>1. outcome = Checkpoint!NoOutcome
    BY <1>1 DEF CheckpointTypes
  <2> QED
    BY <1>1, <2>1, Zenon DEF FileIs, ShownIs, Shows, Checkpoint!NoOutcome
<1> QED
  BY <1>6, <1>10, <1>11 DEF CheckpointState

LEMMA CheckpointReads ==
  ASSUME Checkpoint!CheckpointFileAssumption, CheckpointState, Checkpoint!ReadPiece
  PROVE  CheckpointState'
<1>1. /\ reader.on /\ reader.buf = <<>> /\ UNCHANGED <<file, pending, stored, damaged, weights>>
      /\ CheckpointTypes
  BY DEF Checkpoint!ReadPiece, CheckpointState
<1>2. ASSUME NEW why, Checkpoint!Ends("refused", why),
             reader.intact => stored.pass # NoKey /\ why = "decrypt" /\ reader.key[1] # stored.pass
      PROVE  CheckpointState'
  <2>1. /\ outcome'.is = "refused" /\ outcome'.why = why /\ outcome'.intact = reader.intact
        /\ outcome'.with = (IF reader.key = <<>> THEN NoKey ELSE reader.key[1])
        /\ reader' = Checkpoint!Nowhere
    BY <1>2 DEF Checkpoint!Ends
  <2>2. ASSUME reader.intact PROVE Explains(stored, outcome')
    <3>1. stored.pass # NoKey /\ why = "decrypt" /\ reader.key[1] # stored.pass /\ reader.key[1] # NoKey
          /\ reader.key # <<>>
      BY <1>1, <1>2, <2>2, Reading
    <3> QED
      BY <2>1, <3>1 DEF Explains
  <2>3. Shows(stored, outcome', weights)
    BY <2>1 DEF Shows
  <2> QED
    BY <1>1, <2>1, <2>2, <2>3, CheckpointReaderEnds
<1>3. CASE reader.at > Len(file)
  <2>1. ~reader.intact
    BY <1>1, <1>3, IntactPiece, Reading DEF CheckpointTypes
  <2>2. Checkpoint!Ends("refused", "truncated")
    BY <1>3 DEF Checkpoint!ReadPiece
  <2> QED
    BY <1>2, <2>1, <2>2
<1>4. CASE ~(reader.at > Len(file))
  <2>1. PICK p : p = file[reader.at]
    OBVIOUS
  <2>2. \/ /\ p.is = "part"
           /\ Checkpoint!Ends("refused", "truncated")
        \/ /\ p.is # "part" /\ reader.key # <<>> /\ ~Checkpoint!Opens(p)
           /\ Checkpoint!Ends("refused", "decrypt")
        \/ /\ p.is = "flipped" /\ reader.key = <<>>
           /\ Checkpoint!Ends("refused", "corrupt")
        \/ /\ p.is # "part" /\ (reader.key # <<>> => Checkpoint!Opens(p))
           /\ reader' = [reader EXCEPT !.at = @ + 1, !.frames = @ + 1,
                !.buf = IF p.is = "whole" THEN p.cells
                        ELSE [i \in DOMAIN p.cells |-> Checkpoint!Cell(p.cells[i].entry, Other)]]
           /\ UNCHANGED outcome
    BY <1>4, <2>1 DEF Checkpoint!ReadPiece
  <2>3. reader.intact => p.is = "whole" /\ (stored.pass # NoKey => (Checkpoint!Opens(p) <=> reader.key[1] = stored.pass))
    BY <1>1, <2>1, IntactPiece
  <2>4. CASE p.is = "part" /\ Checkpoint!Ends("refused", "truncated")
    BY <1>2, <2>3, <2>4
  <2>5. CASE p.is # "part" /\ reader.key # <<>> /\ ~Checkpoint!Opens(p) /\ Checkpoint!Ends("refused", "decrypt")
    BY <1>1, <1>2, <2>3, <2>5, Reading
  <2>6. CASE p.is = "flipped" /\ reader.key = <<>> /\ Checkpoint!Ends("refused", "corrupt")
    BY <1>2, <2>3, <2>6, SMTT(30)
  <2>7. CASE /\ p.is # "part" /\ (reader.key # <<>> => Checkpoint!Opens(p))
             /\ reader' = [reader EXCEPT !.at = @ + 1, !.frames = @ + 1,
                  !.buf = IF p.is = "whole" THEN p.cells
                          ELSE [i \in DOMAIN p.cells |-> Checkpoint!Cell(p.cells[i].entry, Other)]]
             /\ UNCHANGED outcome
    <3>1. reader.at <= Len(file)
      BY <1>1, <1>4, Reading DEF CheckpointTypes
    <3> QED
      BY <1>1, <2>1, <2>7, <3>1, PieceRead
  <2> QED
    BY <2>2, <2>4, <2>5, <2>6, <2>7
<1> QED
  BY <1>3, <1>4

(* The next cell a reader takes is the next of the archive.                *)
LEMMA NextCell ==
  ASSUME Checkpoint!CheckpointFileAssumption, NEW s \in SaveSet, NEW r, r.at \in Nat \ {0}, r.frames \in Nat,
         NEW out, NEW n \in Nat, Follows(s, r, out, n), r.buf # <<>>
  PROVE  /\ n + 1 <= Reach(s, r) /\ Reach(s, r) \in Nat /\ Reach(s, r) <= Len(Cells(s))
         /\ n + 1 \in 1..Len(Cells(s))
         /\ Head(r.buf) = Cells(s)[n + 1] /\ Tail(r.buf) = SubSeq(Cells(s), n + 2, Reach(s, r))
<1>1. /\ n <= Reach(s, r) /\ Reach(s, r) <= Len(Cells(s))
      /\ r.buf = SubSeq(Cells(s), n + 1, Reach(s, r))
  BY Zenon DEF Follows
<1>2. Cells(s) \in Seq(CellSet)
  BY ArchiveIs
<1>3. Reach(s, r) \in Nat
  <2>1. UpTo(s, r.frames) \in Nat
    BY UpToIs
  <2> QED
    BY <2>1 DEF Reach
<1>4. PICK m \in Nat : m = Reach(s, r)
  BY <1>3
<1>5. n <= m /\ m <= Len(Cells(s)) /\ r.buf = SubSeq(Cells(s), n + 1, m)
  BY <1>1, <1>4, Zenon
<1>6. n # m
  BY <1>2, <1>5, Stretch
<1>7. n < m /\ Len(Cells(s)) \in Nat
  BY <1>2, <1>5, <1>6
<1>8. Head(SubSeq(Cells(s), n + 1, m)) = Cells(s)[n + 1]
      /\ Tail(SubSeq(Cells(s), n + 1, m)) = SubSeq(Cells(s), n + 2, m)
  BY <1>2, <1>5, <1>7, Stretch
<1>9. n + 1 <= m /\ n + 1 \in 1..Len(Cells(s))
  BY <1>5, <1>7
<1>10. Head(r.buf) = Cells(s)[n + 1] /\ Tail(r.buf) = SubSeq(Cells(s), n + 2, Reach(s, r))
  BY <1>4, <1>5, <1>8, Zenon
<1> QED
  BY <1>1, <1>3, <1>4, <1>9, <1>10, Zenon

(* Where in the archive a cell is, by what it holds.                       *)
LEMMA PlaceOf ==
  ASSUME Checkpoint!CheckpointFileAssumption, NEW s \in SaveSet, NEW i \in 1..Len(Cells(s))
  PROVE  LET c == Cells(s)[i] IN
           /\ c.entry \in Entry4 <=> i <= 4
           /\ c.entry \in Entry4 => c.of = s.session
           /\ c.entry = "weights" =>
                i > 4 /\ i <= 4 + WeightCells(s) /\ s.seal /\ i - 4 \in 1..Len(Weights) /\ c.of = Weights[i - 4]
           /\ c.entry \in {"end", "sum"} => i > 4 + WeightCells(s)
<1>1. /\ WeightCells(s) \in Nat /\ Len(Cells(s)) = WeightCells(s) + 6
      /\ Cells(s)[1] = Checkpoint!Cell("manifest", s.session)
      /\ Cells(s)[2] = Checkpoint!Cell("conversation", s.session)
      /\ Cells(s)[3] = Checkpoint!Cell("memory", s.session)
      /\ Cells(s)[4] = Checkpoint!Cell("context", s.session)
      /\ \A k \in 1..WeightCells(s) :
           s.seal /\ Cells(s)[4 + k] = Checkpoint!Cell("weights", Weights[k]) /\ k \in DOMAIN Weights
      /\ Cells(s)[5 + WeightCells(s)].entry = "end" /\ Cells(s)[6 + WeightCells(s)].entry = "sum"
  BY ArchiveIs
<1>2. i \in Nat /\ 1 <= i /\ i <= WeightCells(s) + 6
  BY <1>1
<1>3. CASE i <= 4
  <2>1. i \in {1, 2, 3, 4}
    BY <1>2, <1>3
  <2>2. Cells(s)[i].entry \in Entry4 /\ Cells(s)[i].of = s.session
    BY <1>1, <2>1 DEF Checkpoint!Cell, Entry4
  <2> QED
    BY <1>3, <2>2 DEF Entry4
<1>4. CASE i > 4 /\ i <= 4 + WeightCells(s)
  <2>1. PICK k \in 1..WeightCells(s) : i = 4 + k
    <3>1. i - 4 \in 1..WeightCells(s) /\ i = 4 + (i - 4)
      BY <1>1, <1>2, <1>4
    <3> QED
      BY <3>1
  <2>2. s.seal /\ Cells(s)[i] = Checkpoint!Cell("weights", Weights[k]) /\ k \in DOMAIN Weights
    BY <1>1, <2>1
  <2>3. Cells(s)[i].entry = "weights" /\ Cells(s)[i].of = Weights[k]
    BY <2>2 DEF Checkpoint!Cell
  <2>4. k \in 1..Len(Weights) /\ k = i - 4
    BY <1>1, <1>2, <2>1, <2>2 DEF Checkpoint!CheckpointFileAssumption
  <2> QED
    BY <1>2, <1>4, <2>2, <2>3, <2>4 DEF Entry4
<1>5. CASE i > 4 + WeightCells(s)
  <2>1. i = 5 + WeightCells(s) \/ i = 6 + WeightCells(s)
    BY <1>1, <1>2, <1>5
  <2>2. Cells(s)[i].entry \in {"end", "sum"}
    BY <1>1, <2>1
  <2> QED
    BY <1>1, <1>2, <1>5, <2>2 DEF Entry4
<1> QED
  BY <1>1, <1>2, <1>3, <1>4, <1>5

(* What an intact file says is not refused once it opened.                 *)
LEMMA OpenedExplains ==
  ASSUME CheckpointState, reader.on, reader.buf # <<>>, NEW out,
         out.with = (IF reader.key = <<>> THEN NoKey ELSE reader.key[1]), out.is # "refused", reader.intact
  PROVE  Explains(stored, out)
<1>1. CASE stored.pass = NoKey
  BY <1>1 DEF Explains
<1>2. CASE stored.pass # NoKey
  <2>1. reader.key # <<>> /\ reader.key[1] = stored.pass
    BY <1>2, Reading
  <2> QED
    BY <2>1 DEF Explains
<1> QED
  BY <1>1, <1>2

(* A reader that took a cell, and goes on.                                 *)
LEMMA CellTaken ==
  ASSUME Checkpoint!CheckpointFileAssumption, CheckpointState, reader.on, reader.buf # <<>>,
         UNCHANGED <<file, pending, stored, damaged, outcome>>, weights' \in Seq(WeightSet),
         DOMAIN reader' = ReaderFields, reader'.on = TRUE, reader'.extracts \in BOOLEAN,
         reader'.intact = reader.intact, reader'.key = reader.key, reader'.at = reader.at,
         reader'.frames = reader.frames, reader'.buf = Tail(reader.buf),
         \A n \in Nat : Follows(stored, reader, weights, n) => Follows(stored, reader', weights', n + 1)
  PROVE  CheckpointState'
<1>1. CheckpointTypes /\ FileIs /\ outcome = Checkpoint!NoOutcome /\ reader.buf \in Seq(CellSet)
  BY DEF CheckpointState, CheckpointTypes
<1>2. CheckpointTypes'
  <2>1. Tail(reader.buf) \in Seq(CellSet)
    BY <1>1
  <2>2. reader'.on \in BOOLEAN
    BY Zenon
  <2>3. reader'.buf \in Seq(CellSet)
    BY <2>1, Zenon
  <2> QED
    BY <1>1, <2>2, <2>3 DEF CheckpointTypes
<1>3. FileIs' /\ ShownIs'
  BY <1>1, Zenon DEF FileIs, ShownIs, Shows, Checkpoint!NoOutcome
<1>4. ReaderIs'
  <2>1. ASSUME stored.pass # NoKey \/ "flipped" \notin damaged
        PROVE  \E n \in Nat : Follows(stored, reader', weights', n)
    <3>1. PICK n \in Nat : Follows(stored, reader, weights, n)
      BY <2>1, Reading
    <3>2. Follows(stored, reader', weights', n + 1) /\ n + 1 \in Nat
      BY <3>1
    <3> QED
      BY <3>2, Zenon
  <2>2. stored'.pass # NoKey \/ "flipped" \notin damaged' => \E n \in Nat : Follows(stored', reader', weights', n)
    <3>1. stored' = stored /\ damaged' = damaged
      OBVIOUS
    <3> QED
      BY <2>1, <3>1, Zenon
  <2>3. ASSUME reader.intact PROVE Checkpoint!Intact'
    BY <2>3, Reading DEF Checkpoint!Intact, Checkpoint!Nothing
  <2>4. ASSUME reader.intact, stored.pass # NoKey
        PROVE  /\ reader'.key[1] # NoKey /\ reader'.key[2] = stored.by
               /\ reader'.at = reader'.frames + Offset(stored) /\ reader'.key[1] = stored.pass
    BY <2>4, Reading
  <2>5. stored # Checkpoint!Nothing /\ reader'.at >= 1 /\ (reader'.key = <<>> <=> stored.pass = NoKey)
    BY Reading
  <2>6. Offset(stored') = Offset(stored) /\ stored' = stored
    OBVIOUS
  <2> QED
    BY <2>2, <2>3, <2>4, <2>5, <2>6 DEF ReaderIs
<1> QED
  BY <1>2, <1>3, <1>4 DEF CheckpointState

GotOf(got, c) == [e \in DOMAIN got \cup {c.entry} |-> IF e = c.entry THEN c.of ELSE got[e]]

LEMMA EntryTaken ==
  ASSUME Checkpoint!CheckpointFileAssumption, NEW s \in SaveSet, NEW r, r.at \in Nat \ {0}, r.frames \in Nat,
         NEW out, NEW n \in Nat, Follows(s, r, out, n), r.buf # <<>>,
         NEW c, c = Head(r.buf), c.entry \in Entry4, NEW q, q.key = r.key, q.at = r.at, q.frames = r.frames,
         q.buf = Tail(r.buf), q.extracts = r.extracts,
         q.got = GotOf(r.got, c)
  PROVE  c.of = s.session /\ Follows(s, q, out, n + 1)
<1>1. /\ n + 1 <= Reach(s, r) /\ Reach(s, r) <= Len(Cells(s)) /\ n + 1 \in 1..Len(Cells(s))
      /\ c = Cells(s)[n + 1] /\ Tail(r.buf) = SubSeq(Cells(s), n + 2, Reach(s, r))
  BY NextCell
<1>2. n + 1 <= 4 /\ c.of = s.session
  BY <1>1, PlaceOf
<1>3. PICK D : D = {Cells(s)[k].entry : k \in 1..n} \cap Entry4
  OBVIOUS
<1>4. r.got = [e \in D |-> s.session] /\ (r.extracts <=> n > 4)
  BY <1>3, Zenon DEF Follows
<1>5. PICK E : E = {Cells(s)[k].entry : k \in 1..n + 1} \cap Entry4
  OBVIOUS
<1>6. E = D \cup {c.entry}
  <2>1. 1..n + 1 = 1..n \cup {n + 1}
    OBVIOUS
  <2>2. {Cells(s)[k].entry : k \in 1..n + 1} = {Cells(s)[k].entry : k \in 1..n} \cup {c.entry}
    BY <1>1, <2>1
  <2> QED
    BY <1>3, <1>5, <2>2
<1>7. q.got = [e \in E |-> s.session]
  <2>1. DOMAIN r.got = D /\ \A e \in D : r.got[e] = s.session
    BY <1>4
  <2>2. \A e \in E : (IF e = c.entry THEN c.of ELSE r.got[e]) = s.session
    BY <1>2, <1>6, <2>1
  <2>3. q.got = [e \in E |-> IF e = c.entry THEN c.of ELSE r.got[e]]
    BY <1>6, <2>1 DEF GotOf
  <2> QED
    BY <2>2, <2>3
<1>8. Reach(s, q) = Reach(s, r)
  BY DEF Reach
<1>9. WeightCells(s) \in Nat
  BY ArchiveIs
<1>10. n + 1 <= 4 + WeightCells(s) /\ n + 1 + 1 = n + 2
  BY <1>2, <1>9
<1>11. ~q.extracts /\ ~(n + 1 > 4)
  BY <1>2, <1>4
<1>12. q.buf = SubSeq(Cells(s), n + 1 + 1, Reach(s, q))
  BY <1>1, <1>8, <1>10, Zenon
<1>13. n + 1 <= Reach(s, q) /\ Reach(s, q) <= Len(Cells(s))
  BY <1>1, <1>8, Zenon
<1>14. q.got = [e \in {Cells(s)[k].entry : k \in 1..n + 1} \cap Entry4 |-> s.session]
  BY <1>5, <1>7, Zenon
<1>15. Follows(s, q, out, n + 1)
  BY <1>10, <1>11, <1>12, <1>13, <1>14, Zenon DEF Follows
<1> QED
  BY <1>2, <1>15, Zenon

LEMMA WeightTaken ==
  ASSUME Checkpoint!CheckpointFileAssumption, NEW s \in SaveSet, NEW r, r.at \in Nat \ {0}, r.frames \in Nat,
         NEW out, NEW n \in Nat, Follows(s, r, out, n), r.buf # <<>>,
         NEW c, c = Head(r.buf), c.entry = "weights", NEW q, q.key = r.key, q.at = r.at, q.frames = r.frames,
         q.buf = Tail(r.buf), q.extracts = TRUE, q.got = r.got,
         NEW new, new = Append(IF r.extracts THEN out ELSE <<>>, c.of)
  PROVE  Follows(s, q, new, n + 1)
<1>1. /\ n + 1 <= Reach(s, r) /\ Reach(s, r) <= Len(Cells(s)) /\ n + 1 \in 1..Len(Cells(s))
      /\ c = Cells(s)[n + 1] /\ Tail(r.buf) = SubSeq(Cells(s), n + 2, Reach(s, r))
  BY NextCell
<1>2. /\ n + 1 > 4 /\ n + 1 <= 4 + WeightCells(s) /\ (n + 1) - 4 \in 1..Len(Weights)
      /\ c.of = Weights[(n + 1) - 4] /\ c.entry \notin Entry4
  BY <1>1, PlaceOf DEF Entry4
<1>3. PICK D : D = {Cells(s)[k].entry : k \in 1..n} \cap Entry4
  OBVIOUS
<1>4. /\ r.got = [e \in D |-> s.session] /\ (r.extracts <=> n > 4)
      /\ r.extracts => out = SubSeq(Weights, 1, n - 4)
  BY <1>3, Zenon DEF Follows
<1>5. {Cells(s)[k].entry : k \in 1..n + 1} \cap Entry4 = D
  <2>1. 1..n + 1 = 1..n \cup {n + 1}
    OBVIOUS
  <2>2. {Cells(s)[k].entry : k \in 1..n + 1} = {Cells(s)[k].entry : k \in 1..n} \cup {c.entry}
    BY <1>1, <2>1
  <2> QED
    BY <1>2, <1>3, <2>2
<1>6. new = SubSeq(Weights, 1, (n + 1) - 4)
  <2>1. PICK m \in Nat : m = n - 4 /\ m + 1 = (n + 1) - 4 /\ m < Len(Weights)
    <3>1. n - 4 \in Nat /\ (n - 4) + 1 = (n + 1) - 4 /\ n - 4 < Len(Weights)
      BY <1>2
    <3> QED
      BY <3>1
  <2>2. Weights \in Seq(Checkpoint!Range(Weights))
    BY DEF Checkpoint!CheckpointFileAssumption
  <2>3. (IF r.extracts THEN out ELSE <<>>) = SubSeq(Weights, 1, m)
    <3>1. CASE r.extracts
      BY <1>4, <2>1, <3>1, Zenon
    <3>2. CASE ~r.extracts
      <4>1. m = 0
        BY <1>2, <1>4, <2>1, <3>2
      <4>2. SubSeq(Weights, 1, 0) = <<>>
        <5>1. 0 \in Nat /\ 0 <= Len(Weights)
          BY <2>1, <2>2
        <5>2. SubSeq(Weights, 0 + 1, 0) = <<>>
          BY <2>2, <5>1, Stretch
        <5>3. 0 + 1 = 1
          OBVIOUS
        <5> QED
          BY <5>2, <5>3, Zenon
      <4> QED
        BY <3>2, <4>1, <4>2, Zenon
    <3> QED
      BY <3>1, <3>2
  <2>4. new = Append(SubSeq(Weights, 1, m), Weights[m + 1])
    BY <1>2, <2>1, <2>3, Zenon
  <2>5. Append(SubSeq(Weights, 1, m), Weights[m + 1]) = SubSeq(Weights, 1, m + 1)
    BY <2>1, <2>2, OneMore
  <2> QED
    BY <2>1, <2>4, <2>5, Zenon
<1>7. Reach(s, q) = Reach(s, r)
  BY DEF Reach
<1>8. n + 1 + 1 = n + 2
  OBVIOUS
<1>9. q.buf = SubSeq(Cells(s), n + 1 + 1, Reach(s, q))
  BY <1>1, <1>7, <1>8, Zenon
<1>10. n + 1 <= Reach(s, q) /\ Reach(s, q) <= Len(Cells(s))
  BY <1>1, <1>7, Zenon
<1>11. q.got = [e \in {Cells(s)[k].entry : k \in 1..n + 1} \cap Entry4 |-> s.session]
  BY <1>4, <1>5, Zenon
<1>12. q.extracts
  BY Zenon
<1> QED
  BY <1>2, <1>6, <1>9, <1>10, <1>11, <1>12, Zenon DEF Follows

LEMMA CheckpointExtracts ==
  ASSUME Checkpoint!CheckpointFileAssumption, CheckpointState, Checkpoint!Extract
  PROVE  CheckpointState'
<1>1. /\ reader.on /\ reader.buf # <<>> /\ Head(reader.buf).entry = "weights"
      /\ UNCHANGED <<file, pending, stored, damaged, outcome>>
      /\ weights' = Append(IF reader.extracts THEN weights ELSE <<>>, Head(reader.buf).of)
      /\ CheckpointTypes /\ DOMAIN reader = ReaderFields /\ reader.buf \in Seq(CellSet)
      /\ weights \in Seq(WeightSet)
  BY DEF CheckpointState, CheckpointTypes, Checkpoint!Extract
<1>2. PICK c : c = Head(reader.buf)
  OBVIOUS
<1>3. c \in CellSet /\ c.entry = "weights"
  BY <1>1, <1>2
<1>4. c.of \in WeightSet
  BY <1>3 DEF CellSet, Entry4
<1>5. weights' \in Seq(WeightSet)
  BY <1>1, <1>2, <1>4
<1>6. /\ reader'.on = reader.on /\ reader'.intact = reader.intact /\ reader'.key = reader.key
      /\ reader'.at = reader.at /\ reader'.frames = reader.frames /\ reader'.buf = Tail(reader.buf)
      /\ reader'.got = reader.got /\ reader'.extracts = TRUE /\ DOMAIN reader' = ReaderFields
  BY <1>1 DEF Checkpoint!Extract, Checkpoint!Rest, ReaderFields
<1>7. ASSUME NEW n \in Nat, Follows(stored, reader, weights, n) PROVE Follows(stored, reader', weights', n + 1)
  <2>1. stored \in SaveSet /\ reader.at \in Nat \ {0} /\ reader.frames \in Nat
    BY <1>1, Reading
  <2> QED
    BY <1>1, <1>2, <1>3, <1>6, <1>7, <2>1, WeightTaken
<1>8. reader'.on = TRUE /\ reader'.extracts \in BOOLEAN
  <2>1. reader.on = TRUE
    BY <1>1 DEF CheckpointTypes
  <2> QED
    BY <1>6, <2>1, Zenon
<1> QED
  BY <1>1, <1>5, <1>6, <1>7, <1>8, CellTaken

LEMMA CheckpointTakes ==
  ASSUME Checkpoint!CheckpointFileAssumption, CheckpointState, Checkpoint!TakeEntry
  PROVE  CheckpointState'
<1>1. /\ reader.on /\ reader.buf # <<>> /\ Head(reader.buf).entry \in Entry4
      /\ UNCHANGED <<file, pending, stored, damaged, weights>>
      /\ CheckpointTypes /\ DOMAIN reader = ReaderFields /\ reader.extracts \in BOOLEAN
      /\ weights \in Seq(WeightSet) /\ stored \in SaveSet /\ reader.at \in Nat \ {0} /\ reader.frames \in Nat
  BY Reading, Zenon DEF CheckpointState, CheckpointTypes, Checkpoint!TakeEntry, Checkpoint!Entries, Entry4
<1>2. PICK c : c = Head(reader.buf)
  OBVIOUS
<1>3. PICK k : k = Checkpoint!Keep(c)
  OBVIOUS
<1>4. /\ k.on = reader.on /\ k.intact = reader.intact /\ k.key = reader.key
      /\ k.at = reader.at /\ k.frames = reader.frames /\ k.buf = Tail(reader.buf)
      /\ k.extracts = reader.extracts /\ DOMAIN k = ReaderFields
      /\ k.got = GotOf(reader.got, c)
  BY <1>1, <1>3 DEF Checkpoint!Keep, Checkpoint!Rest, ReaderFields, GotOf
<1>5. ASSUME NEW n \in Nat, Follows(stored, reader, weights, n)
      PROVE  c.of = stored.session /\ Follows(stored, k, weights, n + 1)
  <2>1. c.entry \in Entry4
    BY <1>1, <1>2, Zenon
  <2> QED
    BY <1>1, <1>2, <1>4, <1>5, <2>1, EntryTaken
<1>6. stored.session \in Sessions /\ Other \notin Sessions
  BY <1>1, Reading DEF CheckpointTypes, Saved, Checkpoint!CheckpointFileAssumption
<1>7. \/ /\ c.of = Other /\ c.entry \in {"manifest", "conversation"}
         /\ Checkpoint!Ends("refused", "corrupt")
      \/ /\ c.entry = "manifest" /\ ~reader.all
         /\ outcome' = [is |-> "inspected", why |-> "", intact |-> reader.intact, got |-> k.got,
                        with |-> IF reader.key = <<>> THEN NoKey ELSE reader.key[1]]
         /\ reader' = Checkpoint!Nowhere
      \/ /\ c.entry # "manifest" \/ reader.all
         /\ reader' = k /\ UNCHANGED outcome
  BY <1>2, <1>3, Zenon DEF Checkpoint!TakeEntry
<1>8. CASE /\ c.of = Other /\ c.entry \in {"manifest", "conversation"}
           /\ Checkpoint!Ends("refused", "corrupt")
  <2>1. ~reader.intact
    BY <1>1, <1>5, <1>6, <1>8, Reading
  <2>2. outcome'.is = "refused" /\ outcome'.intact = reader.intact /\ reader' = Checkpoint!Nowhere
    BY <1>8 DEF Checkpoint!Ends
  <2>3. Shows(stored, outcome', weights)
    BY <2>2 DEF Shows
  <2> QED
    BY <1>1, <2>1, <2>2, <2>3, CheckpointReaderEnds
<1>9. CASE /\ c.entry = "manifest" /\ ~reader.all
           /\ outcome' = [is |-> "inspected", why |-> "", intact |-> reader.intact, got |-> k.got,
                          with |-> IF reader.key = <<>> THEN NoKey ELSE reader.key[1]]
           /\ reader' = Checkpoint!Nowhere
  <2>1. /\ outcome'.is = "inspected" /\ outcome'.intact = reader.intact /\ outcome'.got = k.got
        /\ outcome'.with = (IF reader.key = <<>> THEN NoKey ELSE reader.key[1]) /\ reader' = Checkpoint!Nowhere
    BY <1>9, Zenon
  <2>2. ASSUME stored.pass # NoKey \/ "flipped" \notin damaged PROVE Shows(stored, outcome', weights)
    <3>1. PICK n \in Nat : Follows(stored, reader, weights, n)
      BY <1>1, <2>2, Reading
    <3>2. c.of = stored.session
      BY <1>5, <3>1
    <3>3. k.got["manifest"] = stored.session
      BY <1>4, <1>9, <3>2, Zenon DEF GotOf
    <3> QED
      BY <2>1, <3>3 DEF Shows
  <2>3. reader.intact => Explains(stored, outcome')
    BY <1>1, <2>1, OpenedExplains
  <2> QED
    BY <1>1, <2>1, <2>2, <2>3, CheckpointReaderEnds
<1>10. CASE reader' = k /\ UNCHANGED outcome
  <2>1. reader'.on = TRUE /\ reader'.extracts \in BOOLEAN
    <3>1. reader.on = TRUE
      BY <1>1 DEF CheckpointTypes
    <3> QED
      BY <1>1, <1>4, <1>10, <3>1, Zenon
  <2>2. \A n \in Nat : Follows(stored, reader, weights, n) => Follows(stored, reader', weights', n + 1)
    <3>1. weights' = weights
      BY <1>1
    <3> QED
      BY <1>5, <1>10, <3>1, Zenon
  <2> QED
    BY <1>1, <1>4, <1>10, <2>1, <2>2, CellTaken
<1> QED
  BY <1>7, <1>8, <1>9, <1>10, Zenon

LEMMA CheckpointEnds ==
  ASSUME Checkpoint!CheckpointFileAssumption, CheckpointState, Checkpoint!EndOfArchive
  PROVE  CheckpointState'
<1>1. /\ reader.on /\ reader.buf # <<>> /\ Head(reader.buf).entry \in {"end", "sum"}
      /\ UNCHANGED <<file, pending, stored, damaged, weights>>
      /\ Checkpoint!Ends(IF "manifest" \in DOMAIN reader.got THEN "restored" ELSE "refused", "")
      /\ CheckpointTypes /\ stored \in SaveSet /\ reader.at \in Nat \ {0} /\ reader.frames \in Nat
  BY Reading, Zenon DEF CheckpointState, CheckpointTypes, Checkpoint!EndOfArchive
<1>2. /\ outcome'.is = (IF "manifest" \in DOMAIN reader.got THEN "restored" ELSE "refused")
      /\ outcome'.intact = reader.intact /\ outcome'.got = reader.got
      /\ outcome'.with = (IF reader.key = <<>> THEN NoKey ELSE reader.key[1])
      /\ reader' = Checkpoint!Nowhere
  BY <1>1, Zenon DEF Checkpoint!Ends
<1>3. outcome'.is \in {"refused", "inspected", "restored"}
  BY <1>2
<1>4. ASSUME NEW n \in Nat, Follows(stored, reader, weights, n)
      PROVE  outcome'.is = "restored" /\ Shows(stored, outcome', weights)
  <2>1. n + 1 \in 1..Len(Cells(stored)) /\ Head(reader.buf) = Cells(stored)[n + 1]
    BY <1>1, <1>4, NextCell, Zenon
  <2>2. PICK c : c = Cells(stored)[n + 1]
    OBVIOUS
  <2>3. c.entry \in {"end", "sum"}
    BY <1>1, <2>1, <2>2, Zenon
  <2>4. n + 1 > 4 + WeightCells(stored)
    BY <1>1, <2>1, <2>2, <2>3, PlaceOf, Zenon
  <2>5. /\ n <= 4 + WeightCells(stored)
        /\ reader.got = [e \in {Cells(stored)[k].entry : k \in 1..n} \cap Entry4 |-> stored.session]
        /\ reader.extracts <=> n > 4
        /\ reader.extracts => weights = SubSeq(Weights, 1, n - 4)
    BY <1>4, Zenon DEF Follows
  <2>6. WeightCells(stored) \in Nat /\ n = 4 + WeightCells(stored)
    <3>1. WeightCells(stored) \in Nat
      BY <1>1, ArchiveIs, Zenon
    <3>2. n <= 4 + WeightCells(stored)
      BY <2>5, Zenon
    <3> QED
      BY <2>4, <3>1, <3>2
  <2>7. {Cells(stored)[k].entry : k \in 1..n} \cap Entry4 = Entry4
    <3>1. /\ Cells(stored)[1].entry = "manifest" /\ Cells(stored)[2].entry = "conversation"
          /\ Cells(stored)[3].entry = "memory" /\ Cells(stored)[4].entry = "context"
      <4>1. /\ Cells(stored)[1] = Checkpoint!Cell("manifest", stored.session)
            /\ Cells(stored)[2] = Checkpoint!Cell("conversation", stored.session)
            /\ Cells(stored)[3] = Checkpoint!Cell("memory", stored.session)
            /\ Cells(stored)[4] = Checkpoint!Cell("context", stored.session)
        BY <1>1, ArchiveIs, Zenon
      <4> QED
        BY ONLY <4>1 DEF Checkpoint!Cell
    <3>2. 1 \in 1..n /\ 2 \in 1..n /\ 3 \in 1..n /\ 4 \in 1..n
      BY <2>6
    <3> QED
      BY <3>1, <3>2 DEF Entry4
  <2>8. reader.got = [e \in Entry4 |-> stored.session]
    BY <2>5, <2>7, Zenon
  <2>9. "manifest" \in DOMAIN reader.got
    BY <2>8 DEF Entry4
  <2>10. ASSUME stored.seal PROVE weights = Weights
    <3>1. WeightCells(stored) = Len(Weights) /\ Weights \in Seq(Checkpoint!Range(Weights))
      BY <2>10 DEF WeightCells, Checkpoint!CheckpointFileAssumption
    <3>2. CASE Len(Weights) = 0
      <4>1. Weights = <<>> /\ weights \in Seq(WeightSet)
        <5>1. Weights = <<>>
          BY <3>1, <3>2
        <5> QED
          BY <1>1, <5>1, Zenon DEF CheckpointTypes
      <4>2. WeightSet = {}
        BY <4>1 DEF WeightSet
      <4>3. weights = <<>>
        BY <4>1, <4>2
      <4> QED
        BY <4>1, <4>3
    <3>3. CASE Len(Weights) # 0
      <4>1. n > 4 /\ n - 4 = Len(Weights)
        BY <2>6, <3>1, <3>3
      <4>2. weights = SubSeq(Weights, 1, Len(Weights))
        BY <2>5, <4>1
      <4>3. SubSeq(Weights, 1, Len(Weights)) = Weights
        BY <3>1
      <4> QED
        BY <4>2, <4>3, Zenon
    <3> QED
      BY <3>2, <3>3
  <2>11. outcome'.is = "restored"
    BY <1>2, <2>9
  <2> QED
    BY <1>2, <2>8, <2>10, <2>11 DEF Shows
<1>5. ASSUME stored.pass # NoKey \/ "flipped" \notin damaged PROVE Shows(stored, outcome', weights)
  <2>1. PICK n \in Nat : Follows(stored, reader, weights, n)
    BY <1>1, <1>5, Reading, Zenon
  <2> QED
    BY <1>4, <2>1
<1>6. ASSUME reader.intact PROVE Explains(stored, outcome')
  <2>1. PICK n \in Nat : Follows(stored, reader, weights, n)
    BY <1>1, <1>6, Reading, Zenon
  <2>2. outcome'.is # "refused"
    BY <1>4, <2>1
  <2> QED
    BY <1>1, <1>2, <1>6, <2>2, OpenedExplains, Zenon
<1> QED
  BY <1>1, <1>2, <1>3, <1>5, <1>6, CheckpointReaderEnds, Zenon

LEMMA CheckpointSteps ==
  ASSUME Checkpoint!CheckpointFileAssumption, CheckpointState, Checkpoint!Next \/ UNCHANGED checkpointVars
  PROVE  CheckpointState'
<1>1. CASE \E s \in Sessions, seal \in BOOLEAN, p \in Phrases \cup {NoKey} : Checkpoint!Save(s, seal, p)
  BY <1>1, CheckpointSaves
<1>2. CASE Checkpoint!WriteMore \/ Checkpoint!SaveStops
  BY <1>2, CheckpointWrites
<1>3. CASE Checkpoint!Carry
  BY <1>3, CheckpointCarried
<1>4. CASE \E k \in Phrases \cup {NoKey} : Checkpoint!Inspect(k) \/ Checkpoint!Restore(k)
  BY <1>4, CheckpointOpensPlain, CheckpointOpensEncrypted, CheckpointRefused
     DEF Checkpoint!Inspect, Checkpoint!Restore
<1>5. CASE Checkpoint!ReadPiece
  BY <1>5, CheckpointReads
<1>6. CASE Checkpoint!TakeEntry
  BY <1>6, CheckpointTakes
<1>7. CASE Checkpoint!Extract
  BY <1>7, CheckpointExtracts
<1>8. CASE Checkpoint!EndOfArchive
  BY <1>8, CheckpointEnds
<1>9. CASE Checkpoint!ReaderStops
  <2>1. reader.on /\ reader' = Checkpoint!Nowhere /\ UNCHANGED <<file, pending, stored, damaged, weights, outcome>>
    BY <1>9 DEF Checkpoint!ReaderStops
  <2> QED
    BY <2>1, CheckpointReaderEnds
<1>10. CASE Checkpoint!Again \/ UNCHANGED checkpointVars
  BY <1>10, CheckpointGoesOn
<1> QED
  BY <1>1, <1>2, <1>3, <1>4, <1>5, <1>6, <1>7, <1>8, <1>9, <1>10 DEF Checkpoint!Next

LEMMA CheckpointStarts ==
  ASSUME Checkpoint!CheckpointFileAssumption, Checkpoint!Init
  PROVE  CheckpointState
<1>1. /\ pending = <<>> /\ damaged = {} /\ weights = <<>> /\ reader = Checkpoint!Nowhere
      /\ outcome = Checkpoint!NoOutcome /\ MaxSaves \in Nat
  BY DEF Checkpoint!Init, Checkpoint!CheckpointFileAssumption
<1>2. Saved(stored) /\ file = Whole(stored)
  <2>1. CASE file = <<>> /\ stored = Checkpoint!Nothing
    BY <1>1, <2>1 DEF Saved, SaveSet, Checkpoint!Nothing, Whole
  <2>2. CASE \E s \in Sessions, p \in Phrases :
               /\ stored = [session |-> s, seal |-> FALSE, pass |-> p, by |-> 0]
               /\ file = Checkpoint!Legacy(stored)
    <3>1. PICK s \in Sessions, p \in Phrases :
            /\ stored = [session |-> s, seal |-> FALSE, pass |-> p, by |-> 0]
            /\ file = Checkpoint!Legacy(stored)
      BY <2>2
    <3>2. stored.by = 0 /\ stored.session = s /\ stored.pass = p /\ p # NoKey /\ stored \in SaveSet
      BY <3>1 DEF SaveSet, Checkpoint!CheckpointFileAssumption
    <3>3. stored # Checkpoint!Nothing
      BY <3>2 DEF Checkpoint!Nothing
    <3> QED
      BY <1>1, <3>1, <3>2, <3>3 DEF Saved, Whole
  <2> QED
    BY <2>1, <2>2 DEF Checkpoint!Init
<1>3. AsWritten(stored, file) /\ file \in Seq(PieceSet)
  BY <1>2, WholeIs DEF AsWritten
<1>4. CheckpointTypes
  BY <1>1, <1>2, <1>3, NowhereIs DEF CheckpointTypes
<1>5. FileIs
  <2>1. file \o pending = file
    BY <1>1, <1>3
  <2>2. ("flipped" \in damaged) = FALSE
    BY <1>1
  <2>3. AllPieces(stored, file, FALSE)
    BY <1>3, Zenon DEF AsWritten, AllPieces
  <2>4. AllPieces(stored, file, "flipped" \in damaged)
    BY <2>2, <2>3, Zenon
  <2> QED
    BY <1>1, <1>2, <2>1, <2>4 DEF FileIs
<1>6. ReaderIs /\ ShownIs
  BY <1>1, NowhereIs, NothingRead
<1> QED
  BY <1>4, <1>5, <1>6 DEF CheckpointState

LEMMA CheckpointShows ==
  ASSUME Checkpoint!CheckpointFileAssumption, CheckpointState
  PROVE  Checkpoint!TypeOK /\ Checkpoint!RestoredIsSaved /\ Checkpoint!RefusedForAReason
<1>1. CheckpointTypes /\ ShownIs
  BY DEF CheckpointState
<1>2. \A i \in DOMAIN file : file[i].kind \in {"plain", "magic", "oldMagic", "salt", "frame"}
  <2>1. \A i \in DOMAIN file : file[i] \in PieceSet
    BY <1>1 DEF CheckpointTypes
  <2> QED
    BY <2>1 DEF PieceSet
<1>3. stored.session \in Sessions \cup {Other} /\ stored.by \in 0 .. MaxSaves
  BY <1>1 DEF CheckpointTypes, Saved, SaveSet, Checkpoint!CheckpointFileAssumption
<1>4. Checkpoint!Range(weights) \subseteq Checkpoint!Range(Weights) \cup {Other}
  <2>1. \A i \in DOMAIN weights : weights[i] \in WeightSet
    BY <1>1 DEF CheckpointTypes
  <2> QED
    BY <2>1 DEF Checkpoint!Range, WeightSet
<1>5. reader.on \in BOOLEAN /\ damaged \subseteq {"cut", "mixed", "flipped"}
  BY <1>1 DEF CheckpointTypes
<1>6. outcome.is \in {"none", "refused", "inspected", "restored"}
  <2>1. CASE outcome = Checkpoint!NoOutcome
    BY <2>1, Zenon DEF Checkpoint!NoOutcome
  <2>2. CASE outcome # Checkpoint!NoOutcome
    BY <1>1, <2>2 DEF CheckpointTypes
  <2> QED
    BY <2>1, <2>2
<1>7. Checkpoint!TypeOK
  BY <1>2, <1>3, <1>4, <1>5, <1>6 DEF Checkpoint!TypeOK
<1>8. Checkpoint!RestoredIsSaved /\ Checkpoint!RefusedForAReason
  BY <1>1, Zenon DEF ShownIs, Shows, Explains, Checkpoint!RestoredIsSaved, Checkpoint!RefusedForAReason,
              Checkpoint!Entries, Entry4
<1> QED
  BY <1>7, <1>8

(* A checkpoint restores all that was saved, whatever happened to an       *)
(* encrypted file and however a plain one was cut, and an intact one is    *)
(* refused for the key and nothing else (Save and Load of checkpoint.go,   *)
(* frameReader of encrypt.go), for any number of saves, whatever the size  *)
(* of a frame, the sessions, the weights and the passphrases.              *)
THEOREM CheckpointsKept == PartsSpec => []CheckpointsRestore
<1>1. PartsInit => CheckpointInv
  BY CheckpointStarts, CheckpointAssumption DEF PartsInit, CheckpointInv
<1>2. CheckpointInv /\ [PartsNext]_all => CheckpointInv'
  BY StepOfPart, CheckpointSteps, CheckpointAssumption DEF CheckpointInv
<1>3. CheckpointInv => CheckpointsRestore
  BY CheckpointShows, CheckpointAssumption DEF CheckpointInv, CheckpointsRestore
<1> QED
  BY <1>1, <1>2, <1>3, PTL DEF PartsSpec

-----------------------------------------------------------------------------
(* Evaluations: what a suite earned on a target.                           *)
Texts == {"pass", "fail", "error"}
Solid(o) ==
  {c \in DOMAIN o : o[1][1] # "error" /\ \A i \in DOMAIN o[c] : o[c][i] = "pass"}
Percent(o) == (100 * Eval!Cardinality(Solid(o))) \div Len(o)

LEMMA EvalCardinality == \A S : Eval!Cardinality(S) = Cardinality(S)
BY DEF Eval!Cardinality, Cardinality

LEMMA SizeOf ==
  ASSUME NEW n \in Nat, NEW P, P \subseteq 1..n
  PROVE  /\ Eval!Cardinality(P) \in Nat /\ Eval!Cardinality(P) <= n
         /\ Eval!Cardinality(P) = n <=> P = 1..n
<1>1. IsFiniteSet(1..n) /\ Cardinality(1..n) = n
  BY FS_Interval
<1>2. IsFiniteSet(P) /\ Cardinality(P) <= Cardinality(1..n) /\ (Cardinality(1..n) = Cardinality(P) => 1..n = P)
  BY <1>1, FS_Subset
<1>3. Cardinality(P) \in Nat
  BY <1>2, FS_CardinalityType
<1> QED
  BY <1>1, <1>2, <1>3, EvalCardinality

(* A case passes when every one of its repeats does.                       *)
LEMMA AllPass ==
  ASSUME NEW outs \in Seq(Texts), outs # <<>>
  PROVE  Eval!Passed(Eval!CaseResult(outs)) <=> \A i \in DOMAIN outs : outs[i] = "pass"
<1>1. PICK c : c = Eval!CaseResult(outs)
  OBVIOUS
<1>2. PICK ran : ran = Eval!UpToError(outs)
  OBVIOUS
<1>3. c.runs = Len(ran) /\ c.passes = Eval!Cardinality({i \in DOMAIN ran : ran[i] = "pass"})
  BY <1>1, <1>2 DEF Eval!CaseResult
<1>4. c.error <=> \E i \in DOMAIN outs : outs[i] = "error"
  BY <1>1 DEF Eval!CaseResult
<1>5. CASE \E i \in DOMAIN outs : outs[i] = "error"
  <2>1. ~Eval!Passed(c)
    BY <1>4, <1>5 DEF Eval!Passed
  <2>2. ~\A i \in DOMAIN outs : outs[i] = "pass"
    BY <1>5
  <2> QED
    BY <1>1, <2>1, <2>2
<1>6. CASE ~\E i \in DOMAIN outs : outs[i] = "error"
  <2>1. ran = outs
    BY <1>2, <1>6 DEF Eval!UpToError
  <2>2. PICK n \in Nat : n = Len(outs) /\ DOMAIN outs = 1..n /\ n > 0
    BY DEF Texts
  <2>3. PICK P : P = {i \in DOMAIN outs : outs[i] = "pass"}
    OBVIOUS
  <2>4. P \subseteq 1..n /\ c.runs = n /\ c.passes = Eval!Cardinality(P)
    BY <1>3, <2>1, <2>2, <2>3
  <2>5. c.passes = c.runs <=> P = 1..n
    BY <2>4, SizeOf
  <2>6. Eval!Passed(c) <=> P = 1..n
    BY <1>4, <1>6, <2>2, <2>4, <2>5 DEF Eval!Passed
  <2>7. P = 1..n <=> \A i \in DOMAIN outs : outs[i] = "pass"
    BY <2>2, <2>3
  <2> QED
    BY <1>1, <2>6, <2>7
<1> QED
  BY <1>5, <1>6

Outcome == Seq(Seq(Texts) \ {<<>>}) \ {<<>>}

LEMMA Share ==
  ASSUME NEW n \in Nat \ {0}, NEW k \in Nat
  PROVE  (100 * k) \div n \in Nat /\ (100 * 0) \div n = 0
<1>1. 100 * k \in Nat /\ 100 * 0 = 0
  OBVIOUS
<1>2. 0 \div n = 0
  OBVIOUS
<1> QED
  BY <1>1, <1>2, Quotient

(* What RunTarget reports is that, and nothing where the first generation  *)
(* failed.                                                                 *)
LEMMA TargetIs ==
  ASSUME NEW o \in Outcome, NEW label
  PROVE  LET t == Eval!RunTarget(label, o) IN
           /\ t.error <=> o[1][1] = "error"
           /\ Eval!Rate(t) = Percent(o) /\ Percent(o) \in Nat
           /\ t.error => Percent(o) = 0
<1>1. PICK t : t = Eval!RunTarget(label, o)
  OBVIOUS
<1>2. o \in Seq(Seq(Texts)) /\ Len(o) \in Nat \ {0} /\ DOMAIN o = 1..Len(o) /\ \A c \in DOMAIN o : o[c] \in Seq(Texts) /\ o[c] # <<>>
  BY DEF Outcome
<1>3. Solid(o) \subseteq 1..Len(o)
  BY <1>2 DEF Solid
<1>4. Percent(o) \in Nat
  BY <1>2, <1>3, SizeOf, Share DEF Percent
<1>5. t.error <=> o[1][1] = "error"
  BY <1>1 DEF Eval!RunTarget
<1>6. CASE o[1][1] = "error"
  <2>1. t.total = 0
    BY <1>1, <1>6 DEF Eval!RunTarget
  <2>2. Solid(o) = {}
    BY <1>6 DEF Solid
  <2>3. Eval!Cardinality(Solid(o)) = 0
    BY <2>2, FS_EmptySet, EvalCardinality
  <2>4. Percent(o) = 0
    BY <1>2, <2>3, Share DEF Percent
  <2> QED
    BY <1>1, <1>4, <1>5, <2>1, <2>4 DEF Eval!Rate
<1>7. CASE o[1][1] # "error"
  <2>1. PICK cases : cases = [i \in DOMAIN o |-> Eval!CaseResult(o[i])]
    OBVIOUS
  <2>2. t.total = Len(cases) /\ t.passed = Eval!Cardinality({i \in DOMAIN cases : Eval!Passed(cases[i])})
    BY <1>1, <1>7, <2>1 DEF Eval!RunTarget
  <2>3. DOMAIN cases = DOMAIN o /\ Len(cases) = Len(o)
    BY <1>2, <2>1
  <2>4. {i \in DOMAIN cases : Eval!Passed(cases[i])} = Solid(o)
    <3>1. \A i \in DOMAIN o : cases[i] = Eval!CaseResult(o[i])
      BY <2>1
    <3>2. \A i \in DOMAIN o : Eval!Passed(cases[i]) <=> \A j \in DOMAIN o[i] : o[i][j] = "pass"
      BY <1>2, <3>1, AllPass
    <3> QED
      BY <1>7, <2>3, <3>2 DEF Solid
  <2>5. t.passed = Eval!Cardinality(Solid(o)) /\ t.total = Len(o)
    BY <2>2, <2>3, <2>4
  <2>6. Eval!Rate(t) = Percent(o)
    BY <1>2, <2>5 DEF Eval!Rate, Percent
  <2> QED
    BY <1>1, <1>4, <1>5, <1>7, <2>6
<1> QED
  BY <1>6, <1>7

LEMMA AtMostAll ==
  ASSUME NEW o \in Outcome
  PROVE  Percent(o) \in 0..100
<1>1. Len(o) \in Nat \ {0} /\ DOMAIN o = 1..Len(o)
  BY DEF Outcome
<1>2. PICK n \in Nat \ {0} : n = Len(o)
  BY <1>1, Zenon
<1>3. PICK k : k = Eval!Cardinality(Solid(o))
  OBVIOUS
<1>4. k \in Nat /\ k <= n
  <2>1. Solid(o) \subseteq 1..n
    BY <1>1, <1>2 DEF Solid
  <2> QED
    BY <1>3, <2>1, SizeOf
<1>5. PICK q \in Nat : q = (100 * k) \div n /\ q * n <= 100 * k
  <2>1. 100 * k \in Nat
    BY <1>4
  <2> QED
    BY <2>1, Quotient
<1>6. q <= 100
  <2> SUFFICES ASSUME 101 <= q PROVE FALSE
    BY <1>5
  <2>1. 101 * n <= q * n
    BY Monotone
  <2>2. q * n \in Nat
    BY <1>5
  <2> QED
    BY <1>4, <1>5, <2>1, <2>2
<1> QED
  <2>1. Percent(o) = q
    BY <1>2, <1>3, <1>5, Zenon DEF Percent
  <2> QED
    BY <1>5, <1>6, <2>1

LEMMA LargestIs ==
  ASSUME NEW T \in SUBSET Nat, T # {}, NEW n \in Nat, \A u \in T : u <= n
  PROVE  Eval!Max(T) \in T /\ \A u \in T : u <= Eval!Max(T)
<1>1. PICK t \in T : \A u \in T : u <= t
  BY HasGreatest
<1>2. \E t_1 \in T : \A u \in T : t_1 >= u
  BY <1>1
<1>3. PICK m : m = Eval!Max(T)
  OBVIOUS
<1>4. m \in T /\ \A u \in T : m >= u
  BY <1>2, <1>3 DEF Eval!Max
<1> QED
  BY <1>3, <1>4

LEMMA SmallestIs ==
  ASSUME NEW T \in SUBSET Nat, T # {}
  PROVE  Eval!Min(T) \in T
<1>1. \E t \in T : \A u \in T : t <= u
  BY HasLeast
<1> QED
  BY <1>1 DEF Eval!Min

(* What a suite earned on the first n targets, and whether it ran on one.  *)
Shares(o, n) == {Percent(o[t]) : t \in 1..n}
ShareOf(o, n) == Eval!Max(Shares(o, n))
Results(on, o, n) == [t \in 1..n |-> Eval!RunTarget(on[t], o[t])]
RanOn(o, n) == \E t \in 1..n : o[t][1][1] # "error"

LEMMA ShareIs ==
  ASSUME NEW n \in Nat \ {0}, NEW o, \A t \in 1..n : o[t] \in Outcome
  PROVE  /\ ShareOf(o, n) \in Nat /\ \A t \in 1..n : Percent(o[t]) <= ShareOf(o, n)
         /\ \E t \in 1..n : Percent(o[t]) = ShareOf(o, n)
<1>1. \A t \in 1..n : Percent(o[t]) \in Nat /\ Percent(o[t]) <= 100
  BY AtMostAll
<1>2. PICK T : T = Shares(o, n)
  OBVIOUS
<1>3. T \in SUBSET Nat /\ (\A u \in T : u <= 100) /\ 100 \in Nat
  BY <1>1, <1>2 DEF Shares
<1>4. 1 \in 1..n
  OBVIOUS
<1>5. Percent(o[1]) \in T
  BY <1>2, <1>4 DEF Shares
<1>6. Eval!Max(T) \in T /\ \A u \in T : u <= Eval!Max(T)
  BY <1>3, <1>5, LargestIs
<1>7. PICK m : m = ShareOf(o, n)
  OBVIOUS
<1>8. m \in T /\ \A u \in T : u <= m
  BY <1>2, <1>6, <1>7 DEF ShareOf
<1>9. \A t \in 1..n : Percent(o[t]) \in T
  BY <1>2 DEF Shares
<1>10. \E t \in 1..n : Percent(o[t]) = m
  BY <1>2, <1>8 DEF Shares
<1> QED
  BY <1>3, <1>7, <1>8, <1>9, <1>10

(* A report's best target has that, and there is none that ran without it. *)
LEMMA ReportIs ==
  ASSUME NEW n \in Nat \ {0}, NEW o, \A t \in 1..n : o[t] \in Outcome, NEW on, NEW r,
         r.targets = Results(on, o, n)
  PROVE  /\ Eval!Best(r) # 0 <=> RanOn(o, n)
         /\ Eval!Best(r) # 0 => Eval!BestRate(r) = ShareOf(o, n)
         /\ Eval!Best(r) = 0 => ShareOf(o, n) = 0
<1>1. ASSUME NEW t \in 1..n
      PROVE  /\ r.targets[t].error <=> o[t][1][1] = "error"
             /\ Eval!Rate(r.targets[t]) = Percent(o[t]) /\ Percent(o[t]) \in Nat
             /\ o[t][1][1] = "error" => Percent(o[t]) = 0
  <2>1. r.targets[t] = Eval!RunTarget(on[t], o[t])
    BY DEF Results
  <2> QED
    BY <2>1, TargetIs
<1>20. DOMAIN r.targets = 1..n
  BY DEF Results
<1>2. PICK ran : ran = {t \in DOMAIN r.targets : ~r.targets[t].error}
  OBVIOUS
<1>3. PICK top : top = {t \in ran : \A u \in ran : Eval!Rate(r.targets[u]) <= Eval!Rate(r.targets[t])}
  OBVIOUS
<1>4. ran = {t \in 1..n : o[t][1][1] # "error"} /\ ran \subseteq 1..n
  BY <1>1, <1>2, <1>20
<1>5. top = {t \in ran : \A u \in ran : Percent(o[u]) <= Percent(o[t])}
  BY <1>1, <1>3, <1>4
<1>6. Eval!Best(r) = IF ran = {} THEN 0 ELSE Eval!Min(top)
  BY <1>2, <1>3 DEF Eval!Best
<1>7. PICK m : m = ShareOf(o, n)
  OBVIOUS
<1>8. m \in Nat /\ (\A t \in 1..n : Percent(o[t]) <= m) /\ \E t \in 1..n : Percent(o[t]) = m
  BY <1>7, ShareIs
<1>9. PICK w \in 1..n : Percent(o[w]) = m
  BY <1>8
<1>10. CASE ran = {}
  <2>1. m = 0
    BY <1>1, <1>4, <1>9, <1>10
  <2> QED
    BY <1>4, <1>6, <1>7, <1>10, <2>1 DEF RanOn
<1>11. CASE ran # {}
  <2>1. \E t \in ran : Percent(o[t]) = m
    <3>1. CASE w \in ran
      BY <1>9, <3>1
    <3>2. CASE w \notin ran
      <4>1. m = 0
        BY <1>1, <1>4, <1>9, <3>2
      <4>2. PICK t \in ran : TRUE
        BY <1>11
      <4>3. Percent(o[t]) = m
        BY <1>1, <1>4, <1>8, <4>1
      <4> QED
        BY <4>3
    <3> QED
      BY <3>1, <3>2
  <2>2. top # {} /\ \A t \in top : Percent(o[t]) = m
    BY <1>1, <1>4, <1>5, <1>8, <2>1
  <2>3. top \in SUBSET Nat
    BY <1>4, <1>5
  <2>4. PICK b : b = Eval!Best(r)
    OBVIOUS
  <2>5. b \in top
    BY <1>6, <1>11, <2>2, <2>3, <2>4, SmallestIs
  <2>6. b \in 1..n /\ b # 0 /\ Percent(o[b]) = m
    BY <1>4, <1>5, <2>2, <2>5
  <2>7. Eval!BestRate(r) = m
    BY <1>1, <2>4, <2>6 DEF Eval!BestRate
  <2>8. RanOn(o, n)
    BY <1>4, <1>11 DEF RanOn
  <2> QED
    BY <1>7, <2>4, <2>6, <2>7, <2>8
<1> QED
  BY <1>10, <1>11

(* Of one or two rows that are in order, the first is at the top.          *)
RowSet == [model : Models, size : Nat, error : BOOLEAN, rate : Nat]

LEMMA TopIs ==
  ASSUME NEW k \in {1, 2}, NEW rows \in [1..k -> RowSet], NEW S \in SUBSET (1..k), S # {}
  PROVE  \E i \in S : \A j \in S \ {i} : Eval!Above(rows, i, j)
<1>1. ASSUME NEW i \in 1..k, NEW j \in 1..k, i # j PROVE Eval!Above(rows, i, j) \/ Eval!Above(rows, j, i)
  <2>1. rows[i] \in RowSet /\ rows[j] \in RowSet
    OBVIOUS
  <2>2. rows[i].rate \in Nat /\ rows[j].rate \in Nat /\ i \in Nat /\ j \in Nat
    BY <2>1 DEF RowSet
  <2>3. CASE rows[i].error # rows[j].error
    <3>1. rows[i].error \in BOOLEAN /\ rows[j].error \in BOOLEAN
      BY <2>1 DEF RowSet
    <3>2. ~rows[i].error \/ ~rows[j].error
      BY <2>3, <3>1
    <3> QED
      BY <2>3, <3>2 DEF Eval!Above
  <2>4. CASE rows[i].error = rows[j].error
    BY <1>1, <2>2, <2>4 DEF Eval!Above
  <2> QED
    BY <2>3, <2>4
<1>2. S \subseteq {1, 2}
  OBVIOUS
<1>3. CASE S = {1} \/ S = {2}
  BY <1>3
<1>4. CASE S = {1, 2}
  <2>1. 1 \in 1..k /\ 2 \in 1..k
    BY <1>4
  <2>2. Eval!Above(rows, 1, 2) \/ Eval!Above(rows, 2, 1)
    BY <1>1, <2>1
  <2> QED
    BY <1>4, <2>2
<1>5. S = {1} \/ S = {2} \/ S = {1, 2}
  <2>1. CASE 1 \in S /\ 2 \in S
    BY <1>2, <2>1
  <2>2. CASE 1 \in S /\ 2 \notin S
    BY <1>2, <2>2
  <2>3. CASE 1 \notin S
    BY <1>2, <2>3
  <2> QED
    BY <2>1, <2>2, <2>3
<1> QED
  BY <1>3, <1>4, <1>5

RanRows(rows) == {i \in DOMAIN rows : ~rows[i].error}
TopRow(rows) ==
  CHOOSE i \in RanRows(rows) : \A j \in RanRows(rows) \ {i} : Eval!Above(rows, i, j)
Sized(rows) ==
  {i \in RanRows(rows) : rows[i].rate = rows[TopRow(rows)].rate /\ rows[i].size > 0}
Least(rows) == {i \in Sized(rows) : \A j \in Sized(rows) : rows[i].size <= rows[j].size}

LEMMA CheapestOf ==
  ASSUME NEW rows
  PROVE  Eval!Cheapest(rows) =
           IF RanRows(rows) = {} THEN 0
           ELSE IF Sized(rows) = {} \/ TopRow(rows) \in Least(rows) THEN TopRow(rows)
           ELSE CHOOSE i \in Least(rows) : \A j \in Least(rows) \ {i} : Eval!Above(rows, i, j)
BY Zenon DEF Eval!Cheapest, RanRows, TopRow, Sized, Least

(* The cheapest of them did as well as any, and is the smallest that did.  *)
LEMMA CheapestIs ==
  ASSUME NEW k \in {1, 2}, NEW rows \in [1..k -> RowSet],
         \A i \in 1..k : rows[i].error => rows[i].rate = 0, Eval!Cheapest(rows) # 0
  PROVE  LET c == Eval!Cheapest(rows) IN
           /\ c \in 1..k
           /\ \A i \in 1..k : rows[i].rate <= rows[c].rate
           /\ \A i \in 1..k : rows[i].rate = rows[c].rate /\ ~rows[i].error /\ rows[i].size > 0 =>
                rows[c].size \in 1..rows[i].size
<1>1. PICK ran : ran = RanRows(rows)
  OBVIOUS
<1>2. PICK top : top = TopRow(rows)
  OBVIOUS
<1>3. PICK sized : sized = Sized(rows)
  OBVIOUS
<1>4. PICK least : least = Least(rows)
  OBVIOUS
<1>5. PICK c : c = Eval!Cheapest(rows)
  OBVIOUS
<1>6. c = IF ran = {} THEN 0
          ELSE IF sized = {} \/ top \in least THEN top
          ELSE CHOOSE i \in least : \A j \in least \ {i} : Eval!Above(rows, i, j)
  BY <1>1, <1>2, <1>3, <1>4, <1>5, CheapestOf
<1>20. ran = {i \in DOMAIN rows : ~rows[i].error}
  BY <1>1 DEF RanRows
<1>21. top = CHOOSE i \in ran : \A j \in ran \ {i} : Eval!Above(rows, i, j)
  BY <1>1, <1>2, Zenon DEF TopRow
<1>22. sized = {i \in ran : rows[i].rate = rows[top].rate /\ rows[i].size > 0}
  BY <1>1, <1>2, <1>3 DEF Sized
<1>23. least = {i \in sized : \A j \in sized : rows[i].size <= rows[j].size}
  BY <1>3, <1>4 DEF Least
<1>7. ran # {} /\ ran \in SUBSET (1..k)
  BY <1>20, <1>5, <1>6
<1>8. top \in ran /\ \A j \in ran \ {top} : Eval!Above(rows, top, j)
  <2>1. \E i \in ran : \A j \in ran \ {i} : Eval!Above(rows, i, j)
    BY <1>7, TopIs
  <2> QED
    BY <1>21, <2>1
<1>9. \A i \in 1..k : rows[i] \in RowSet /\ rows[i].rate \in Nat /\ rows[i].size \in Nat /\ rows[i].error \in BOOLEAN
  BY DEF RowSet
<1>10. ASSUME NEW i \in ran PROVE rows[i].rate <= rows[top].rate
  <2>1. CASE i = top
    BY <1>7, <1>9, <2>1
  <2>2. CASE i # top
    <3>1. Eval!Above(rows, top, i) /\ i \in 1..k /\ top \in 1..k
      BY <1>7, <1>8, <2>2
    <3>2. rows[i].error = rows[top].error
      BY <1>20, <1>8, <1>9, <3>1
    <3> QED
      BY <1>9, <3>1, <3>2 DEF Eval!Above
  <2> QED
    BY <2>1, <2>2
<1>11. ASSUME NEW i \in 1..k PROVE rows[i].rate <= rows[top].rate
  <2>1. CASE i \in ran
    BY <1>10, <2>1
  <2>2. CASE i \notin ran
    <3>1. rows[i].rate = 0 /\ top \in 1..k
      BY <1>20, <1>7, <1>8, <2>2
    <3> QED
      BY <1>9, <3>1
  <2> QED
    BY <2>1, <2>2
<1>12. sized \in SUBSET (1..k) /\ least \in SUBSET (1..k) /\ least \subseteq sized
  BY <1>22, <1>23, <1>7
<1>13. ASSUME sized # {} PROVE least # {}
  <2>1. PICK T : T = {rows[i].size : i \in sized}
    OBVIOUS
  <2>2. T \in SUBSET Nat /\ T # {}
    BY <1>9, <1>12, <1>13, <2>1
  <2>3. PICK t \in T : \A u \in T : t <= u
    BY <2>2, HasLeast
  <2>4. PICK i \in sized : rows[i].size = t
    BY <2>1, <2>3
  <2>5. \A j \in sized : rows[i].size <= rows[j].size
    BY <2>1, <2>3, <2>4
  <2> QED
    BY <1>23, <2>4, <2>5
<1>14. c \in 1..k /\ rows[c].rate = rows[top].rate /\ (sized # {} => c \in least)
  <2>1. CASE sized = {} \/ top \in least
    BY <1>6, <1>7, <1>8, <2>1
  <2>2. CASE ~(sized = {} \/ top \in least)
    <3>1. \E i \in least : \A j \in least \ {i} : Eval!Above(rows, i, j)
      BY <1>12, <1>13, <2>2, TopIs
    <3>2. c \in least
      BY <1>6, <1>7, <2>2, <3>1
    <3> QED
      BY <1>22, <1>12, <3>2
  <2> QED
    BY <2>1, <2>2
<1>15. ASSUME NEW i \in 1..k, rows[i].rate = rows[c].rate, ~rows[i].error, rows[i].size > 0
       PROVE  rows[c].size \in 1..rows[i].size
  <2>1. i \in sized
    BY <1>20, <1>22, <1>14, <1>15
  <2>2. c \in least
    BY <1>14, <2>1
  <2>3. rows[c].size > 0 /\ rows[c].size <= rows[i].size
    BY <1>22, <1>23, <2>1, <2>2
  <2> QED
    BY <1>9, <1>14, <2>3
<1> QED
  BY <1>5, <1>11, <1>14, <1>15

-----------------------------------------------------------------------------
(* What an evaluation says, in these terms.                                *)
EarnedIn(sh, n) ==
  /\ \A m \in DOMAIN sh.raw : DOMAIN sh.reports[m].targets = 1..n
  /\ sh.ok => \E m \in DOMAIN sh.raw : ShareOf(sh.raw[m], n) >= Bar
  /\ sh.cheapest # 0 =>
       /\ sh.cheapest \in DOMAIN sh.raw
       /\ \A m \in DOMAIN sh.raw :
            /\ ShareOf(sh.raw[m], n) <= ShareOf(sh.raw[sh.cheapest], n)
            /\ ShareOf(sh.raw[m], n) = ShareOf(sh.raw[sh.cheapest], n) /\ RanOn(sh.raw[m], n)
               /\ Sizes[sh.reports[m].model] > 0 =>
                 Sizes[sh.reports[sh.cheapest].model] \in 1..Sizes[sh.reports[m].model]

LEMMA RowIs ==
  ASSUME Eval!EvaluationAssumption, NEW n \in Nat \ {0}, NEW o, \A t \in 1..n : o[t] \in Outcome,
         NEW on, NEW r, r.targets = Results(on, o, n), r.model \in Models
  PROVE  /\ Eval!Row(r) \in RowSet
         /\ Eval!Row(r).rate = ShareOf(o, n) /\ Eval!Row(r).size = Sizes[r.model]
         /\ Eval!Row(r).error <=> ~RanOn(o, n)
         /\ Eval!Row(r).error => Eval!Row(r).rate = 0
<1>1. PICK b : b = Eval!Best(r)
  OBVIOUS
<1>2. PICK s : s = ShareOf(o, n)
  OBVIOUS
<1>3. /\ s \in Nat /\ (b # 0 <=> RanOn(o, n)) /\ (b # 0 => Eval!BestRate(r) = s)
      /\ b = 0 => s = 0
  BY <1>1, <1>2, ReportIs, ShareIs
<1>4. PICK x : x = Eval!Row(r)
  OBVIOUS
<1>5. x = [model |-> r.model, size |-> Sizes[r.model], error |-> b = 0,
           rate |-> IF b = 0 THEN 0 ELSE Eval!BestRate(r)]
  BY <1>1, <1>4, Zenon DEF Eval!Row
<1>6. x.rate = s
  BY <1>3, <1>5
<1>7. x.error <=> b = 0
  BY <1>5
<1>8. Sizes[r.model] \in Nat
  BY DEF Eval!EvaluationAssumption
<1>9. x \in RowSet
  <2>1. (b = 0) \in BOOLEAN
    OBVIOUS
  <2>2. (IF b = 0 THEN 0 ELSE Eval!BestRate(r)) \in Nat
    BY <1>3
  <2> QED
    BY <1>5, <1>8, <2>1, <2>2 DEF RowSet
<1>10. x.size = Sizes[r.model]
  BY <1>5
<1> QED
  BY <1>2, <1>3, <1>4, <1>6, <1>7, <1>9, <1>10

LEMMA EarnedBy ==
  ASSUME Eval!EvaluationAssumption, NEW n \in Nat \ {0}, NEW on, NEW k \in {1, 2},
         NEW reports, NEW raw, DOMAIN reports = 1..k, DOMAIN raw = 1..k,
         \A m \in 1..k : /\ reports[m].model \in Models /\ \A t \in 1..n : raw[m][t] \in Outcome
                         /\ reports[m].targets = Results(on, raw[m], n),
         NEW sh, sh.reports = reports, sh.raw = raw, sh.ok = Eval!Exit(reports),
         sh.cheapest = Eval!Cheapest([i \in DOMAIN reports |-> Eval!Row(reports[i])])
  PROVE  EarnedIn(sh, n)
<1>1. ASSUME NEW m \in 1..k
      PROVE  /\ Eval!Row(reports[m]) \in RowSet
             /\ Eval!Row(reports[m]).rate = ShareOf(raw[m], n)
             /\ Eval!Row(reports[m]).size = Sizes[reports[m].model]
             /\ Eval!Row(reports[m]).error <=> ~RanOn(raw[m], n)
             /\ Eval!Row(reports[m]).error => Eval!Row(reports[m]).rate = 0
  <2>1. PICK r : r = reports[m]
    OBVIOUS
  <2>2. PICK o : o = raw[m]
    OBVIOUS
  <2>3. /\ \A t \in 1..n : o[t] \in Outcome
        /\ r.targets = Results(on, o, n) /\ r.model \in Models
    BY <2>1, <2>2
  <2>4. /\ Eval!Row(r) \in RowSet
        /\ Eval!Row(r).rate = ShareOf(o, n) /\ Eval!Row(r).size = Sizes[r.model]
        /\ Eval!Row(r).error <=> ~RanOn(o, n)
        /\ Eval!Row(r).error => Eval!Row(r).rate = 0
    BY <2>3, RowIs
  <2> QED
    BY <2>1, <2>2, <2>4
<1>2. ASSUME NEW m \in 1..k
      PROVE  /\ ShareOf(raw[m], n) \in Nat
             /\ Eval!Best(reports[m]) # 0 => Eval!BestRate(reports[m]) = ShareOf(raw[m], n)
  <2>1. PICK r : r = reports[m]
    OBVIOUS
  <2>2. PICK o : o = raw[m]
    OBVIOUS
  <2>3. /\ \A t \in 1..n : o[t] \in Outcome
        /\ r.targets = Results(on, o, n)
    BY <2>1, <2>2
  <2>4. ShareOf(o, n) \in Nat /\ (Eval!Best(r) # 0 => Eval!BestRate(r) = ShareOf(o, n))
    BY <2>3, ReportIs, ShareIs
  <2> QED
    BY <2>1, <2>2, <2>4
<1>3. \A m \in DOMAIN sh.raw : DOMAIN sh.reports[m].targets = 1..n
  BY DEF Results
<1>4. ASSUME sh.ok PROVE \E m \in DOMAIN sh.raw : ShareOf(sh.raw[m], n) >= Bar
  <2>1. Eval!Exit(reports)
    BY <1>4
  <2>2. PICK m \in DOMAIN reports :
          Eval!Best(reports[m]) # 0 /\ (Bar = 0 \/ Eval!BestRate(reports[m]) >= Bar)
    BY <2>1 DEF Eval!Exit
  <2>3. m \in 1..k /\ ShareOf(raw[m], n) \in Nat
    BY <1>2, <2>2
  <2>4. ShareOf(raw[m], n) >= Bar
    BY <1>2, <2>2, <2>3
  <2> QED
    BY <2>3, <2>4
<1>5. PICK rows : rows = [i \in 1..k |-> Eval!Row(reports[i])]
  OBVIOUS
<1>6. rows \in [1..k -> RowSet] /\ \A i \in 1..k : rows[i] = Eval!Row(reports[i])
  BY <1>1, <1>5
<1>7. sh.cheapest = Eval!Cheapest(rows)
  BY <1>5
<1>8. ASSUME sh.cheapest # 0
      PROVE  /\ sh.cheapest \in DOMAIN sh.raw
             /\ \A m \in DOMAIN sh.raw :
                  /\ ShareOf(sh.raw[m], n) <= ShareOf(sh.raw[sh.cheapest], n)
                  /\ ShareOf(sh.raw[m], n) = ShareOf(sh.raw[sh.cheapest], n) /\ RanOn(sh.raw[m], n)
                     /\ Sizes[sh.reports[m].model] > 0 =>
                       Sizes[sh.reports[sh.cheapest].model] \in 1..Sizes[sh.reports[m].model]
  <2>1. \A i \in 1..k : rows[i].error => rows[i].rate = 0
    BY <1>1, <1>6
  <2>2. PICK c : c = sh.cheapest
    OBVIOUS
  <2>3. /\ c \in 1..k
        /\ \A i \in 1..k : rows[i].rate <= rows[c].rate
        /\ \A i \in 1..k : rows[i].rate = rows[c].rate /\ ~rows[i].error /\ rows[i].size > 0 =>
             rows[c].size \in 1..rows[i].size
    BY <1>6, <1>7, <1>8, <2>1, <2>2, CheapestIs
  <2>4. ASSUME NEW m \in 1..k
        PROVE  /\ ShareOf(raw[m], n) <= ShareOf(raw[c], n)
               /\ ShareOf(raw[m], n) = ShareOf(raw[c], n) /\ RanOn(raw[m], n) /\ Sizes[reports[m].model] > 0 =>
                    Sizes[reports[c].model] \in 1..Sizes[reports[m].model]
    <3>1. /\ rows[m].rate = ShareOf(raw[m], n) /\ rows[c].rate = ShareOf(raw[c], n)
          /\ rows[m].size = Sizes[reports[m].model] /\ rows[c].size = Sizes[reports[c].model]
          /\ rows[m].error <=> ~RanOn(raw[m], n)
      BY <1>1, <1>6, <2>3
    <3> QED
      BY <2>3, <3>1
  <2> QED
    BY <2>2, <2>3, <2>4
<1> QED
  BY <1>3, <1>4, <1>8 DEF EarnedIn

-----------------------------------------------------------------------------
(* What an evaluation shows is as above.                                   *)
EvalState == clock \in Nat /\ (shown # None => \E n \in Nat : EarnedIn(shown, n))
EvalInv == part = "evaluation" => EvalState

LEMMA OutcomeIs ==
  ASSUME Eval!EvaluationAssumption, NEW outs \in Outcomes
  PROVE  \A t \in 1..Len(Targets) : outs[t] \in Outcome
<1>1. outs \in [DOMAIN Targets -> Seq(Eval!Repeats) \ {<<>>}] /\ DOMAIN Targets = 1..Len(Targets)
  BY DEF Eval!EvaluationAssumption
<1> QED
  BY <1>1 DEF Outcome, Texts, Eval!Repeats

LEMMA Evaluates ==
  ASSUME Eval!EvaluationAssumption, EvalState, NEW packed \in BOOLEAN, NEW all_1 \in BOOLEAN,
         NEW compare \in BOOLEAN, NEW other \in Models, NEW took \in 0..1,
         NEW outs \in Outcomes, NEW outs2 \in Outcomes,
         Eval!Eval(packed, all_1, other, outs, outs2, took, compare)
  PROVE  EvalState'
<1>1. PICK on : on = IF all_1 THEN Targets ELSE <<Targets[1]>>
  OBVIOUS
<1>2. PICK n \in Nat \ {0} : n <= Len(Targets) /\ DOMAIN on = 1..n
  <2>1. Len(Targets) \in Nat \ {0} /\ DOMAIN Targets = 1..Len(Targets)
    BY DEF Eval!EvaluationAssumption
  <2>2. DOMAIN <<Targets[1]>> = 1..1 /\ 1 <= Len(Targets)
    BY <2>1
  <2>3. CASE all_1
    BY <1>1, <2>1, <2>3
  <2>4. CASE ~all_1
    <3>1. on = <<Targets[1]>>
      BY <1>1, <2>4
    <3>2. DOMAIN on = 1..1
      BY <3>1
    <3> QED
      BY <2>2, <3>2
  <2> QED
    BY <2>3, <2>4
<1>3. PICK x : x = Results(on, outs, n)
  OBVIOUS
<1>4. PICK y : y = Results(on, outs2, n)
  OBVIOUS
<1>5. PICK own : own = Eval!Report(clock, packed, 1, x)
  OBVIOUS
<1>6. PICK second : second = Eval!Report(clock + took, packed, other, y)
  OBVIOUS
<1>7. PICK reports : reports = IF other = 1 THEN <<own>> ELSE <<own, second>>
  OBVIOUS
<1>8. PICK raw : raw = IF other = 1 THEN <<outs>> ELSE <<outs, outs2>>
  OBVIOUS
<1>9. PICK before : before = IF compare THEN Eval!Latest ELSE None
  OBVIOUS
<1>10. /\ clock' = clock + took + 1
       /\ shown' = [reports |-> reports, ok |-> Eval!Exit(reports), raw |-> raw,
                    diff |-> IF before = None THEN None ELSE Eval!Diff(before, own),
                    cheapest |-> Eval!Cheapest([i \in DOMAIN reports |-> Eval!Row(reports[i])])]
  BY <1>1, <1>2, <1>3, <1>4, <1>5, <1>6, <1>7, <1>8, <1>9, Zenon DEF Eval!Eval, Results
<1>11. clock \in Nat /\ took \in Nat /\ 1 \in Models
  BY DEF EvalState, Eval!EvaluationAssumption
<1>13. /\ own.model = 1 /\ own.targets = x
       /\ second.model = other /\ second.targets = y
  BY <1>5, <1>6 DEF Eval!Report
<1>15. \A t \in 1..n : outs[t] \in Outcome /\ outs2[t] \in Outcome
  BY <1>2, OutcomeIs
<1>16. EarnedIn(shown', n)
  <2>1. PICK k \in {1, 2} : k = IF other = 1 THEN 1 ELSE 2
    OBVIOUS
  <2>2. DOMAIN reports = 1..k /\ DOMAIN raw = 1..k
    <3>1. CASE other = 1
      <4>1. reports = <<own>> /\ raw = <<outs>> /\ k = 1
        BY <1>7, <1>8, <2>1, <3>1
      <4> QED
        BY <4>1
    <3>2. CASE other # 1
      <4>1. reports = <<own, second>> /\ raw = <<outs, outs2>> /\ k = 2
        BY <1>7, <1>8, <2>1, <3>2
      <4> QED
        BY <4>1
    <3> QED
      BY <3>1, <3>2
  <2>3. ASSUME NEW m \in 1..k
        PROVE  /\ reports[m].model \in Models /\ \A t \in 1..n : raw[m][t] \in Outcome
               /\ reports[m].targets = Results(on, raw[m], n)
    <3>1. CASE m = 1
      <4>1. reports[m] = own /\ raw[m] = outs
        BY <1>7, <1>8, <3>1
      <4> QED
        BY <1>3, <1>11, <1>13, <1>15, <4>1
    <3>2. CASE m = 2 /\ other # 1
      <4>1. reports[m] = second /\ raw[m] = outs2
        BY <1>7, <1>8, <3>2
      <4> QED
        BY <1>4, <1>13, <1>15, <4>1
    <3> QED
      BY <2>1, <3>1, <3>2
  <2>4. PICK sh : sh = shown'
    OBVIOUS
  <2>5. /\ sh.reports = reports /\ sh.raw = raw /\ sh.ok = Eval!Exit(reports)
        /\ sh.cheapest = Eval!Cheapest([i \in DOMAIN reports |-> Eval!Row(reports[i])])
    BY <1>10, <2>4
  <2>6. EarnedIn(sh, n)
    BY <2>2, <2>3, <2>5, EarnedBy, ZenonT(60)
  <2> QED
    BY <2>4, <2>6
<1>18. clock' \in Nat
  BY <1>10, <1>11
<1> QED
  BY <1>2, <1>16, <1>18 DEF EvalState

LEMMA EvalSteps ==
  ASSUME Eval!EvaluationAssumption, EvalState, Eval!Next \/ UNCHANGED evalVars
  PROVE  EvalState'
<1>1. ASSUME NEW packed \in BOOLEAN, NEW all_1 \in BOOLEAN, NEW compare \in BOOLEAN, NEW other \in Models,
             NEW took \in 0..1, NEW outs \in Outcomes, NEW outs2 \in Outcomes,
             Eval!Eval(packed, all_1, other, outs, outs2, took, compare)
      PROVE  EvalState'
  BY <1>1, Evaluates
<1>2. CASE Eval!Done
  <2>1. shown' = None /\ clock' = clock
    BY <1>2 DEF Eval!Done
  <2> QED
    BY <2>1 DEF EvalState
<1>3. CASE UNCHANGED <<clock, shown>>
  <2>1. shown' = shown /\ clock' = clock
    BY <1>3
  <2> QED
    BY <2>1 DEF EvalState, EarnedIn
<1>4. ASSUME NEW seal \in BOOLEAN, Eval!Edit(seal) PROVE EvalState'
  BY <1>3, <1>4 DEF Eval!Edit
<1>5. CASE UNCHANGED evalVars
  BY <1>3, <1>5 DEF evalVars
<1> QED
  BY <1>1, <1>2, <1>4, <1>5 DEF Eval!Next

LEMMA EvalShows ==
  ASSUME Eval!EvaluationAssumption, EvalState
  PROVE  Eval!ScoreIsEarned
<1> SUFFICES ASSUME shown # None PROVE Eval!ScoreIsEarned
  BY DEF Eval!ScoreIsEarned
<1>3. PICK n \in Nat : EarnedIn(shown, n)
  BY SMTT(30) DEF EvalState
<1> DEFINE solid(m, t) == {c \in DOMAIN shown.raw[m][t] :
                             /\ shown.raw[m][t][1][1] # "error"
                             /\ \A i \in DOMAIN shown.raw[m][t][c] : shown.raw[m][t][c][i] = "pass"}
           share(m) == Eval!Max({(100 * Eval!Cardinality(solid(m, t))) \div Len(shown.raw[m][t]) :
                              t \in DOMAIN shown.reports[m].targets})
           size(m) == Sizes[shown.reports[m].model]
           ran(m) == \E t \in DOMAIN shown.reports[m].targets : shown.raw[m][t][1][1] # "error"
<1>4. ASSUME NEW m \in DOMAIN shown.raw
      PROVE  share(m) = ShareOf(shown.raw[m], n) /\ (ran(m) <=> RanOn(shown.raw[m], n))
  <2>1. DOMAIN shown.reports[m].targets = 1..n
    BY <1>3 DEF EarnedIn
  <2>2. \A t \in 1..n : (100 * Eval!Cardinality(solid(m, t))) \div Len(shown.raw[m][t]) = Percent(shown.raw[m][t])
    BY DEF Percent, Solid
  <2> QED
    BY <2>1, <2>2 DEF ShareOf, Shares, RanOn
<1>5. shown.ok => \E m \in DOMAIN shown.raw : share(m) >= Bar
  <2> HIDE DEF share
  <2> QED
    BY <1>3, <1>4 DEF EarnedIn
<1>6. shown.cheapest # 0 => \A m \in DOMAIN shown.raw :
        /\ share(m) <= share(shown.cheapest)
        /\ share(m) = share(shown.cheapest) /\ ran(m) /\ size(m) > 0 => size(shown.cheapest) \in 1..size(m)
  <2> HIDE DEF share, ran
  <2> QED
    BY <1>3, <1>4 DEF EarnedIn
<1> QED
  BY <1>5, <1>6, Zenon DEF Eval!ScoreIsEarned

(* A suite that passes has earned it on some target, and the model that is *)
(* called the cheapest is no worse, and no larger, than any that matches it*)
(* (RunTarget and Best of eval.go, Cheapest of matrix.go), whatever the    *)
(* targets, the cases, the repeats and what they do, the sizes and the bar.*)
THEOREM EvaluationsKept == PartsSpec => []EvaluationsAreEarned
<1>1. PartsInit => EvalInv
  BY DEF PartsInit, EvalInv, EvalState, Eval!Init
<1>2. EvalInv /\ [PartsNext]_all => EvalInv'
  BY StepOfPart, EvalSteps, EvalAssumption DEF EvalInv
<1>3. EvalInv => EvaluationsAreEarned
  BY EvalShows, EvalAssumption DEF EvalInv, EvaluationsAreEarned
<1> QED
  BY <1>1, <1>2, <1>3, PTL DEF PartsSpec

-----------------------------------------------------------------------------
(* Workflow files: what has its place, and the walk along what has none.   *)
GraphTypes ==
  /\ spec \in [depends : Graphs.depends, routes : Graphs.routes, state : States]
  /\ progress \in {"order", "walk", "ordered", "cycle", "refused"}
  /\ remaining \subseteq Members /\ order \in Seq(Members) /\ stack \in Seq(remaining)
Once(s) == \A i, j \in 1..Len(s) : s[i] = s[j] => i = j
Placed ==
  /\ Once(order)
  /\ \A n \in Members : n \in remaining <=> ~\E i \in 1..Len(order) : order[i] = n
  /\ \A j \in 1..Len(order) : \A d \in Graph!Deps(order[j]) : \E i \in 1..Len(order) : i < j /\ order[i] = d
Decided ==
  /\ progress \in {"ordered", "walk", "cycle"} \/ order # <<>> => Graph!Valid
  /\ progress = "ordered" => remaining = {}
  /\ progress \in {"walk", "cycle"} =>
       remaining # {} /\ \A n \in remaining : Graph!Deps(n) \cap remaining # {}
Walked ==
  /\ progress = "order" => stack = <<>>
  /\ Once(stack) /\ \A i, j \in 1..Len(stack) : j = i + 1 => stack[j] \in Graph!Deps(stack[i])
  /\ progress = "cycle" => Graph!ReportedCycleIsReal
GraphState == GraphTypes /\ Placed /\ Decided /\ Walked
GraphInv == part = "graph" => GraphState

LEMMA GraphCardinality == \A S : Graph!Cardinality(S) = Cardinality(S)
BY DEF Graph!Cardinality, Cardinality

(* As many as places, if none comes twice; and all, if as many as there are.*)
LEMMA Counted ==
  ASSUME NEW n \in Nat, NEW s, NEW T, T = {s[i] : i \in 1..n}, \A i, j \in 1..n : s[i] = s[j] => i = j
  PROVE  Cardinality(T) = n
<1>1. PICK f : f = [i \in 1..n |-> s[i]]
  OBVIOUS
<1>2. f \in Surjection(1..n, T) /\ f \in Injection(1..n, T)
  BY <1>1 DEF Surjection, Injection, IsInjective
<1>3. IsFiniteSet(1..n) /\ Cardinality(1..n) = n
  BY FS_Interval
<1> QED
  BY <1>2, <1>3, FS_Surjection

LEMMA AllListed ==
  ASSUME NEW S, IsFiniteSet(S), NEW n \in Nat, Cardinality(S) = n, NEW s \in [1..n -> S],
         \A i, j \in 1..n : s[i] = s[j] => i = j
  PROVE  \A x \in S : \E i \in 1..n : s[i] = x
<1>1. s \in Injection(1..n, S)
  BY DEF Injection, IsInjective
<1>2. Cardinality(1..n) = Cardinality(S)
  BY FS_Interval
<1>3. s \in Surjection(1..n, S)
  BY <1>1, <1>2, FS_Injection
<1> QED
  BY <1>3 DEF Surjection

LEMMA DepsStay ==
  ASSUME UNCHANGED spec
  PROVE  /\ \A n : Graph!Deps(n)' = Graph!Deps(n)
         /\ Graph!Valid' <=> Graph!Valid
<1>1. \A n : Graph!Deps(n)' = Graph!Deps(n)
  BY DEF Graph!Deps
<1>2. Graph!Valid' <=> Graph!Valid
  BY DEF Graph!Valid, Graph!DependsDiagnostics, Graph!RoutingDiagnostics, Graph!StateDiagnostics, Graph!Escapes
<1> QED
  BY <1>1, <1>2

LEMMA LeastIs ==
  ASSUME NEW S \in SUBSET Nat, S # {}
  PROVE  Graph!Least(S) \in S
<1>1. \E n \in S : \A m \in S : n <= m
  BY HasLeast
<1> QED
  BY <1>1 DEF Graph!Least

LEMMA Appended ==
  ASSUME NEW S, NEW s \in Seq(S), NEW x \in S
  PROVE  /\ Append(s, x) \in Seq(S) /\ Len(Append(s, x)) = Len(s) + 1 /\ Len(s) \in Nat
         /\ \A i \in 1..Len(s) : Append(s, x)[i] = s[i] /\ Append(s, x)[Len(s) + 1] = x
OBVIOUS

LEMMA Chained ==
  ASSUME NEW S, NEW s \in Seq(S), NEW n \in Nat, NEW t \in [1..n -> S]
  PROVE  /\ s \o t \in Seq(S) /\ Len(s \o t) = Len(s) + n /\ Len(s) \in Nat
         /\ \A i \in 1..Len(s) : (s \o t)[i] = s[i]
         /\ \A k \in 1..n : (s \o t)[Len(s) + k] = t[k]
         /\ \A i \in 1..Len(s) + n : i \in 1..Len(s) \/ (i - Len(s) \in 1..n /\ (s \o t)[i] = t[i - Len(s)])
<1>1. t \in Seq(S) /\ Len(t) = n
  OBVIOUS
<1> QED
  BY <1>1

LEMMA GraphPlaces ==
  ASSUME Graph!WorkflowSpecAssumption, GraphState, Graph!Place
  PROVE  GraphState'
<1>1. PICK R : R = Graph!Ready
  OBVIOUS
<1>2. R \subseteq remaining /\ \A n \in R : Graph!Deps(n) \cap remaining = {}
  BY <1>1 DEF Graph!Ready
<1>3. /\ remaining \subseteq Members /\ order \in Seq(Members) /\ stack \in Seq(remaining)
      /\ Members \subseteq Nat /\ IsFiniteSet(Members)
  <2>1. remaining \subseteq Members /\ order \in Seq(Members) /\ stack \in Seq(remaining)
    BY DEF GraphState, GraphTypes
  <2>2. Members \subseteq Nat /\ IsFiniteSet(Members)
    BY DEF Graph!WorkflowSpecAssumption, Graph!IsFiniteSet, IsFiniteSet
  <2> QED
    BY <2>1, <2>2
<1>4. IsFiniteSet(R)
  BY <1>2, <1>3, FS_Subset
<1>5. PICK n \in Nat : n = Cardinality(R)
  BY <1>4, FS_CardinalityType
<1>6. PICK s \in [1..n -> R] :
        (\A i, j \in DOMAIN s : i < j => s[i] < s[j]) /\ order' = order \o s
  BY <1>1, <1>5, GraphCardinality DEF Graph!Place
<1>7. /\ progress = "order" /\ progress' = progress /\ Graph!Valid /\ remaining' = remaining \ R
      /\ UNCHANGED <<spec, stack, found>>
  BY <1>1 DEF Graph!Place
<1>8. ASSUME NEW i \in 1..n, NEW j \in 1..n, s[i] = s[j] PROVE i = j
  <2>1. s[i] \in Nat /\ s[j] \in Nat /\ DOMAIN s = 1..n
    BY <1>2, <1>3
  <2>2. ~(i < j) /\ ~(j < i)
    BY <1>6, <1>8, <2>1
  <2> QED
    BY <2>2
<1>9. \A x \in R : \E i \in 1..n : s[i] = x
  BY <1>4, <1>5, <1>8, AllListed
<1>10. PICK o : o = order'
  OBVIOUS
<1>11. PICK k \in Nat : k = Len(order)
  BY <1>3
<1>12. s \in [1..n -> Members]
  BY <1>2, <1>3
<1>13. /\ o \in Seq(Members) /\ Len(o) = k + n
       /\ \A i \in 1..k : o[i] = order[i]
       /\ \A m \in 1..n : o[k + m] = s[m]
       /\ \A i \in 1..k + n : i \in 1..k \/ (i - k \in 1..n /\ o[i] = s[i - k])
  BY <1>3, <1>6, <1>10, <1>11, <1>12, Chained
<1>14. /\ \A i, j \in 1..k : order[i] = order[j] => i = j
       /\ \A m \in Members : m \in remaining <=> ~\E i \in 1..k : order[i] = m
       /\ \A j \in 1..k : \A d \in Graph!Deps(order[j]) : \E i \in 1..k : i < j /\ order[i] = d
  BY <1>11 DEF GraphState, Placed, Once
<1>15. \A i \in 1..k : o[i] \in Members /\ o[i] \notin remaining
  <2> SUFFICES ASSUME NEW i \in 1..k PROVE o[i] \in Members /\ o[i] \notin remaining
    OBVIOUS
  <2>1. i \in 1..Len(o) /\ o[i] = order[i]
    BY <1>13
  <2>2. o[i] \in Members
    BY <1>13, <2>1
  <2> QED
    BY <1>14, <2>1, <2>2
<1>16. ASSUME NEW i \in 1..k + n, NEW j \in 1..k + n, o[i] = o[j] PROVE i = j
  <2>1. CASE i \in 1..k /\ j \in 1..k
    BY <1>13, <1>14, <1>16, <2>1
  <2>2. CASE i \notin 1..k /\ j \notin 1..k
    <3>1. i - k \in 1..n /\ j - k \in 1..n /\ s[i - k] = s[j - k]
      BY <1>13, <1>16, <2>2
    <3>2. i - k = j - k
      BY <1>8, <3>1
    <3> QED
      BY <3>2
  <2>3. CASE (i \in 1..k) # (j \in 1..k)
    <3>1. \A m \in 1..k + n : m \notin 1..k => o[m] \in remaining
      BY <1>2, <1>13
    <3> QED
      BY <1>15, <1>16, <2>3, <3>1
  <2> QED
    BY <2>1, <2>2, <2>3
<1>17. ASSUME NEW m \in Members PROVE m \in remaining \ R <=> ~\E i \in 1..k + n : o[i] = m
  <2>1. ASSUME m \in R PROVE \E i \in 1..k + n : o[i] = m
    <3>1. PICK i \in 1..n : s[i] = m
      BY <1>9, <2>1
    <3>2. o[k + i] = m /\ k + i \in 1..k + n
      BY <1>13, <3>1
    <3> QED
      BY <3>2
  <2>2. ASSUME m \notin remaining PROVE \E i \in 1..k + n : o[i] = m
    <3>1. PICK i \in 1..k : order[i] = m
      BY <1>14, <2>2
    <3>2. i \in 1..k + n /\ o[i] = m
      BY <1>13, <3>1
    <3> QED
      BY <3>2
  <2>3. ASSUME NEW i \in 1..k + n, o[i] = m PROVE m \notin remaining \/ m \in R
    BY <1>13, <1>15, <2>3
  <2> QED
    BY <2>1, <2>2, <2>3
<1>18. ASSUME NEW j \in 1..k + n, NEW d \in Graph!Deps(o[j])
       PROVE  \E i \in 1..k + n : i < j /\ o[i] = d
  <2>1. CASE j \in 1..k
    <3>1. PICK i \in 1..k : i < j /\ order[i] = d
      BY <1>13, <1>14, <1>18, <2>1
    <3> QED
      BY <1>13, <3>1
  <2>2. CASE j \notin 1..k
    <3>1. o[j] \in R
      BY <1>13, <2>2
    <3>2. d \in Members /\ d \notin remaining
      BY <1>2, <1>18, <3>1 DEF Graph!Deps
    <3>3. PICK i \in 1..k : order[i] = d
      BY <1>14, <3>2
    <3>4. i \in 1..k + n /\ i < j /\ o[i] = d
      BY <1>13, <2>2, <3>3
    <3> QED
      BY <3>4
  <2> QED
    BY <2>1, <2>2
<1>19. stack = <<>>
  BY <1>7 DEF GraphState, Walked
<1>20. /\ \A m : Graph!Deps(m)' = Graph!Deps(m)
       /\ Graph!Valid'
  BY <1>7, DepsStay
<1>21. GraphTypes'
  <2>1. stack' \in Seq(remaining')
    BY <1>7, <1>19
  <2>2. remaining' \subseteq Members /\ order' \in Seq(Members)
    BY <1>3, <1>7, <1>10, <1>13
  <2> QED
    BY <1>7, <2>1, <2>2 DEF GraphState, GraphTypes
<1>22. Placed'
  <2>1. Once(o) /\ Len(o) = k + n
    BY <1>13, <1>16 DEF Once
  <2>2. Once(order')
    BY <1>10, <2>1
  <2>3. \A m \in Members : m \in remaining' <=> ~\E i \in 1..Len(order') : order'[i] = m
    BY <1>7, <1>10, <1>13, <1>17
  <2>4. \A j \in 1..Len(order') : \A d \in Graph!Deps(order'[j]) : \E i \in 1..Len(order') : i < j /\ order'[i] = d
    BY <1>10, <1>13, <1>18
  <2>5. \A j \in 1..Len(order') : Graph!Deps(order[j])' = Graph!Deps(order'[j])
    BY <1>7 DEF Graph!Deps
  <2> QED
    BY <2>2, <2>3, <2>4, <2>5, SMTT(30) DEF Placed, Once
<1>23. Decided'
  BY <1>7, <1>20 DEF Decided
<1>24. Walked'
  <2>1. progress' = "order" /\ stack' = <<>>
    BY <1>7, <1>19
  <2>2. Len(stack') = 0 /\ progress' # "cycle"
    BY <2>1
  <2> QED
    BY <2>1, <2>2 DEF Walked, Once
<1> QED
  BY <1>21, <1>22, <1>23, <1>24 DEF GraphState

(* The walk goes on to one that has no place either.                       *)
LEMMA OnwardsIs ==
  ASSUME Graph!WorkflowSpecAssumption, GraphState, progress = "walk", stack # <<>>
  PROVE  /\ Len(stack) \in Nat \ {0} /\ stack[Len(stack)] \in remaining
         /\ Graph!Onwards # {} /\ Graph!Least(Graph!Onwards) \in remaining
         /\ Graph!Least(Graph!Onwards) \in Graph!Deps(stack[Len(stack)])
<1>1. remaining \subseteq Members /\ stack \in Seq(remaining)
  BY DEF GraphState, GraphTypes
<1>2. Len(stack) \in Nat \ {0} /\ stack[Len(stack)] \in remaining
  BY <1>1
<1>3. PICK O : O = Graph!Onwards
  OBVIOUS
<1>4. O = Graph!Deps(stack[Len(stack)]) \cap remaining
  BY <1>3 DEF Graph!Onwards
<1>5. O # {}
  BY <1>2, <1>4 DEF GraphState, Decided
<1>6. O \in SUBSET Nat
  BY <1>1, <1>4 DEF Graph!WorkflowSpecAssumption
<1>7. Graph!Least(O) \in O
  BY <1>5, <1>6, LeastIs
<1> QED
  BY <1>2, <1>3, <1>4, <1>5, <1>7

LEMMA GraphWalks ==
  ASSUME Graph!WorkflowSpecAssumption, GraphState, NEW d \in remaining,
         progress = "walk", progress' = "walk", stack' = Append(stack, d),
         \A i \in 1..Len(stack) : stack[i] # d,
         stack # <<>> => d \in Graph!Deps(stack[Len(stack)]),
         UNCHANGED <<spec, remaining, order>>
  PROVE  GraphState'
<1>1. stack \in Seq(remaining)
  BY DEF GraphState, GraphTypes
<1>2. PICK k \in Nat : k = Len(stack)
  BY <1>1
<1>3. PICK s : s = stack'
  OBVIOUS
<1>4. s \in Seq(remaining) /\ Len(s) = k + 1 /\ (\A i \in 1..k : s[i] = stack[i]) /\ s[k + 1] = d
  BY <1>1, <1>2, <1>3
<1>5. /\ \A m : Graph!Deps(m)' = Graph!Deps(m)
      /\ Graph!Valid' <=> Graph!Valid
  BY DepsStay
<1>6. /\ \A i, j \in 1..k : stack[i] = stack[j] => i = j
      /\ \A i, j \in 1..k : j = i + 1 => stack[j] \in Graph!Deps(stack[i])
  BY <1>2 DEF GraphState, Walked, Once
<1>7. Once(s)
  <2> SUFFICES ASSUME NEW i \in 1..k + 1, NEW j \in 1..k + 1, s[i] = s[j] PROVE i = j
    BY <1>4 DEF Once
  <2>1. CASE i \in 1..k /\ j \in 1..k
    BY <1>4, <1>6, <2>1
  <2>2. CASE i = k + 1 /\ j = k + 1
    BY <2>2
  <2>3. CASE (i \in 1..k /\ j = k + 1) \/ (i = k + 1 /\ j \in 1..k)
    BY <1>2, <1>4, <2>3
  <2> QED
    BY <2>1, <2>2, <2>3
<1>8. ASSUME NEW i \in 1..k + 1, NEW j \in 1..k + 1, j = i + 1 PROVE s[j] \in Graph!Deps(s[i])
  <2>1. CASE j \in 1..k
    <3>1. i \in 1..k
      BY <1>8, <2>1
    <3> QED
      BY <1>4, <1>6, <1>8, <2>1, <3>1
  <2>2. CASE j = k + 1
    <3>1. i = k /\ k # 0
      BY <1>8, <2>2
    <3>2. stack # <<>> /\ s[j] = d /\ s[i] = stack[k]
      BY <1>2, <1>4, <2>2, <3>1
    <3> QED
      BY <1>2, <3>2
  <2> QED
    BY <2>1, <2>2
<1>9. GraphTypes'
  <2>1. stack' \in Seq(remaining')
    BY <1>3, <1>4
  <2> QED
    BY <2>1 DEF GraphState, GraphTypes
<1>10. Placed'
  BY <1>5 DEF GraphState, Placed, Once, Graph!Deps
<1>11. Decided'
  <2>1. \A n \in remaining : Graph!Deps(n)' \cap remaining # {}
    BY <1>5 DEF GraphState, Decided
  <2> QED
    BY <1>5, <2>1 DEF GraphState, Decided, Graph!Deps
<1>12. Walked'
  <2>1. Once(stack') /\ \A i, j \in 1..Len(stack') : j = i + 1 => stack'[j] \in Graph!Deps(stack'[i])
    BY <1>3, <1>4, <1>7, <1>8
  <2>2. Once(stack)' /\ \A i, j \in 1..Len(stack') : j = i + 1 => stack'[j] \in Graph!Deps(stack[i])'
    BY <2>1 DEF Once, Graph!Deps
  <2> QED
    BY <2>2 DEF Walked
<1> QED
  BY <1>9, <1>10, <1>11, <1>12 DEF GraphState

LEMMA GraphCloses ==
  ASSUME Graph!WorkflowSpecAssumption, GraphState, Graph!Close
  PROVE  GraphState'
<1>1. PICK d : d = Graph!Least(Graph!Onwards)
  OBVIOUS
<1>2. /\ progress = "walk" /\ stack # <<>> /\ progress' = "cycle"
      /\ UNCHANGED <<spec, remaining, order, stack>>
  BY DEF Graph!Close
<1>3. PICK a \in DOMAIN stack :
        stack[a] = d /\ found' = <<d>> \o [i \in 1..Len(stack) + 1 - a |-> stack[Len(stack) + 1 - i]]
  BY <1>1 DEF Graph!Close
<1>4. PICK k \in Nat \ {0} : k = Len(stack)
  BY <1>2, OnwardsIs
<1>5. /\ stack \in Seq(remaining) /\ a \in 1..k /\ d \in remaining /\ d \in Graph!Deps(stack[k])
  BY <1>1, <1>2, <1>4, OnwardsIs DEF GraphState, GraphTypes
<1>6. PICK n \in Nat \ {0} : n = k + 1 - a
  BY <1>5
<1>7. PICK t : t = [i \in 1..n |-> stack[k + 1 - i]]
  OBVIOUS
<1>8. t \in [1..n -> remaining] /\ \A i \in 1..n : t[i] = stack[k + 1 - i] /\ k + 1 - i \in 1..k
  <2>1. \A i \in 1..n : k + 1 - i \in 1..k
    BY <1>5, <1>6
  <2> QED
    BY <1>4, <1>5, <1>7, <2>1
<1>9. PICK f : f = found'
  OBVIOUS
<1>10. f = <<d>> \o t
  BY <1>3, <1>4, <1>6, <1>7, <1>9
<1>11. /\ f \in Seq(remaining) /\ Len(f) = n + 1 /\ f[1] = d
       /\ \A i \in 1..n : f[i + 1] = t[i]
  <2>1. <<d>> \in Seq(remaining) /\ Len(<<d>>) = 1 /\ <<d>>[1] = d
    BY <1>5
  <2> QED
    BY <1>8, <1>10, <2>1, Chained
<1>12. f[n + 1] = d
  <2>1. n \in 1..n /\ k + 1 - n = a
    BY <1>5, <1>6
  <2>2. f[n + 1] = stack[a]
    BY <1>8, <1>11, <2>1
  <2> QED
    BY <1>3, <2>2
<1>13. /\ \A i, j \in 1..k : stack[i] = stack[j] => i = j
       /\ \A i, j \in 1..k : j = i + 1 => stack[j] \in Graph!Deps(stack[i])
  BY <1>4 DEF GraphState, Walked, Once
<1>14. ASSUME NEW i \in 1..n PROVE f[i] \in Graph!Deps(f[i + 1])
  <2>1. CASE i = 1
    <3>1. f[2] = stack[k]
      BY <1>8, <1>11, <2>1
    <3> QED
      BY <1>5, <1>11, <2>1, <3>1
  <2>2. CASE i # 1
    <3>1. i - 1 \in 1..n /\ (i - 1) + 1 = i /\ k + 1 - (i - 1) = (k + 1 - i) + 1
      BY <2>2
    <3>2. f[i] = t[i - 1] /\ f[i + 1] = t[i]
      BY <1>11, <3>1
    <3>3. t[i - 1] = stack[(k + 1 - i) + 1] /\ t[i] = stack[k + 1 - i] /\ k + 1 - i \in 1..k
          /\ (k + 1 - i) + 1 \in 1..k
      BY <1>8, <3>1
    <3> QED
      BY <1>13, <3>2, <3>3
  <2> QED
    BY <2>1, <2>2
<1>15. Graph!Cardinality(Graph!Range(f)) = n
  <2>1. \A i, j \in 1..n : t[i] = t[j] => i = j
    <3> SUFFICES ASSUME NEW i \in 1..n, NEW j \in 1..n, t[i] = t[j] PROVE i = j
      OBVIOUS
    <3>1. k + 1 - i = k + 1 - j
      BY <1>8, <1>13
    <3> QED
      BY <3>1
  <2>2. PICK T : T = {t[i] : i \in 1..n}
    OBVIOUS
  <2>3. Cardinality(T) = n
    BY <2>1, <2>2, Counted
  <2>4. Graph!Range(f) = T
    <3>1. DOMAIN f = 1..n + 1 /\ Graph!Range(f) = {f[i] : i \in DOMAIN f}
      BY <1>11 DEF Graph!Range
    <3>2. n \in 1..n /\ t[n] = d
      BY <1>6, <1>11, <1>12
    <3>3. \A i \in 1..n + 1 : f[i] \in T
      <4> SUFFICES ASSUME NEW i \in 1..n + 1 PROVE f[i] \in T
        OBVIOUS
      <4>1. CASE i = 1
        BY <1>11, <2>2, <3>2, <4>1
      <4>2. CASE i # 1
        <5>1. i - 1 \in 1..n /\ (i - 1) + 1 = i
          BY <4>2
        <5>2. f[i] = t[i - 1]
          BY <1>11, <5>1
        <5> QED
          BY <2>2, <5>1, <5>2
      <4> QED
        BY <4>1, <4>2
    <3>4. \A i \in 1..n : t[i] = f[i + 1] /\ i + 1 \in 1..n + 1
      BY <1>11
    <3> QED
      BY <2>2, <3>1, <3>3, <3>4
  <2> QED
    BY <2>3, <2>4, GraphCardinality
<1>16. /\ \A m : Graph!Deps(m)' = Graph!Deps(m)
       /\ Graph!Valid' <=> Graph!Valid
  BY <1>2, DepsStay
<1>17. Graph!ReportedCycleIsReal'
  <2>1. Len(f) >= 2 /\ f[1] = f[Len(f)]
    BY <1>11, <1>12
  <2>2. \A i \in 1..Len(f) - 1 : f[i] \in Graph!Deps(f[i + 1])
    BY <1>11, <1>14
  <2>3. Graph!Cardinality(Graph!Range(f)) = Len(f) - 1
    BY <1>11, <1>15
  <2>4. \A i \in 1..Len(found') - 1 : found'[i] \in Graph!Deps(found[i + 1])'
    BY <1>2, <1>9, <2>2 DEF Graph!Deps
  <2> QED
    BY <1>2, <1>9, <2>1, <2>3, <2>4 DEF Graph!ReportedCycleIsReal, Graph!WalkGoesOn
<1>18. GraphTypes' /\ Placed'
  BY <1>2, <1>16 DEF GraphState, GraphTypes, Placed, Once, Graph!Deps
<1>19. Decided'
  <2>1. \A m \in remaining : Graph!Deps(m)' \cap remaining # {}
    BY <1>2, <1>16 DEF GraphState, Decided
  <2> QED
    BY <1>2, <1>16, <2>1 DEF GraphState, Decided, Graph!Deps
<1>20. Walked'
  <2>1. \A i, j \in 1..Len(stack') : j = i + 1 => stack'[j] \in Graph!Deps(stack[i])'
    BY <1>2, <1>16 DEF GraphState, Walked, Graph!Deps
  <2> QED
    BY <1>2, <1>17, <2>1 DEF GraphState, Walked, Once
<1> QED
  BY <1>18, <1>19, <1>20 DEF GraphState

LEMMA GraphStays ==
  ASSUME Graph!WorkflowSpecAssumption, GraphState, UNCHANGED <<spec, remaining, order, stack>>,
         \/ progress' \in {progress, "refused"} /\ UNCHANGED found
         \/ progress = "order" /\ progress' = "ordered" /\ remaining = {} /\ Graph!Valid
         \/ /\ progress = "order" /\ progress' = "walk" /\ Graph!Valid /\ remaining # {}
            /\ \A n \in remaining : Graph!Deps(n) \cap remaining # {}
  PROVE  GraphState'
<1>1. /\ \A m : Graph!Deps(m)' = Graph!Deps(m)
      /\ Graph!Valid' <=> Graph!Valid
  BY DepsStay
<1>2. GraphTypes' /\ Placed'
  BY <1>1 DEF GraphState, GraphTypes, Placed, Once, Graph!Deps
<1>3. ASSUME progress' \in {"walk", "cycle"}
      PROVE  remaining # {} /\ \A n \in remaining : Graph!Deps(n)' \cap remaining # {}
  BY <1>1, <1>3 DEF GraphState, Decided
<1>4. Decided'
  <2>1. progress' \in {"ordered", "walk", "cycle"} \/ order # <<>> => Graph!Valid
    BY DEF GraphState, Decided
  <2>2. progress' = "ordered" => remaining = {}
    BY DEF GraphState, Decided
  <2> QED
    BY <1>1, <1>3, <2>1, <2>2 DEF Decided, Graph!Deps
<1>5. Walked'
  <2>1. \A i, j \in 1..Len(stack') : j = i + 1 => stack'[j] \in Graph!Deps(stack[i])'
    BY <1>1 DEF GraphState, Walked, Graph!Deps
  <2>2. progress' = "order" => stack' = <<>>
    BY DEF GraphState, Walked
  <2>3. ASSUME progress' = "cycle" PROVE Graph!ReportedCycleIsReal'
    <3>1. progress = "cycle" /\ found' = found /\ Graph!ReportedCycleIsReal
      BY <2>3 DEF GraphState, Walked
    <3> QED
      BY <1>1, <3>1 DEF Graph!ReportedCycleIsReal, Graph!WalkGoesOn, Graph!Deps
  <2> QED
    BY <2>1, <2>2, <2>3 DEF GraphState, Walked, Once
<1> QED
  BY <1>2, <1>4, <1>5 DEF GraphState

LEMMA GraphSteps ==
  ASSUME Graph!WorkflowSpecAssumption, GraphState, Graph!Next \/ UNCHANGED graphVars
  PROVE  GraphState'
<1>1. CASE Graph!Place
  BY <1>1, GraphPlaces
<1>2. CASE Graph!Close
  BY <1>2, GraphCloses
<1>3. CASE Graph!Refuse \/ UNCHANGED graphVars
  BY <1>3, GraphStays DEF Graph!Refuse, graphVars
<1>4. CASE Graph!Finish
  BY <1>4, GraphStays DEF Graph!Finish
<1>5. CASE Graph!Stuck
  <2>1. \A n \in remaining : Graph!Deps(n) \cap remaining # {}
    BY <1>5 DEF Graph!Stuck, Graph!Ready
  <2> QED
    BY <1>5, <2>1, GraphStays DEF Graph!Stuck
<1>6. CASE Graph!Start
  <2>1. /\ progress = "walk" /\ progress' = "walk" /\ stack = <<>> /\ stack' = <<Graph!Least(remaining)>>
        /\ UNCHANGED <<spec, remaining, order>>
    BY <1>6 DEF Graph!Start
  <2>2. remaining # {} /\ remaining \in SUBSET Nat
    BY <2>1 DEF GraphState, GraphTypes, Decided, Graph!WorkflowSpecAssumption
  <2>3. PICK d \in remaining : d = Graph!Least(remaining)
    BY <2>2, LeastIs
  <2>4. stack' = Append(stack, d) /\ \A i \in 1..Len(stack) : stack[i] # d
    BY <2>1, <2>3
  <2> QED
    BY <2>1, <2>4, GraphWalks
<1>7. CASE Graph!Visit
  <2>1. /\ progress = "walk" /\ progress' = "walk" /\ stack # <<>>
        /\ Graph!Least(Graph!Onwards) \notin Graph!Range(stack)
        /\ stack' = Append(stack, Graph!Least(Graph!Onwards)) /\ UNCHANGED <<spec, remaining, order>>
    BY <1>7 DEF Graph!Visit
  <2>2. PICK d \in remaining : d = Graph!Least(Graph!Onwards) /\ d \in Graph!Deps(stack[Len(stack)])
    BY <2>1, OnwardsIs
  <2>3. \A i \in 1..Len(stack) : stack[i] # d
    <3>1. stack \in Seq(remaining)
      BY DEF GraphState, GraphTypes
    <3>2. DOMAIN stack = 1..Len(stack)
      BY <3>1
    <3> QED
      BY <2>1, <2>2, <3>2 DEF Graph!Range
  <2> QED
    BY <2>1, <2>2, <2>3, GraphWalks
<1> QED
  BY <1>1, <1>2, <1>3, <1>4, <1>5, <1>6, <1>7 DEF Graph!Next

LEMMA GraphStarts ==
  ASSUME Graph!WorkflowSpecAssumption, Graph!Init
  PROVE  GraphState
<1>1. /\ spec \in [depends : Graphs.depends, routes : Graphs.routes, state : States]
      /\ progress = "order" /\ remaining = Members /\ order = <<>> /\ stack = <<>>
  BY DEF Graph!Init
<1>2. Len(<<>>) = 0 /\ 1..0 = {}
  OBVIOUS
<1>3. GraphTypes
  BY <1>1 DEF GraphTypes
<1>4. Placed
  BY <1>1, <1>2 DEF Placed, Once
<1>5. Decided /\ Walked
  BY <1>1, <1>2 DEF Decided, Walked, Once
<1> QED
  BY <1>3, <1>4, <1>5 DEF GraphState

(* An order is whole: what comes first has no route to it, and what comes  *)
(* last none from it.                                                      *)
LEMMA OrderRuns ==
  ASSUME Graph!WorkflowSpecAssumption, GraphState, progress = "ordered"
  PROVE  Graph!AcceptedRuns
<1>1. /\ order \in Seq(Members) /\ IsFiniteSet(Members) /\ Members # {}
      /\ spec.depends \in Graphs.depends /\ spec.routes \in Seq(Nat \X Nat)
  <2>1. order \in Seq(Members) /\ spec.depends \in Graphs.depends /\ spec.routes \in Graphs.routes
    BY DEF GraphState, GraphTypes
  <2>2. Graphs.routes \subseteq Seq(Nat \X Nat) /\ Members # {} /\ IsFiniteSet(Members)
    BY DEF Graph!WorkflowSpecAssumption, Graph!IsFiniteSet, IsFiniteSet
  <2> QED
    BY <2>1, <2>2
<1>2. PICK k \in Nat : k = Len(order)
  BY <1>1
<1>3. DOMAIN order = 1..k /\ \A i \in 1..k : order[i] \in Members
  BY <1>1, <1>2
<1>4. /\ \A i, j \in 1..k : order[i] = order[j] => i = j
      /\ \A n \in Members : \E i \in 1..k : order[i] = n
      /\ \A j \in 1..k : \A d \in Graph!Deps(order[j]) : \E i \in 1..k : i < j /\ order[i] = d
  BY <1>2 DEF GraphState, Decided, Placed, Once
<1>5. Graph!Range(order) = Members
  BY <1>3, <1>4 DEF Graph!Range
<1>6. Len(order) = Graph!Cardinality(Members)
  <2>1. PICK T : T = {order[i] : i \in 1..k}
    OBVIOUS
  <2>2. Cardinality(T) = k
    BY <1>4, <2>1, Counted
  <2>3. T = Members
    BY <1>3, <1>4, <2>1
  <2> QED
    BY <1>2, <2>2, <2>3, GraphCardinality
<1>7. ASSUME NEW i \in 1..k, NEW j \in 1..k,
             <<order[i], order[j]>> \in spec.depends \/ <<order[j], order[i]>> \in Graph!Range(spec.routes)
      PROVE  j < i
  <2>1. order[j] \in Graph!Deps(order[i])
    BY <1>3, <1>7 DEF Graph!Deps
  <2>2. PICK m \in 1..k : m < i /\ order[m] = order[j]
    BY <1>4, <2>1
  <2>3. m = j
    BY <1>4, <2>2
  <2> QED
    BY <2>2, <2>3
<1>8. k # 0
  BY <1>1, <1>4
<1>9. ASSUME NEW i \in DOMAIN spec.routes
      PROVE  /\ spec.routes[i][1] \in Members /\ spec.routes[i][2] \in Members
             /\ <<spec.routes[i][1], spec.routes[i][2]>> \in Graph!Range(spec.routes)
  <2>1. Graph!Valid
    BY DEF GraphState, Decided
  <2>2. spec.routes[i][1] \in Members /\ spec.routes[i][2] \in Members
    BY <2>1 DEF Graph!Valid, Graph!RoutingDiagnostics
  <2>3. spec.routes[i] \in Nat \X Nat
    BY <1>1
  <2>4. spec.routes[i] = <<spec.routes[i][1], spec.routes[i][2]>>
    BY <2>3
  <2> QED
    BY <2>2, <2>4 DEF Graph!Range
<1>10. order[1] \in Graph!Sources
  <2>1. ASSUME NEW i \in DOMAIN spec.routes, spec.routes[i][2] = order[1] PROVE FALSE
    <3>1. PICK m \in 1..k : order[m] = spec.routes[i][1]
      BY <1>4, <1>9
    <3>2. 1 \in 1..k
      BY <1>8
    <3>3. <<order[m], order[1]>> \in Graph!Range(spec.routes)
      BY <1>9, <2>1, <3>1
    <3>4. m < 1
      BY <1>7, <3>2, <3>3
    <3> QED
      BY <3>4
  <2> QED
    BY <1>3, <1>8, <2>1 DEF Graph!Sources, Graph!Inbound
<1>11. order[k] \in Graph!Sinks
  <2>1. ASSUME NEW i \in DOMAIN spec.routes, spec.routes[i][1] = order[k] PROVE FALSE
    <3>1. PICK m \in 1..k : order[m] = spec.routes[i][2]
      BY <1>4, <1>9
    <3>2. k \in 1..k
      BY <1>8
    <3>3. <<order[k], order[m]>> \in Graph!Range(spec.routes)
      BY <1>9, <2>1, <3>1
    <3>4. k < m
      BY <1>7, <3>2, <3>3
    <3> QED
      BY <3>4
  <2> QED
    BY <1>3, <1>8, <2>1 DEF Graph!Sinks, Graph!Outbound
<1>12. \A i, j \in DOMAIN order :
         <<order[i], order[j]>> \in spec.depends \/ <<order[j], order[i]>> \in Graph!Range(spec.routes) => j < i
  BY <1>3, <1>7
<1> QED
  BY <1>5, <1>6, <1>10, <1>11, <1>12 DEF Graph!AcceptedRuns

(* A path: what Clean has kept of it after n parts, and how high one is.   *)
KeptAfter(p, f, n) ==
  IF n = 0 THEN <<>>
  ELSE LET k == f[n - 1] IN
       IF p[n] = Up /\ k # <<>> /\ k[Len(k)] # Up THEN SubSeq(k, 1, Len(k) - 1) ELSE Append(k, p[n])
HeightAfter(p, h, n) ==
  IF n = 0 THEN [above |-> 0, below |-> 0]
  ELSE IF p[n] # Up THEN [h[n - 1] EXCEPT !.below = @ + 1]
  ELSE IF h[n - 1].below > 0 THEN [h[n - 1] EXCEPT !.below = @ - 1]
  ELSE [h[n - 1] EXCEPT !.above = @ + 1]
CleanRun(p, m, f) == f = [n \in 0..m |-> KeptAfter(p, f, n)]
HeightRun(p, m, h) == h = [n \in 0..m |-> HeightAfter(p, h, n)]

LEMMA CleanRuns ==
  ASSUME NEW p, NEW m \in Nat
  PROVE  \E f : CleanRun(p, m, f)
<1> DEFINE T == {n \in Nat : ~\E f : CleanRun(p, n, f)}
<1> SUFFICES ASSUME T # {} PROVE FALSE
  OBVIOUS
<1>1. PICK t \in T : \A u \in T : t <= u
  BY HasLeast
<1> HIDE DEF T
<1>2. t \in Nat /\ ~\E f : CleanRun(p, t, f)
  BY DEF T
<1>3. CASE t = 0
  <2>1. PICK f : f = [n \in 0..0 |-> <<>>]
    OBVIOUS
  <2>2. f = [n \in 0..0 |-> KeptAfter(p, f, n)]
    BY <2>1 DEF KeptAfter
  <2> QED
    BY <1>2, <1>3, <2>2 DEF CleanRun
<1>4. CASE t # 0
  <2>1. t - 1 \in Nat /\ t - 1 \notin T
    BY <1>1, <1>2, <1>4
  <2>2. PICK f : CleanRun(p, t - 1, f)
    BY <2>1 DEF T
  <2>3. PICK x : x = KeptAfter(p, f, t)
    OBVIOUS
  <2>4. PICK g : g = [n \in 0..t |-> IF n = t THEN x ELSE f[n]]
    OBVIOUS
  <2>5. \A n \in 0..t : (n # t => n \in 0..t - 1) /\ (n # 0 => n - 1 \in 0..t - 1 /\ n - 1 \in 0..t /\ n - 1 # t)
    BY <1>2
  <2>6. \A n \in 0..t : n # 0 => g[n - 1] = f[n - 1]
    BY <2>4, <2>5
  <2>7. \A n \in 0..t : KeptAfter(p, g, n) = KeptAfter(p, f, n)
    BY <2>6 DEF KeptAfter
  <2>8. \A n \in 0..t - 1 : f[n] = KeptAfter(p, f, n)
    BY <2>2 DEF CleanRun
  <2>9. \A n \in 0..t : g[n] = KeptAfter(p, g, n)
    BY <2>3, <2>4, <2>5, <2>7, <2>8
  <2>10. g = [n \in 0..t |-> KeptAfter(p, g, n)]
    BY <2>4, <2>9
  <2> QED
    BY <1>2, <2>10 DEF CleanRun
<1> QED
  BY <1>3, <1>4

LEMMA HeightRuns ==
  ASSUME NEW p, NEW m \in Nat
  PROVE  \E h : HeightRun(p, m, h)
<1> DEFINE T == {n \in Nat : ~\E h : HeightRun(p, n, h)}
<1> SUFFICES ASSUME T # {} PROVE FALSE
  OBVIOUS
<1>1. PICK t \in T : \A u \in T : t <= u
  BY HasLeast
<1> HIDE DEF T
<1>2. t \in Nat /\ ~\E h : HeightRun(p, t, h)
  BY DEF T
<1>3. CASE t = 0
  <2>1. PICK h : h = [n \in 0..0 |-> [above |-> 0, below |-> 0]]
    OBVIOUS
  <2>2. h = [n \in 0..0 |-> HeightAfter(p, h, n)]
    BY <2>1 DEF HeightAfter
  <2> QED
    BY <1>2, <1>3, <2>2 DEF HeightRun
<1>4. CASE t # 0
  <2>1. t - 1 \in Nat /\ t - 1 \notin T
    BY <1>1, <1>2, <1>4
  <2>2. PICK h : HeightRun(p, t - 1, h)
    BY <2>1 DEF T
  <2>3. PICK x : x = HeightAfter(p, h, t)
    OBVIOUS
  <2>4. PICK g : g = [n \in 0..t |-> IF n = t THEN x ELSE h[n]]
    OBVIOUS
  <2>5. \A n \in 0..t : (n # t => n \in 0..t - 1) /\ (n # 0 => n - 1 \in 0..t - 1 /\ n - 1 \in 0..t /\ n - 1 # t)
    BY <1>2
  <2>6. \A n \in 0..t : n # 0 => g[n - 1] = h[n - 1]
    BY <2>4, <2>5
  <2>7. \A n \in 0..t : HeightAfter(p, g, n) = HeightAfter(p, h, n)
    BY <2>6 DEF HeightAfter
  <2>8. \A n \in 0..t - 1 : h[n] = HeightAfter(p, h, n)
    BY <2>2 DEF HeightRun
  <2>9. \A n \in 0..t : g[n] = HeightAfter(p, g, n)
    BY <2>3, <2>4, <2>5, <2>7, <2>8
  <2>10. g = [n \in 0..t |-> HeightAfter(p, g, n)]
    BY <2>4, <2>9
  <2> QED
    BY <1>2, <2>10 DEF HeightRun
<1> QED
  BY <1>3, <1>4

(* What is kept of a path is one `..` for each level above the start, and  *)
(* then a part for each level below.                                       *)
Agrees(k, h, S) ==
  /\ k \in Seq(S) /\ h \in [above : Nat, below : Nat] /\ Len(k) = h.above + h.below
  /\ \A i \in 1..Len(k) : k[i] = Up <=> i <= h.above

LEMMA Agree ==
  ASSUME NEW S, NEW p \in Seq(S), NEW f, NEW h, CleanRun(p, Len(p), f), HeightRun(p, Len(p), h),
         NEW n \in 0..Len(p)
  PROVE  Agrees(f[n], h[n], S)
<1>1. PICK l \in Nat : l = Len(p)
  OBVIOUS
<1> DEFINE T == {i \in 0..l : ~Agrees(f[i], h[i], S)}
<1> SUFFICES ASSUME T # {} PROVE FALSE
  BY <1>1
<1>2. T \in SUBSET Nat
  BY <1>1
<1>3. PICK t \in T : \A u \in T : t <= u
  BY <1>2, HasLeast
<1> HIDE DEF T
<1>4. t \in 0..l /\ ~Agrees(f[t], h[t], S)
  BY DEF T
<1>5. f[t] = KeptAfter(p, f, t) /\ h[t] = HeightAfter(p, h, t)
  BY <1>1, <1>4 DEF CleanRun, HeightRun
<1>6. CASE t = 0
  <2>1. f[t] = <<>> /\ h[t] = [above |-> 0, below |-> 0]
    BY <1>5, <1>6 DEF KeptAfter, HeightAfter
  <2>2. <<>> \in Seq(S) /\ Len(<<>>) = 0 /\ 1..0 = {}
    OBVIOUS
  <2> QED
    BY <1>4, <2>1, <2>2 DEF Agrees
<1>7. CASE t # 0
  <2>1. t - 1 \in 0..l /\ t - 1 \notin T /\ t \in 1..Len(p)
    BY <1>1, <1>3, <1>4, <1>7
  <2>2. PICK k : k = f[t - 1]
    OBVIOUS
  <2>3. PICK g : g = h[t - 1]
    OBVIOUS
  <2>4. Agrees(k, g, S)
    BY <2>1, <2>2, <2>3 DEF T
  <2>5. /\ k \in Seq(S) /\ g \in [above : Nat, below : Nat] /\ g.above \in Nat /\ g.below \in Nat
        /\ Len(k) = g.above + g.below /\ \A i \in 1..Len(k) : k[i] = Up <=> i <= g.above
    BY <2>4 DEF Agrees
  <2>6. p[t] \in S
    BY <2>1
  <2>7. /\ f[t] = IF p[t] = Up /\ k # <<>> /\ k[Len(k)] # Up
                  THEN SubSeq(k, 1, Len(k) - 1) ELSE Append(k, p[t])
        /\ h[t] = IF p[t] # Up THEN [g EXCEPT !.below = @ + 1]
                  ELSE IF g.below > 0 THEN [g EXCEPT !.below = @ - 1]
                  ELSE [g EXCEPT !.above = @ + 1]
    BY <1>5, <1>7, <2>2, <2>3 DEF KeptAfter, HeightAfter
  <2>8. PICK a \in Nat, b \in Nat : g.above = a /\ g.below = b /\ g = [above |-> a, below |-> b]
    BY <2>5
  <2>9. PICK x : x = p[t]
    OBVIOUS
  <2>10. CASE x = Up /\ b > 0
    <3>1. Len(k) = a + b /\ a + b \in 1..Len(k) /\ k # <<>> /\ k[Len(k)] # Up
      BY <2>5, <2>8, <2>10
    <3>2. f[t] = SubSeq(k, 1, a + b - 1) /\ h[t] = [above |-> a, below |-> b - 1]
      BY <2>7, <2>8, <2>9, <2>10, <3>1
    <3>3. PICK s : s = SubSeq(k, 1, a + b - 1)
      OBVIOUS
    <3>4. s \in Seq(S) /\ Len(s) = a + b - 1 /\ \A i \in 1..a + b - 1 : s[i] = k[i]
      BY <2>5, <2>10, <3>1, <3>3
    <3>5. \A i \in 1..a + b - 1 : s[i] = Up <=> i <= a
      <4>1. \A i \in 1..a + b - 1 : i \in 1..Len(k)
        BY <3>1
      <4> QED
        BY <2>5, <2>8, <3>4, <4>1
    <3>6. b - 1 \in Nat /\ a + b - 1 = a + (b - 1)
      BY <2>10
    <3>7. Agrees(s, [above |-> a, below |-> b - 1], S)
      BY <3>4, <3>5, <3>6 DEF Agrees
    <3> QED
      BY <1>4, <3>2, <3>3, <3>7
  <2>11. CASE x # Up \/ b = 0
    <3>1. f[t] = Append(k, x)
      <4>1. ASSUME x = Up, k # <<>>, k[Len(k)] # Up PROVE FALSE
        <5>1. Len(k) = a /\ Len(k) \in 1..Len(k)
          BY <2>5, <2>8, <2>11, <4>1
        <5> QED
          BY <2>5, <2>8, <4>1, <5>1
      <4> QED
        BY <2>7, <2>9, <4>1
    <3>2. PICK s : s = Append(k, x)
      OBVIOUS
    <3>3. /\ s \in Seq(S) /\ Len(s) = a + b + 1 /\ \A i \in 1..a + b : s[i] = k[i]
          /\ s[a + b + 1] = x
      BY <2>5, <2>6, <2>8, <2>9, <3>2
    <3>4. \A i \in 1..a + b : s[i] = Up <=> i <= a
      BY <2>5, <2>8, <3>3
    <3>5. CASE x = Up
      <4>1. h[t] = [above |-> a + 1, below |-> b] /\ b = 0
        BY <2>7, <2>8, <2>9, <2>11, <3>5
      <4>2. \A i \in 1..a + b + 1 : s[i] = Up <=> i <= a + 1
        <5> SUFFICES ASSUME NEW i \in 1..a + b + 1 PROVE s[i] = Up <=> i <= a + 1
          OBVIOUS
        <5>1. CASE i \in 1..a + b
          BY <3>4, <4>1, <5>1
        <5>2. CASE i = a + b + 1
          BY <3>3, <3>5, <4>1, <5>2
        <5> QED
          BY <5>1, <5>2
      <4>3. Agrees(s, [above |-> a + 1, below |-> b], S)
        BY <3>3, <4>1, <4>2 DEF Agrees
      <4> QED
        BY <1>4, <3>1, <3>2, <4>1, <4>3
    <3>6. CASE x # Up
      <4>1. h[t] = [above |-> a, below |-> b + 1]
        BY <2>7, <2>8, <2>9, <3>6
      <4>2. \A i \in 1..a + b + 1 : s[i] = Up <=> i <= a
        <5> SUFFICES ASSUME NEW i \in 1..a + b + 1 PROVE s[i] = Up <=> i <= a
          OBVIOUS
        <5>1. CASE i \in 1..a + b
          BY <3>4, <5>1
        <5>2. CASE i = a + b + 1
          BY <3>3, <3>6, <5>2
        <5> QED
          BY <5>1, <5>2
      <4>3. Agrees(s, [above |-> a, below |-> b + 1], S)
        BY <3>3, <4>2 DEF Agrees
      <4> QED
        BY <1>4, <3>1, <3>2, <4>1, <4>3
    <3> QED
      BY <3>5, <3>6
  <2>12. x # Up \/ b = 0 \/ b > 0
    OBVIOUS
  <2> QED
    BY <2>10, <2>11, <2>12
<1> QED
  BY <1>6, <1>7

LEMMA CleanIs ==
  ASSUME NEW p, NEW m \in Nat, Len(p) = m
  PROVE  \E f, h : /\ CleanRun(p, m, f) /\ Graph!Clean(p) = f[m]
                   /\ HeightRun(p, m, h) /\ Graph!Height(p) = h[m]
<1>1. PICK f : f = CHOOSE c : CleanRun(p, m, c)
  OBVIOUS
<1>2. PICK h : h = CHOOSE c : HeightRun(p, m, c)
  OBVIOUS
<1>3. CleanRun(p, m, f)
  BY <1>1, CleanRuns, Zenon
<1>4. HeightRun(p, m, h)
  BY <1>2, HeightRuns, Zenon
<1>5. Graph!Clean(p) = f[m]
  BY <1>1, Zenon DEF Graph!Clean, CleanRun, KeptAfter
<1>6. Graph!Height(p) = h[m]
  BY <1>2, Zenon DEF Graph!Height, HeightRun, HeightAfter
<1> QED
  BY <1>3, <1>4, <1>5, <1>6

LEMMA PathStaysInside ==
  ASSUME Graph!WorkflowSpecAssumption, GraphState
  PROVE  Graph!StateStaysInside
<1> SUFFICES ASSUME progress \in {"ordered", "cycle"}, spec.state.path # <<>>
             PROVE  ~spec.state.absolute /\ Graph!Height(spec.state.path).above = 0
  BY DEF Graph!StateStaysInside
<1>1. PICK p : p = spec.state.path
  OBVIOUS
<1>2. PICK S : p \in Seq(S)
  <2>1. spec.state \in States
    BY DEF GraphState, GraphTypes
  <2>2. \A s \in States : s.path \in Seq(Graph!Range(s.path))
    BY DEF Graph!WorkflowSpecAssumption
  <2> QED
    BY <1>1, <2>1, <2>2
<1>3. "path" \notin Graph!StateDiagnostics
  <2>1. Graph!Valid
    BY DEF GraphState, Decided
  <2> QED
    BY <2>1 DEF Graph!Valid
<1>4. ~Graph!Escapes(spec.state)
  BY <1>1, <1>3 DEF Graph!StateDiagnostics
<1>5. ~spec.state.absolute /\ ~(Graph!Clean(p) # <<>> /\ Head(Graph!Clean(p)) = Up)
  BY <1>1, <1>4 DEF Graph!Escapes
<1>6. PICK m \in Nat : m = Len(p)
  BY <1>2
<1>7. PICK f, h : /\ CleanRun(p, m, f) /\ Graph!Clean(p) = f[m]
                  /\ HeightRun(p, m, h) /\ Graph!Height(p) = h[m]
  BY <1>6, CleanIs
<1>8. Agrees(f[m], h[m], S)
  BY <1>2, <1>6, <1>7, Agree
<1>9. PICK k : k = f[m]
  OBVIOUS
<1>10. PICK g : g = h[m]
  OBVIOUS
<1>11. /\ k \in Seq(S) /\ g.above \in Nat /\ g.below \in Nat /\ Len(k) = g.above + g.below
       /\ \A i \in 1..Len(k) : k[i] = Up <=> i <= g.above
  BY <1>8, <1>9, <1>10 DEF Agrees
<1>12. ASSUME g.above # 0 PROVE FALSE
  <2>1. 1 \in 1..Len(k) /\ k # <<>>
    BY <1>11, <1>12
  <2>2. k[1] = Up
    BY <1>11, <1>12, <2>1
  <2>3. Head(k) = k[1]
    BY <1>11, <2>1
  <2> QED
    BY <1>5, <1>7, <1>9, <2>1, <2>2, <2>3
<1> QED
  BY <1>1, <1>5, <1>7, <1>10, <1>12

LEMMA GraphShows ==
  ASSUME Graph!WorkflowSpecAssumption, GraphState
  PROVE  Graph!AcceptedRuns /\ Graph!ReportedCycleIsReal /\ Graph!StateStaysInside
<1>1. Graph!AcceptedRuns
  <2>1. CASE progress = "ordered"
    BY <2>1, OrderRuns
  <2>2. CASE progress # "ordered"
    BY <2>2 DEF Graph!AcceptedRuns
  <2> QED
    BY <2>1, <2>2
<1>2. Graph!ReportedCycleIsReal
  <2>1. CASE progress = "cycle"
    BY <2>1 DEF GraphState, Walked
  <2>2. CASE progress # "cycle"
    <3>1. progress = "walk" /\ stack # <<>> => Graph!Onwards # {}
      BY OnwardsIs
    <3> QED
      BY <2>2, <3>1 DEF Graph!ReportedCycleIsReal, Graph!WalkGoesOn
  <2> QED
    BY <2>1, <2>2
<1> QED
  BY <1>1, <1>2, PathStaysInside

(* A workflow that is accepted has an order in which every agent comes once*)
(* and after all it needs (Order, src/internal/workflow/graph.go), a cycle *)
(* that is reported is one of the file (describeCycle), and the state of an*)
(* accepted workflow is in its folder (Validate, spec.go).                 *)
THEOREM WorkflowsOrdered == PartsSpec => []WorkflowsAreOrdered
<1>1. PartsInit => GraphInv
  BY GraphAssumption, GraphStarts DEF PartsInit, GraphInv
<1>2. GraphInv /\ [PartsNext]_all => GraphInv'
  <2> SUFFICES ASSUME GraphInv, [PartsNext]_all, part' = "graph"
               PROVE  GraphState'
    BY DEF GraphInv
  <2>1. part = "graph" /\ (Graph!Next \/ UNCHANGED graphVars)
    BY StepOfPart
  <2> QED
    BY <2>1, GraphAssumption, GraphSteps DEF GraphInv
<1>3. GraphInv => WorkflowsAreOrdered
  BY GraphAssumption, GraphShows DEF GraphInv, WorkflowsAreOrdered
<1> QED
  BY <1>1, <1>2, <1>3, PTL DEF PartsSpec

-----------------------------------------------------------------------------
(* The choice of a model: a list of targets has one best.                  *)
Classes == {"npu", "gpu", "cpu"}
Backends == {"llama.cpp", "llama.cpp/server", "ollama", "onnxruntime"}
PlacedOnce(ts) ==
  /\ \A x \in ts : \E i, k \in Nat : x.place = <<i, k>>
  /\ \A x, y \in ts : x.place = y.place => x = y
BestOf(ts, prefer, x) ==
  /\ x \in ts
  /\ \A y \in ts : \/ Liking(x, prefer) < Liking(y, prefer)
                   \/ Liking(x, prefer) = Liking(y, prefer) /\ Before(x.place, y.place)

LEMMA LikingIs ==
  ASSUME NEW prefer \in Seq(Classes), NEW t
  PROVE  /\ Liking(t, prefer) \in Nat /\ Liking(t, prefer) <= Len(prefer) + 1
         /\ t.device \notin Classes => Liking(t, prefer) = Len(prefer) + 1
<1>1. PICK n \in Nat : n = Len(prefer)
  OBVIOUS
<1>2. DOMAIN prefer = 1..n /\ \A i \in 1..n : prefer[i] \in Classes
  BY <1>1
<1>3. PICK S : S = {i \in DOMAIN prefer : prefer[i] = t.device}
  OBVIOUS
<1>4. S \in SUBSET (1..n)
  BY <1>2, <1>3
<1>5. CASE S = {}
  <2>1. Liking(t, prefer) = n + 1
    BY <1>1, <1>3, <1>5 DEF Liking
  <2> QED
    BY <1>1, <2>1
<1>6. CASE S # {}
  <2>1. \E i \in S : \A j \in S : i <= j
    BY <1>4, <1>6, HasLeast
  <2>2. Liking(t, prefer) \in S
    BY <1>3, <1>6, <2>1 DEF Liking
  <2>3. t.device \in Classes
    BY <1>2, <1>3, <1>6
  <2>4. PICK v \in 1..n : v = Liking(t, prefer)
    BY <1>4, <2>2, Zenon
  <2> QED
    BY <1>1, <2>3, <2>4
<1> QED
  BY <1>5, <1>6

LEMMA BestThere ==
  ASSUME NEW prefer \in Seq(Classes), NEW ts, ts # {}, PlacedOnce(ts)
  PROVE  \E x : BestOf(ts, prefer, x)
<1>1. PICK l : l = [x \in ts |-> Liking(x, prefer)]
  OBVIOUS
<1>2. \A x \in ts : l[x] \in Nat /\ l[x] = Liking(x, prefer)
  BY <1>1, LikingIs
<1>3. \A x \in ts : x.place[1] \in Nat /\ x.place[2] \in Nat /\ x.place = <<x.place[1], x.place[2]>>
  BY DEF PlacedOnce
<1>4. PICK a \in ts : \A x \in ts : l[a] <= l[x]
  <2>1. PICK T : T = {l[x] : x \in ts}
    OBVIOUS
  <2>2. PICK v \in T : \A w \in T : v <= w
    BY <1>2, <2>1, HasLeast
  <2> QED
    BY <2>1, <2>2
<1>5. PICK A : A = {x \in ts : l[x] = l[a]}
  OBVIOUS
<1>6. PICK b \in A : \A x \in A : b.place[1] <= x.place[1]
  <2>1. PICK T : T = {x.place[1] : x \in A}
    OBVIOUS
  <2>2. T \in SUBSET Nat /\ T # {}
    BY <1>3, <1>5, <2>1
  <2>3. PICK v \in T : \A w \in T : v <= w
    BY <2>2, HasLeast
  <2> QED
    BY <2>1, <2>3
<1>7. PICK B : B = {x \in A : x.place[1] = b.place[1]}
  OBVIOUS
<1>8. PICK c \in B : \A x \in B : c.place[2] <= x.place[2]
  <2>1. PICK T : T = {x.place[2] : x \in B}
    OBVIOUS
  <2>2. T \in SUBSET Nat /\ T # {}
    BY <1>3, <1>5, <1>7, <2>1
  <2>3. PICK v \in T : \A w \in T : v <= w
    BY <2>2, HasLeast
  <2> QED
    BY <2>1, <2>3
<1>9. c \in ts /\ l[c] = l[a] /\ c.place[1] = b.place[1]
  BY <1>5, <1>7
<1>10. ASSUME NEW y \in ts
       PROVE  l[c] < l[y] \/ (l[c] = l[y] /\ Before(c.place, y.place))
  <2>1. CASE y \notin A
    BY <1>2, <1>4, <1>5, <1>9, <2>1
  <2>2. CASE y \in A /\ y \notin B
    <3>1. c.place[1] < y.place[1] /\ l[c] = l[y]
      BY <1>3, <1>5, <1>6, <1>7, <1>9, <2>2
    <3> QED
      BY <3>1 DEF Before
  <2>3. CASE y \in B
    <3>1. l[c] = l[y] /\ c.place[1] = y.place[1] /\ c.place[2] <= y.place[2]
      BY <1>5, <1>7, <1>8, <1>9, <2>3
    <3> QED
      BY <3>1 DEF Before
  <2> QED
    BY <2>1, <2>2, <2>3
<1> QED
  BY <1>2, <1>9, <1>10 DEF BestOf

LEMMA BestAlone ==
  ASSUME NEW prefer \in Seq(Classes), NEW ts, PlacedOnce(ts), NEW x, NEW y,
         BestOf(ts, prefer, x), BestOf(ts, prefer, y)
  PROVE  x = y
<1>1. PICK a \in Nat : a = Liking(x, prefer)
  BY LikingIs
<1>2. PICK b \in Nat : b = Liking(y, prefer)
  BY LikingIs
<1>3. x \in ts /\ y \in ts /\ a = b /\ Before(x.place, y.place) /\ Before(y.place, x.place)
  BY <1>1, <1>2 DEF BestOf
<1>4. PICK i \in Nat, k \in Nat : x.place = <<i, k>>
  BY <1>3 DEF PlacedOnce
<1>5. PICK j \in Nat, l \in Nat : y.place = <<j, l>>
  BY <1>3 DEF PlacedOnce
<1>6. Before(<<i, k>>, <<j, l>>) /\ Before(<<j, l>>, <<i, k>>)
  BY <1>3, <1>4, <1>5
<1>7. (i < j \/ (i = j /\ k <= l)) /\ (j < i \/ (j = i /\ l <= k))
  BY <1>6 DEF Before
<1>8. i = j /\ k = l
  BY <1>7
<1> QED
  BY <1>3, <1>4, <1>5, <1>8 DEF PlacedOnce

LEMMA PreferredIs ==
  ASSUME NEW prefer \in Seq(Classes), NEW ts, ts # {}, PlacedOnce(ts)
  PROVE  \E x : BestOf(ts, prefer, x) /\ Preferred(ts, prefer) = [backend |-> x.backend, device |-> x.device]
<1>1. PICK y : BestOf(ts, prefer, y)
  BY BestThere
<1>2. PICK x : x = CHOOSE t \in ts : \A z \in ts :
                     \/ Liking(t, prefer) < Liking(z, prefer)
                     \/ Liking(t, prefer) = Liking(z, prefer) /\ Before(t.place, z.place)
  OBVIOUS
<1>3. BestOf(ts, prefer, x)
  BY <1>1, <1>2, Zenon DEF BestOf
<1>4. Preferred(ts, prefer) = [backend |-> x.backend, device |-> x.device]
  BY <1>2, Zenon DEF Preferred
<1> QED
  BY <1>3, <1>4


(* The targets of a list.                                                  *)
LEMMA PairsIs ==
  ASSUME NEW bs, NEW m, NEW x
  PROVE  x \in Pairs(bs, m) <=>
           \E i \in DOMAIN bs : \E k \in DOMAIN Probe(bs[i], m).devices :
             /\ Probe(bs[i], m).available /\ Probe(bs[i], m).byPath
             /\ Has(m, Probe(bs[i], m).devices[k])
             /\ x = Target(bs, i, k, Probe(bs[i], m).devices[k])
BY DEF Pairs

LEMMA NamedIs ==
  ASSUME NEW bs, NEW m, NEW store, NEW x
  PROVE  x \in Named(bs, m, store) <=>
           \E i \in DOMAIN bs : /\ Probe(bs[i], m).available /\ ~Probe(bs[i], m).byPath /\ store = bs[i]
                                /\ x = Target(bs, i, 1, "auto")
BY DEF Named

LEMMA ProbeIs ==
  ASSUME NEW m
  PROVE  /\ Probe("llama.cpp", m) = [available |-> Installed[m].cli # "absent", byPath |-> TRUE,
                                     tools |-> FALSE, devices |-> Drives(Installed[m].cli)]
         /\ Probe("llama.cpp/server", m) = [available |-> Installed[m].server # "absent", byPath |-> TRUE,
                                            tools |-> TRUE, devices |-> Drives(Installed[m].server)]
         /\ Probe("ollama", m) = [available |-> Installed[m].ollama, byPath |-> FALSE,
                                  tools |-> TRUE, devices |-> <<"gpu", "cpu">>]
         /\ Probe("onnxruntime", m) = [available |-> Installed[m].onnx, byPath |-> TRUE, tools |-> FALSE,
                                       devices |-> IF "npu" \in Installed[m].hw THEN <<"npu", "cpu">> ELSE <<"cpu">>]
BY DEF Probe

LEMMA DevicesAre ==
  ASSUME NEW m, NEW b \in Backends
  PROVE  /\ DOMAIN Probe(b, m).devices \subseteq Nat
         /\ \A k \in DOMAIN Probe(b, m).devices : Probe(b, m).devices[k] \in Classes
<1>1. Drives(Installed[m].cli) \in {<<"gpu", "cpu">>, <<"cpu">>}
  BY DEF Drives
<1>2. Drives(Installed[m].server) \in {<<"gpu", "cpu">>, <<"cpu">>}
  BY DEF Drives
<1>3. Probe(b, m).devices \in {<<"gpu", "cpu">>, <<"cpu">>, <<"npu", "cpu">>}
  BY <1>1, <1>2, ProbeIs DEF Backends
<1>4. \A s \in {<<"gpu", "cpu">>, <<"cpu">>, <<"npu", "cpu">>} :
        DOMAIN s \subseteq Nat /\ \A k \in DOMAIN s : s[k] \in Classes
  BY DEF Classes
<1> QED
  BY <1>3, <1>4

LEMMA TargetsPlaced ==
  ASSUME NEW bs \in Seq(Backends), NEW m, NEW store
  PROVE  /\ PlacedOnce(Pairs(bs, m) \cup Named(bs, m, store))
         /\ \A x \in Pairs(bs, m) : x.backend \in Backends /\ x.device \in Classes
         /\ \A x \in Named(bs, m, store) : x.backend = store /\ x.backend \in Backends /\ x.device = "auto"
<1>1. DOMAIN bs \subseteq Nat /\ \A i \in DOMAIN bs : bs[i] \in Backends
  OBVIOUS
<1>2. ASSUME NEW x \in Pairs(bs, m)
      PROVE  \E i \in DOMAIN bs : \E k \in Nat :
               /\ x.place = <<i, k>> /\ x.backend = bs[i] /\ x.device \in Classes
               /\ k \in DOMAIN Probe(bs[i], m).devices /\ Probe(bs[i], m).byPath
               /\ x = Target(bs, i, k, Probe(bs[i], m).devices[k])
  <2>1. PICK i \in DOMAIN bs : \E k \in DOMAIN Probe(bs[i], m).devices :
             /\ Probe(bs[i], m).available /\ Probe(bs[i], m).byPath
             /\ Has(m, Probe(bs[i], m).devices[k])
             /\ x = Target(bs, i, k, Probe(bs[i], m).devices[k])
    BY PairsIs
  <2>2. PICK k \in DOMAIN Probe(bs[i], m).devices :
             /\ Probe(bs[i], m).byPath
             /\ x = Target(bs, i, k, Probe(bs[i], m).devices[k])
    BY <2>1
  <2>3. k \in Nat /\ Probe(bs[i], m).devices[k] \in Classes
    BY <1>1, DevicesAre
  <2>4. x.place = <<i, k>> /\ x.backend = bs[i] /\ x.device = Probe(bs[i], m).devices[k]
    BY <2>2 DEF Target
  <2> QED
    BY <2>2, <2>3, <2>4
<1>3. ASSUME NEW x \in Named(bs, m, store)
      PROVE  \E i \in DOMAIN bs :
               /\ x.place = <<i, 1>> /\ x.backend = bs[i] /\ x.device = "auto" /\ bs[i] = store
               /\ ~Probe(bs[i], m).byPath /\ x = Target(bs, i, 1, "auto")
  <2>1. PICK i \in DOMAIN bs : /\ ~Probe(bs[i], m).byPath /\ store = bs[i]
                               /\ x = Target(bs, i, 1, "auto")
    BY NamedIs
  <2> QED
    BY <2>1 DEF Target
<1>4. \A i, j, k, l : <<i, k>> = <<j, l>> => i = j /\ k = l
  OBVIOUS
<1>5. ASSUME NEW x \in Pairs(bs, m) \cup Named(bs, m, store) PROVE \E i, k \in Nat : x.place = <<i, k>>
  BY <1>1, <1>2, <1>3
<1>6. ASSUME NEW x \in Pairs(bs, m) \cup Named(bs, m, store), NEW y \in Pairs(bs, m) \cup Named(bs, m, store),
             x.place = y.place
      PROVE  x = y
  <2>1. CASE x \in Pairs(bs, m) /\ y \in Pairs(bs, m)
    BY <1>2, <1>4, <1>6, <2>1
  <2>2. CASE x \in Named(bs, m, store) /\ y \in Named(bs, m, store)
    BY <1>3, <1>4, <1>6, <2>2
  <2>3. CASE x \in Pairs(bs, m) /\ y \in Named(bs, m, store)
    BY <1>2, <1>3, <1>4, <1>6, <2>3
  <2>4. CASE x \in Named(bs, m, store) /\ y \in Pairs(bs, m)
    BY <1>2, <1>3, <1>4, <1>6, <2>4
  <2> QED
    BY <2>1, <2>2, <2>3, <2>4
<1>7. PlacedOnce(Pairs(bs, m) \cup Named(bs, m, store))
  BY <1>5, <1>6 DEF PlacedOnce
<1> QED
  BY <1>1, <1>2, <1>3, <1>7

LEMMA ProbeHas ==
  ASSUME NEW m
  PROVE  /\ Probe("llama.cpp", m).available = (Installed[m].cli # "absent")
         /\ Probe("llama.cpp", m).byPath /\ ~Probe("llama.cpp", m).tools
         /\ Probe("llama.cpp", m).devices = Drives(Installed[m].cli)
         /\ Probe("llama.cpp/server", m).available = (Installed[m].server # "absent")
         /\ Probe("llama.cpp/server", m).byPath /\ Probe("llama.cpp/server", m).tools
         /\ Probe("llama.cpp/server", m).devices = Drives(Installed[m].server)
         /\ Probe("ollama", m).available = Installed[m].ollama
         /\ ~Probe("ollama", m).byPath /\ Probe("ollama", m).tools
         /\ Probe("onnxruntime", m).available = Installed[m].onnx
         /\ Probe("onnxruntime", m).byPath /\ ~Probe("onnxruntime", m).tools
<1>1. /\ Probe("llama.cpp", m).available = (Installed[m].cli # "absent")
      /\ Probe("llama.cpp", m).byPath /\ ~Probe("llama.cpp", m).tools
      /\ Probe("llama.cpp", m).devices = Drives(Installed[m].cli)
  BY ProbeIs
<1>2. /\ Probe("llama.cpp/server", m).available = (Installed[m].server # "absent")
      /\ Probe("llama.cpp/server", m).byPath /\ Probe("llama.cpp/server", m).tools
      /\ Probe("llama.cpp/server", m).devices = Drives(Installed[m].server)
  BY ProbeIs
<1>3. /\ Probe("ollama", m).available = Installed[m].ollama
      /\ ~Probe("ollama", m).byPath /\ Probe("ollama", m).tools
  BY ProbeIs
<1>4. /\ Probe("onnxruntime", m).available = Installed[m].onnx
      /\ Probe("onnxruntime", m).byPath /\ ~Probe("onnxruntime", m).tools
  BY ProbeIs
<1> QED
  BY <1>1, <1>2, <1>3, <1>4

LEMMA Lists ==
  ASSUME NEW S, NEW a \in S, NEW b \in S, NEW c \in S
  PROVE  /\ <<a>> \in Seq(S) /\ <<a, b>> \in Seq(S) /\ <<a, b, c>> \in Seq(S) /\ <<>> \in Seq(S)
         /\ DOMAIN <<a>> = 1..1 /\ DOMAIN <<a, b>> = 1..2 /\ DOMAIN <<a, b, c>> = 1..3
         /\ <<a>> \o <<b>> = <<a, b>>
         /\ \A s \in Seq(S) : <<>> \o s = s /\ s \o <<>> = s
<1>1. <<a>> \in Seq(S) /\ <<a, b>> \in Seq(S) /\ <<a, b, c>> \in Seq(S) /\ <<>> \in Seq(S)
  OBVIOUS
<1>2. DOMAIN <<a>> = 1..1 /\ DOMAIN <<a, b>> = 1..2 /\ DOMAIN <<a, b, c>> = 1..3
  OBVIOUS
<1>3. <<a>> \o <<b>> = <<a, b>>
  <2>1. Append(<<a>>, b) = <<a>> \o <<b>>
    BY <1>1, AppendIsConcat
  <2>2. PICK s : s = Append(<<a>>, b)
    OBVIOUS
  <2>3. PICK t : t = <<a, b>>
    OBVIOUS
  <2>4. PICK r : r = <<a>>
    OBVIOUS
  <2>5. r \in Seq(S) /\ Len(r) = 1 /\ r[1] = a
    BY <1>1, <2>4
  <2>6. s \in Seq(S) /\ Len(s) = 2 /\ s[1] = a /\ s[2] = b
    BY <2>2, <2>4, <2>5, AppendProperties
  <2>7. t \in Seq(S) /\ Len(t) = 2 /\ t[1] = a /\ t[2] = b
    BY <1>1, <2>3
  <2>8. \A i \in 1..Len(s) : s[i] = t[i]
    BY <2>6, <2>7
  <2>9. s = t
    BY <2>6, <2>7, <2>8, SeqEqual
  <2> QED
    BY <2>1, <2>2, <2>3, <2>9, Zenon
<1>4. ASSUME NEW s \in Seq(S) PROVE <<>> \o s = s /\ s \o <<>> = s
  BY ConcatEmptySeq
<1> QED
  BY <1>1, <1>2, <1>3, <1>4


LEMMA LikingSame ==
  ASSUME NEW prefer, NEW x, NEW y, x.device = y.device
  PROVE  Liking(x, prefer) = Liking(y, prefer)
BY DEF Liking

(* Two lists whose targets correspond have corresponding best ones.        *)
Match(x, y) == x.place = y.place /\ x.device = y.device /\ Engine(x.backend) = Engine(y.backend)

LEMMA BestMatch ==
  ASSUME NEW prefer \in Seq(Classes), NEW ts, NEW us, PlacedOnce(us), NEW x, NEW y,
         BestOf(ts, prefer, x), BestOf(us, prefer, y),
         \A t \in ts : \E u \in us : Match(t, u), \A u \in us : \E t \in ts : Match(t, u)
  PROVE  Match(x, y)
<1>1. x \in ts
  BY DEF BestOf
<1>2. PICK z \in us : Match(x, z)
  BY <1>1
<1>3. ASSUME NEW u \in us
      PROVE  \/ Liking(z, prefer) < Liking(u, prefer)
             \/ Liking(z, prefer) = Liking(u, prefer) /\ Before(z.place, u.place)
  <2>1. PICK t \in ts : Match(t, u)
    OBVIOUS
  <2>2. Liking(t, prefer) = Liking(u, prefer) /\ Liking(x, prefer) = Liking(z, prefer)
    BY <1>2, <2>1, LikingSame DEF Match
  <2>3. x.place = z.place /\ t.place = u.place
    BY <1>2, <2>1 DEF Match
  <2>4. \/ Liking(x, prefer) < Liking(t, prefer)
        \/ Liking(x, prefer) = Liking(t, prefer) /\ Before(x.place, t.place)
    BY <2>1 DEF BestOf
  <2> QED
    BY <2>2, <2>3, <2>4
<1>4. BestOf(us, prefer, z)
  BY <1>3 DEF BestOf
<1>5. z = y
  BY <1>4, BestAlone
<1> QED
  BY <1>2, <1>5

LEMMA PairsMatch ==
  ASSUME NEW bs, NEW rs, NEW m,
         \A i \in DOMAIN bs : Probe(bs[i], m).available /\ Probe(bs[i], m).byPath =>
           /\ i \in DOMAIN rs /\ Probe(rs[i], m).available /\ Probe(rs[i], m).byPath
           /\ Probe(rs[i], m).devices = Probe(bs[i], m).devices /\ Engine(rs[i]) = Engine(bs[i])
  PROVE  \A x \in Pairs(bs, m) : \E y \in Pairs(rs, m) : Match(x, y) /\ Match(y, x)
<1> SUFFICES ASSUME NEW x \in Pairs(bs, m) PROVE \E y \in Pairs(rs, m) : Match(x, y) /\ Match(y, x)
  OBVIOUS
<1>1. PICK i \in DOMAIN bs : \E k \in DOMAIN Probe(bs[i], m).devices :
             /\ Probe(bs[i], m).available /\ Probe(bs[i], m).byPath
             /\ Has(m, Probe(bs[i], m).devices[k])
             /\ x = Target(bs, i, k, Probe(bs[i], m).devices[k])
  BY PairsIs
<1>2. PICK k \in DOMAIN Probe(bs[i], m).devices :
             /\ Has(m, Probe(bs[i], m).devices[k])
             /\ x = Target(bs, i, k, Probe(bs[i], m).devices[k])
  BY <1>1
<1>3. /\ i \in DOMAIN rs /\ Probe(rs[i], m).available /\ Probe(rs[i], m).byPath
      /\ Probe(rs[i], m).devices = Probe(bs[i], m).devices /\ Engine(rs[i]) = Engine(bs[i])
  BY <1>1
<1>4. PICK y : y = Target(rs, i, k, Probe(rs[i], m).devices[k])
  OBVIOUS
<1>5. y \in Pairs(rs, m)
  BY <1>2, <1>3, <1>4, PairsIs
<1>6. Match(x, y) /\ Match(y, x)
  BY <1>2, <1>3, <1>4 DEF Match, Target
<1> QED
  BY <1>5, <1>6

(* Where the first backend takes paths, no named one is better.            *)
LEMMA FirstLeads ==
  ASSUME NEW prefer \in Seq(Classes), NEW bs \in Seq(Backends), NEW m, NEW store, NEW x, 1 \in DOMAIN bs,
         bs[1] \in {"llama.cpp", "llama.cpp/server"}, Probe(bs[1], m).available,
         BestOf(Pairs(bs, m) \cup Named(bs, m, store), prefer, x)
  PROVE  BestOf(Pairs(bs, m), prefer, x)
<1>1. Probe(bs[1], m).byPath /\ Probe(bs[1], m).devices \in {<<"gpu", "cpu">>, <<"cpu">>}
  BY ProbeIs DEF Drives
<1>2. PICK k \in DOMAIN Probe(bs[1], m).devices : k \in Nat /\ Probe(bs[1], m).devices[k] = "cpu"
  <2>1. CASE Probe(bs[1], m).devices = <<"gpu", "cpu">>
    <3>1. 2 \in DOMAIN <<"gpu", "cpu">> /\ <<"gpu", "cpu">>[2] = "cpu"
      OBVIOUS
    <3> QED
      BY <2>1, <3>1
  <2>2. CASE Probe(bs[1], m).devices = <<"cpu">>
    <3>1. 1 \in DOMAIN <<"cpu">> /\ <<"cpu">>[1] = "cpu"
      OBVIOUS
    <3> QED
      BY <2>2, <3>1
  <2> QED
    BY <1>1, <2>1, <2>2
<1>3. PICK y : y = Target(bs, 1, k, "cpu")
  OBVIOUS
<1>4. y \in Pairs(bs, m)
  BY <1>1, <1>2, <1>3, PairsIs DEF Has
<1>5. ASSUME x \in Named(bs, m, store) PROVE FALSE
  <2>1. PICK i \in DOMAIN bs : ~Probe(bs[i], m).byPath /\ x = Target(bs, i, 1, "auto")
    BY <1>5, NamedIs
  <2>2. i \in Nat /\ i > 1
    BY <1>1, <2>1
  <2>3. x.place = <<i, 1>> /\ y.place = <<1, k>> /\ x.device = "auto"
    BY <1>3, <2>1 DEF Target
  <2>4. PICK a \in Nat : a = Liking(x, prefer) /\ a = Len(prefer) + 1
    BY <2>3, LikingIs DEF Classes
  <2>5. PICK b \in Nat : b = Liking(y, prefer) /\ b <= Len(prefer) + 1
    BY LikingIs
  <2>6. a < b \/ Before(<<i, 1>>, <<1, k>>)
    BY <1>4, <2>3, <2>4, <2>5 DEF BestOf
  <2>7. a >= b
    BY <2>4, <2>5
  <2>8. Before(<<i, 1>>, <<1, k>>)
    BY <2>4, <2>5, <2>6, <2>7
  <2>9. i < 1 \/ i = 1
    BY <2>8 DEF Before
  <2> QED
    BY <2>2, <2>9
<1> QED
  BY <1>5 DEF BestOf

SelectedOf(ts, prefer, y) ==
  BestOf(ts, prefer, y) /\ y.backend \in Backends /\ y.device \in Classes \cup {"auto"}
RunsAlike(ts, prefer, x) ==
  \E y : SelectedOf(ts, prefer, y) /\ y.device = x.device /\ Engine(y.backend) = Engine(x.backend)
Runs(rs, m, into) == IF Pairs(rs, m) # {} THEN Pairs(rs, m) ELSE Named(rs, m, into)

(* What takes paths in a list is in the other at the same place.           *)
Covers(bs, rs, m) ==
  \A i \in DOMAIN bs : Probe(bs[i], m).available /\ Probe(bs[i], m).byPath =>
    /\ i \in DOMAIN rs /\ Probe(rs[i], m).available /\ Probe(rs[i], m).byPath
    /\ Probe(rs[i], m).devices = Probe(bs[i], m).devices /\ Engine(rs[i]) = Engine(bs[i])

LlamaFirst(bs, m) ==
  1 \in DOMAIN bs /\ bs[1] \in {"llama.cpp", "llama.cpp/server"} /\ Probe(bs[1], m).available

(* The backends that an evaluation and a run have in common lead both.     *)
LEMMA LeadsBoth ==
  ASSUME NEW prefer \in Seq(Classes), NEW bs \in Seq(Backends), NEW rs \in Seq(Backends),
         NEW m, NEW store, NEW into, NEW x, NEW us, us = Runs(rs, m, into), LlamaFirst(bs, m),
         BestOf(Pairs(bs, m) \cup Named(bs, m, store), prefer, x),
         Covers(bs, rs, m),
         Covers(rs, bs, m)
  PROVE  RunsAlike(us, prefer, x)
<1>1. BestOf(Pairs(bs, m), prefer, x)
  BY FirstLeads DEF LlamaFirst
<1>2. \A t \in Pairs(bs, m) : \E u \in Pairs(rs, m) : Match(t, u)
  BY PairsMatch DEF Covers
<1>3. \A u \in Pairs(rs, m) : \E t \in Pairs(bs, m) : Match(t, u)
  BY PairsMatch DEF Covers
<1>4. Pairs(rs, m) # {} /\ Runs(rs, m, into) = Pairs(rs, m)
  BY <1>1, <1>2 DEF BestOf, Runs
<1>5. /\ PlacedOnce(Pairs(rs, m))
      /\ \A u \in Pairs(rs, m) : u.backend \in Backends /\ u.device \in Classes
  <2>1. PlacedOnce(Pairs(rs, m) \cup Named(rs, m, into))
    BY TargetsPlaced, Zenon
  <2>2. \A u \in Pairs(rs, m) : u.backend \in Backends /\ u.device \in Classes
    BY TargetsPlaced, Zenon
  <2> QED
    BY <2>1, <2>2 DEF PlacedOnce
<1>6. PICK y : BestOf(Pairs(rs, m), prefer, y)
  BY <1>4, <1>5, BestThere
<1>7. Match(x, y)
  BY <1>1, <1>2, <1>3, <1>5, <1>6, BestMatch
<1>8. y \in Pairs(rs, m)
  BY <1>6 DEF BestOf
<1> QED
  BY <1>4, <1>5, <1>6, <1>7, <1>8 DEF Match, SelectedOf, RunsAlike

(* With none that takes paths both come down to the store's own backend.   *)
LEMMA OnlyNamed ==
  ASSUME NEW prefer \in Seq(Classes), NEW bs \in Seq(Backends), NEW rs \in Seq(Backends),
         NEW m, NEW store, NEW x, x \in Pairs(bs, m) \cup Named(bs, m, store),
         Pairs(bs, m) = {}, Pairs(rs, m) = {},
         \A i \in DOMAIN bs : Probe(bs[i], m).available => \E j \in DOMAIN rs : rs[j] = bs[i]
  PROVE  /\ x.device = "auto"
         /\ RunsAlike(Runs(rs, m, store), prefer, x)
<1>0. x \in Named(bs, m, store)
  OBVIOUS
<1>9. \A u \in Named(bs, m, store) : u.backend = store /\ u.device = "auto"
  BY TargetsPlaced DEF PlacedOnce
<1>1. x \in Named(bs, m, store) /\ x.backend = store /\ x.device = "auto"
  BY <1>0, <1>9
<1>2. PICK i \in DOMAIN bs : Probe(bs[i], m).available /\ ~Probe(bs[i], m).byPath /\ store = bs[i]
  BY <1>1, NamedIs
<1>3. PICK j \in DOMAIN rs : rs[j] = bs[i]
  BY <1>2
<1>4. Target(rs, j, 1, "auto") \in Named(rs, m, store)
  BY <1>2, <1>3, NamedIs
<1>5. Runs(rs, m, store) = Named(rs, m, store) /\ Named(rs, m, store) # {}
  BY <1>4 DEF Runs
<1>6. /\ PlacedOnce(Named(rs, m, store))
      /\ \A u \in Named(rs, m, store) : u.backend = store /\ u.backend \in Backends /\ u.device = "auto"
  <2>1. PlacedOnce(Pairs(rs, m) \cup Named(rs, m, store))
    BY TargetsPlaced, Zenon
  <2>2. \A u \in Named(rs, m, store) : u.backend = store /\ u.backend \in Backends /\ u.device = "auto"
    BY TargetsPlaced DEF PlacedOnce
  <2> QED
    BY <2>1, <2>2 DEF PlacedOnce
<1>7. PICK y : BestOf(Named(rs, m, store), prefer, y)
  BY <1>5, <1>6, BestThere
<1>8. y \in Named(rs, m, store)
  BY <1>7 DEF BestOf
<1> QED
  BY <1>1, <1>5, <1>6, <1>7, <1>8 DEF SelectedOf, RunsAlike

LEMMA ListsAre ==
  ASSUME NEW m, NEW tools \in BOOLEAN
  PROVE  /\ ~tools /\ Installed[m].server # "absent" =>
              SelectBackends(m, tools) = <<"llama.cpp/server", "ollama", "onnxruntime">>
         /\ ~tools /\ Installed[m].server = "absent" => SelectBackends(m, tools) = All
         /\ tools /\ Installed[m].server # "absent" =>
              SelectBackends(m, tools) \in {<<"llama.cpp/server", "ollama">>, <<"llama.cpp/server">>}
         /\ tools /\ Installed[m].server = "absent" => SelectBackends(m, tools) \in {<<"ollama">>, <<>>}
<1> DEFINE carrying(b) == IF Probe(b, m).available /\ Probe(b, m).tools THEN <<b>> ELSE <<>>
<1>1. EvalBackends(m) = IF Installed[m].server # "absent" THEN <<"llama.cpp/server", "ollama", "onnxruntime">>
                        ELSE <<"llama.cpp", "ollama", "onnxruntime">>
  BY DEF EvalBackends, All
<1>2. ~tools => SelectBackends(m, tools) = EvalBackends(m)
  BY DEF SelectBackends
<1>3. tools => SelectBackends(m, tools) =
                 carrying(EvalBackends(m)[1]) \o carrying(EvalBackends(m)[2]) \o carrying(EvalBackends(m)[3])
  BY DEF SelectBackends
<1>4. /\ carrying("llama.cpp") = <<>> /\ carrying("onnxruntime") = <<>>
      /\ carrying("ollama") \in {<<"ollama">>, <<>>}
      /\ Installed[m].server # "absent" => carrying("llama.cpp/server") = <<"llama.cpp/server">>
  BY ProbeHas
<1> HIDE DEF carrying
<1>5. CASE tools /\ Installed[m].server # "absent"
  <2>0. EvalBackends(m) = <<"llama.cpp/server", "ollama", "onnxruntime">>
    BY <1>1, <1>5
  <2>4. /\ EvalBackends(m)[1] = "llama.cpp/server" /\ EvalBackends(m)[2] = "ollama"
        /\ EvalBackends(m)[3] = "onnxruntime"
    BY <2>0
  <2>1. SelectBackends(m, tools) = <<"llama.cpp/server">> \o carrying("ollama") \o <<>>
    BY <1>3, <1>4, <1>5, <2>4
  <2>2. /\ <<"llama.cpp/server">> \o <<>> \o <<>> = <<"llama.cpp/server">>
        /\ <<"llama.cpp/server">> \o <<"ollama">> \o <<>> = <<"llama.cpp/server", "ollama">>
    <3>1. "llama.cpp/server" \in Backends /\ "ollama" \in Backends
      BY DEF Backends
    <3> QED
      <4>1. <<"llama.cpp/server">> \in Seq(Backends) /\ <<"llama.cpp/server", "ollama">> \in Seq(Backends)
        BY <3>1, Lists, Zenon
      <4>2. <<"llama.cpp/server">> \o <<"ollama">> = <<"llama.cpp/server", "ollama">>
        BY <3>1, Lists
      <4>3. \A s \in Seq(Backends) : s \o <<>> = s
        BY ConcatEmptySeq
      <4> QED
        BY <4>1, <4>2, <4>3, Zenon
  <2> QED
    BY <1>4, <1>5, <2>1, <2>2
<1>6. CASE tools /\ Installed[m].server = "absent"
  <2>0. EvalBackends(m) = <<"llama.cpp", "ollama", "onnxruntime">>
    BY <1>1, <1>6
  <2>4. /\ EvalBackends(m)[1] = "llama.cpp" /\ EvalBackends(m)[2] = "ollama"
        /\ EvalBackends(m)[3] = "onnxruntime"
    BY <2>0
  <2>1. SelectBackends(m, tools) = <<>> \o carrying("ollama") \o <<>>
    BY <1>3, <1>4, <1>6, <2>4
  <2>2. /\ <<>> \o <<>> \o <<>> = <<>>
        /\ <<>> \o <<"ollama">> \o <<>> = <<"ollama">>
    BY Lists DEF Backends
  <2> QED
    BY <1>4, <1>6, <2>1, <2>2
<1> QED
  BY <1>1, <1>2, <1>5, <1>6 DEF All

LEMMA Known ==
  /\ <<"llama.cpp/server", "ollama", "onnxruntime">> \in Seq(Backends)
  /\ <<"llama.cpp", "ollama", "onnxruntime">> \in Seq(Backends)
  /\ <<"llama.cpp/server", "ollama">> \in Seq(Backends) /\ <<"llama.cpp/server">> \in Seq(Backends)
  /\ DOMAIN <<"llama.cpp/server", "ollama", "onnxruntime">> = 1..3
  /\ DOMAIN <<"llama.cpp", "ollama", "onnxruntime">> = 1..3
  /\ DOMAIN <<"llama.cpp/server", "ollama">> = 1..2 /\ DOMAIN <<"llama.cpp/server">> = 1..1
BY Lists DEF Backends

LEMMA SelectedLists ==
  ASSUME NEW m, NEW tools \in BOOLEAN
  PROVE  SelectBackends(m, tools) \in Seq(Backends) /\ All \in Seq(Backends) /\ ToolCapable \in Seq(Backends)
<1>1. <<"ollama">> \in Seq(Backends) /\ <<>> \in Seq(Backends)
  BY Lists DEF Backends
<1>2. All \in Seq(Backends) /\ ToolCapable \in Seq(Backends)
  BY Known DEF All, ToolCapable
<1> QED
  BY <1>1, <1>2, Known, ListsAre, Zenon

(* What is measured is what runs.                                          *)
LEMMA MeasuredAsRun ==
  ASSUME NEW prefer \in Seq(Classes), NEW m, NEW tools \in BOOLEAN, NEW store, NEW into, NEW x,
         NEW bs \in Seq(Backends), NEW rs \in Seq(Backends), bs = SelectBackends(m, tools),
         rs = (IF tools THEN ToolCapable ELSE All),
         Installed[m].server \in {Installed[m].cli, "absent"},
         ~(Installed[m].onnx /\ Installed[m].cli = "absent"),
         BestOf(Pairs(bs, m) \cup Named(bs, m, store), prefer, x),
         into = store \/ x.device # "auto"
  PROVE  RunsAlike(Runs(rs, m, into), prefer, x)
<1>1. bs = SelectBackends(m, tools)
  OBVIOUS
<1>2. rs = IF tools THEN ToolCapable ELSE All
  OBVIOUS
<1>3. x \in Pairs(bs, m) \cup Named(bs, m, store) /\ BestOf(Pairs(bs, m) \cup Named(bs, m, store), prefer, x)
  BY <1>1 DEF BestOf
<1>5. Engine("llama.cpp/server") = Engine("llama.cpp")
  BY DEF Engine
<1>6. Installed[m].server # "absent" => Probe("llama.cpp/server", m).devices = Probe("llama.cpp", m).devices
  BY ProbeIs
<1>7. CASE ~tools /\ Installed[m].cli # "absent"
  <2>1. bs \in {<<"llama.cpp/server", "ollama", "onnxruntime">>, <<"llama.cpp", "ollama", "onnxruntime">>}
    BY <1>1, <1>7, ListsAre DEF All
  <2>2. rs = <<"llama.cpp", "ollama", "onnxruntime">>
    BY <1>2, <1>7 DEF All
  <2>3. DOMAIN bs = 1..3 /\ DOMAIN rs = 1..3
    BY <2>1, <2>2, Known, Zenon
  <2>4. /\ bs[1] \in {"llama.cpp/server", "llama.cpp"} /\ rs[1] = "llama.cpp"
        /\ bs[1] = "llama.cpp/server" => Installed[m].server # "absent"
        /\ bs[2] = rs[2] /\ bs[3] = rs[3]
    BY <1>1, <1>7, <2>1, <2>2, ListsAre DEF All
  <2>5. /\ Probe(bs[1], m).available /\ Probe(rs[1], m).available
        /\ Probe(bs[1], m).byPath /\ Probe(rs[1], m).byPath
        /\ Probe(bs[1], m).devices = Probe(rs[1], m).devices /\ Engine(bs[1]) = Engine(rs[1])
    BY <1>5, <1>6, <1>7, <2>4, ProbeHas
  <2>6. \A i \in 1..3 : i = 1 \/ i = 2 \/ i = 3
    OBVIOUS
  <2>7. Covers(bs, rs, m)
    BY <2>3, <2>4, <2>5, <2>6, Zenon DEF Covers
  <2>8. Covers(rs, bs, m)
    BY <2>3, <2>4, <2>5, <2>6, Zenon DEF Covers
  <2>9. 1 \in DOMAIN bs
    BY <2>3
  <2> QED
    <3>1. bs[1] \in {"llama.cpp", "llama.cpp/server"} /\ Probe(bs[1], m).available
      BY <2>4, <2>5
    <3>2. 1 \in DOMAIN bs
      BY <2>3, <2>9
    <3>3. RunsAlike(Runs(rs, m, into), prefer, x)
      <4>1. LlamaFirst(bs, m)
        BY <3>1, <3>2 DEF LlamaFirst
      <4>2. BestOf(Pairs(bs, m) \cup Named(bs, m, store), prefer, x)
        BY <1>3
      <4> QED
        <5>1. PICK us : us = Runs(rs, m, into)
          OBVIOUS
        <5>2. RunsAlike(us, prefer, x)
          BY <2>7, <2>8, <4>1, <4>2, <5>1, LeadsBoth
        <5> QED
          BY <5>1, <5>2
    <3> QED
      BY <1>2, <3>3, Zenon
<1>8. CASE tools /\ Installed[m].server # "absent"
  <2>1. bs \in {<<"llama.cpp/server", "ollama">>, <<"llama.cpp/server">>}
    BY <1>1, <1>8, ListsAre
  <2>2. rs = <<"llama.cpp/server", "ollama">>
    BY <1>2, <1>8 DEF ToolCapable
  <2>9. 1..1 \subseteq 1..2 /\ 1 \in 1..1 /\ 1 \in 1..2 /\ 1..2 \subseteq 1..2
    OBVIOUS
  <2>3. DOMAIN bs \subseteq 1..2 /\ 1 \in DOMAIN bs /\ DOMAIN rs = 1..2
    BY <2>1, <2>2, <2>9, Known, Zenon
  <2>4. /\ bs[1] = "llama.cpp/server" /\ rs[1] = "llama.cpp/server" /\ rs[2] = "ollama"
        /\ 2 \in DOMAIN bs => bs[2] = "ollama"
    BY <2>1, <2>2
  <2>5. Probe("llama.cpp/server", m).available /\ Probe("llama.cpp/server", m).byPath /\ ~Probe("ollama", m).byPath
    BY <1>8, ProbeHas
  <2>6. \A i \in 1..2 : i = 1 \/ i = 2
    OBVIOUS
  <2>7. Covers(bs, rs, m)
    BY <2>3, <2>4, <2>5, <2>6, Zenon DEF Covers
  <2>8. Covers(rs, bs, m)
    BY <2>3, <2>4, <2>5, <2>6, Zenon DEF Covers
  <2> QED
    <3>1. bs[1] \in {"llama.cpp", "llama.cpp/server"} /\ Probe(bs[1], m).available
      BY <2>4, <2>5
    <3>2. 1 \in DOMAIN bs
      BY <2>3
    <3>3. RunsAlike(Runs(rs, m, into), prefer, x)
      <4>1. LlamaFirst(bs, m)
        BY <3>1, <3>2 DEF LlamaFirst
      <4>2. BestOf(Pairs(bs, m) \cup Named(bs, m, store), prefer, x)
        BY <1>3
      <4> QED
        <5>1. PICK us : us = Runs(rs, m, into)
          OBVIOUS
        <5>2. RunsAlike(us, prefer, x)
          BY <2>7, <2>8, <4>1, <4>2, <5>1, LeadsBoth
        <5> QED
          BY <5>1, <5>2
    <3> QED
      BY <1>2, <3>3, Zenon
<1>9. CASE ~tools /\ Installed[m].cli = "absent"
  <2>1. bs = All /\ rs = All
    BY <1>1, <1>2, <1>9, ListsAre
  <2>2. \A i \in DOMAIN All : All[i] \in {"llama.cpp", "ollama", "onnxruntime"}
    BY DEF All
  <2>3. Installed[m].onnx = FALSE \/ Installed[m].onnx # TRUE
    BY <1>9
  <2>4. \A i \in DOMAIN All : ~(Probe(All[i], m).available /\ Probe(All[i], m).byPath)
    BY <1>9, <2>2, ProbeIs
  <2>5. \A y : y \notin Pairs(All, m)
    BY <2>4, PairsIs, Zenon
  <2>6. Pairs(All, m) = {}
    BY <2>5
  <2>7. x.device = "auto"
    BY <1>3, <2>1, <2>6, OnlyNamed
  <2> QED
    BY <1>2, <1>3, <2>1, <2>6, <2>7, OnlyNamed
<1>10. CASE tools /\ Installed[m].server = "absent"
  <2>1. bs \in {<<"ollama">>, <<>>} /\ rs = <<"llama.cpp/server", "ollama">>
    BY <1>1, <1>2, <1>10, ListsAre DEF ToolCapable
  <2>8. <<"ollama">> \in Seq(Backends) /\ <<>> \in Seq(Backends)
    BY Lists DEF Backends
  <2>2. /\ bs \in Seq(Backends) /\ \A i \in DOMAIN bs : bs[i] = "ollama"
        /\ \A i \in DOMAIN rs : rs[i] \in {"llama.cpp/server", "ollama"}
        /\ 2 \in DOMAIN rs /\ rs[2] = "ollama"
    <3>1. bs \in Seq(Backends)
      BY <2>1, <2>8
    <3>2. \A i \in DOMAIN bs : bs[i] = "ollama"
      BY <2>1
    <3>3. /\ \A i \in DOMAIN rs : rs[i] \in {"llama.cpp/server", "ollama"}
          /\ 2 \in DOMAIN rs /\ rs[2] = "ollama"
      BY <2>1
    <3> QED
      BY <3>1, <3>2, <3>3
  <2>3. ~(Probe("llama.cpp/server", m).available) /\ ~Probe("ollama", m).byPath
    BY <1>10, ProbeHas
  <2>4. \A y : y \notin Pairs(bs, m) /\ y \notin Pairs(rs, m)
    BY <2>2, <2>3, PairsIs, Zenon
  <2>5. Pairs(bs, m) = {} /\ Pairs(rs, m) = {}
    BY <2>4
  <2>6. \A i \in DOMAIN bs : Probe(bs[i], m).available => \E j \in DOMAIN rs : rs[j] = bs[i]
    BY <2>2
  <2>7. x.device = "auto"
    BY <1>3, <2>2, <2>5, <2>6, OnlyNamed
  <2> QED
    BY <1>2, <1>3, <2>2, <2>5, <2>6, <2>7, OnlyNamed
<1> QED
  BY <1>7, <1>8, <1>9, <1>10

-----------------------------------------------------------------------------
(* What a row rests on.                                                    *)
Evidence(e) ==
  /\ e.passed \in Nat /\ e.total \in Nat /\ e.speed \in Nat
  /\ IF e.total = 0 THEN e.passed = 0 ELSE (Scale \div e.total) * e.total = Scale
  /\ e # NoMeasure /\ e.digest \in {0, e.edition}
ChoiceTypes ==
  /\ machine \in Machines /\ profile \in Profiles /\ files \in Files /\ truth \in Truths
  /\ suite \in BOOLEAN /\ built.suite \in BOOLEAN
  /\ \A e \in cache.entries : Evidence(e) /\ e.machine = cache.machine
UnitOK(u) == u.suite \in BOOLEAN /\ u.digest \in {0, u.edition}
TargetOf(u, c, o) == MeasuredOn(machine, profile.tools, o.prefer, c.store, u.suite)

LEMMA MeasuredIs ==
  ASSUME ModelChoiceAssumption, ChoiceTypes, NEW u, UnitOK(u), NEW i \in DOMAIN Candidates, NEW target,
         NEW e, e = Measured(u, Candidates[i], target, truth[i])
  PROVE  /\ Evidence(e) /\ e.source = Candidates[i].source /\ e.target = target /\ e.machine = machine
<1>1. /\ e.source = Candidates[i].source /\ e.target = target /\ e.machine = machine
      /\ e.digest = u.digest /\ e.edition = u.edition /\ e.speed = truth[i].speed
      /\ e.passed = (IF u.suite THEN truth[i].passed ELSE 0)
      /\ e.total = (IF u.suite THEN truth[i].total ELSE 0)
  BY DEF Measured
<1>2. PICK got : got = truth[i]
  OBVIOUS
<1>3. /\ got.passed \in Nat /\ got.total \in Nat /\ got.speed \in Nat
      /\ IF got.total = 0 THEN got.passed = 0 ELSE (Scale \div got.total) * got.total = Scale
  BY <1>2 DEF ModelChoiceAssumption, ChoiceTypes
<1>4. "source" \in DOMAIN e /\ "source" \notin DOMAIN NoMeasure
  BY DEF Measured, NoMeasure
<1>5. e.passed \in Nat /\ e.total \in Nat /\ e.speed \in Nat
  BY <1>1, <1>2, <1>3
<1>6. IF e.total = 0 THEN e.passed = 0 ELSE (Scale \div e.total) * e.total = Scale
  <2>1. CASE u.suite
    <3>1. e.total = got.total /\ e.passed = got.passed
      BY <1>1, <1>2, <2>1
    <3> QED
      BY <1>3, <3>1
  <2>2. CASE ~u.suite
    BY <1>1, <2>2
  <2> QED
    BY <2>1, <2>2
<1>7. e.digest \in {0, e.edition}
  BY <1>1 DEF UnitOK
<1> QED
  BY <1>1, <1>4, <1>5, <1>6, <1>7 DEF Evidence

RowOK(r, i, u, o) ==
  /\ DOMAIN r = {"verdict", "cached", "e"}
  /\ r.verdict = "ok" =>
       Evidence(r.e) /\ Bars(Candidates[i]) = "ok" /\ r.e.source = Candidates[i].source
  /\ r.verdict # "ok" => r.e = NoMeasure
  /\ r.cached =>
       /\ r.e.machine = machine /\ now - r.e.at < TTL /\ ~o.refresh
       /\ 0 \in {r.e.digest, u.digest} \/ r.e.edition = u.edition
  /\ r.verdict = "ok" /\ r.cached # TRUE =>
       /\ r.e.target = TargetOf(u, Candidates[i], o) /\ r.e.target # NoTarget /\ r.e.machine = machine

LEMMA ConsiderIs ==
  ASSUME ModelChoiceAssumption, ChoiceTypes, NEW u, UnitOK(u), NEW o, NEW i \in DOMAIN Candidates
  PROVE  RowOK(Consider(u, Candidates[i], o, truth[i]), i, u, o)
<1>1. PICK c : c = Candidates[i]
  OBVIOUS
<1> DEFINE got == truth[i]
           hit == IF o.refresh THEN {} ELSE Lookup(LoadCache, c.source, u.digest)
           target == MeasuredOn(machine, profile.tools, o.prefer, c.store, u.suite)
<1>4. PICK r : r = Consider(u, c, o, got)
  OBVIOUS
<1>5. r = IF Bars(c) # "ok" THEN Rejected(Bars(c))
          ELSE IF hit # {} THEN Row("ok", TRUE, CHOOSE e \in hit : TRUE)
          ELSE IF target = NoTarget \/ ~got.runs \/ target.backend = "onnxruntime" THEN Rejected("unrunnable")
          ELSE Row("ok", FALSE, Measured(u, c, target, got))
  BY <1>4, Zenon DEF Consider
<1>2. hit = IF o.refresh THEN {} ELSE Lookup(LoadCache, c.source, u.digest)
  OBVIOUS
<1>3. target = TargetOf(u, c, o) /\ got = truth[i]
  BY DEF TargetOf
<1> HIDE DEF got, hit, target
<1> SUFFICES RowOK(r, i, u, o)
  BY <1>1, <1>3, <1>4
<1>6. ASSUME NEW why, why # "ok", r = Rejected(why) PROVE RowOK(r, i, u, o)
  <2>1. r.verdict = why /\ r.cached = FALSE /\ r.e = NoMeasure /\ DOMAIN r = {"verdict", "cached", "e"}
    BY <1>6 DEF Rejected, Row
  <2> QED
    BY <1>6, <2>1 DEF RowOK
<1>7. CASE Bars(c) # "ok"
  BY <1>5, <1>6, <1>7
<1>8. CASE Bars(c) = "ok" /\ hit # {}
  <2>1. PICK e : e = CHOOSE x \in hit : TRUE
    OBVIOUS
  <2>2. e \in hit
    BY <1>8, <2>1, Zenon
  <2>3. e \in Lookup(LoadCache, c.source, u.digest) /\ ~o.refresh
    BY <1>2, <2>2
  <2>4. /\ e \in LoadCache /\ e.source = c.source /\ now - e.at < TTL
        /\ u.digest = 0 \/ e.digest = 0 \/ e.digest = u.digest
    BY <2>3 DEF Lookup
  <2>5. Evidence(e) /\ e.machine = machine
    BY <2>4 DEF LoadCache, ChoiceTypes
  <2>6. e.digest \in {0, e.edition}
    BY <2>5 DEF Evidence
  <2>7. 0 \in {e.digest, u.digest} \/ e.edition = u.edition
    BY <2>4, <2>6 DEF UnitOK
  <2>8. r.verdict = "ok" /\ r.cached = TRUE /\ r.e = e /\ DOMAIN r = {"verdict", "cached", "e"}
    <3>1. r = Row("ok", TRUE, e)
      BY <1>5, <1>8, <2>1
    <3> QED
      BY <3>1 DEF Row
  <2> QED
    BY <1>1, <1>8, <2>3, <2>4, <2>5, <2>7, <2>8 DEF RowOK
<1>9. CASE Bars(c) = "ok" /\ hit = {}
  <2>1. CASE target = NoTarget \/ ~got.runs \/ target.backend = "onnxruntime"
    BY <1>5, <1>6, <1>9, <2>1
  <2>2. CASE ~(target = NoTarget \/ ~got.runs \/ target.backend = "onnxruntime")
    <3>1. PICK e : e = Measured(u, c, target, got)
      OBVIOUS
    <3>2. r.verdict = "ok" /\ r.cached = FALSE /\ r.e = e /\ DOMAIN r = {"verdict", "cached", "e"}
      <4>1. r = Row("ok", FALSE, e)
        BY <1>5, <1>9, <2>2, <3>1
      <4> QED
        BY <4>1 DEF Row
    <3>3. Evidence(e) /\ e.source = c.source /\ e.target = target /\ e.machine = machine
      BY <1>1, <1>3, <3>1, MeasuredIs
    <3> QED
      BY <1>1, <1>3, <1>9, <2>2, <3>2, <3>3 DEF RowOK
  <2> QED
    BY <2>1, <2>2
<1> QED
  BY <1>1, <1>4, <1>7, <1>8, <1>9

(* The same row when the quality asked for is looked at.                   *)
Judged(q, i, u, o) ==
  /\ q.verdict = "ok" =>
       /\ Evidence(q.e) /\ Bars(Candidates[i]) = "ok" /\ q.e.source = Candidates[i].source
       /\ q.e.passed >= profile.minQuality
  /\ q.verdict # "ok" => q.e = NoMeasure \/ ~(q.e.passed >= profile.minQuality)
  /\ q.cached =>
       /\ q.e.machine = machine /\ now - q.e.at < TTL /\ ~o.refresh
       /\ 0 \in {q.e.digest, u.digest} \/ q.e.edition = u.edition
  /\ q.verdict = "ok" /\ q.cached # TRUE =>
       q.e.target = TargetOf(u, Candidates[i], o) /\ q.e.target # NoTarget

LEMMA WithQualityIs ==
  ASSUME ModelChoiceAssumption, ChoiceTypes, NEW i, NEW u, NEW o, NEW r, RowOK(r, i, u, o)
  PROVE  Judged(WithQuality(r), i, u, o)
<1>1. PICK q : q = WithQuality(r)
  OBVIOUS
<1>2. profile.minQuality \in Nat
  BY DEF ModelChoiceAssumption, ChoiceTypes
<1>3. CASE r.verdict = "ok" /\ profile.minQuality > 0 /\ r.e.passed < profile.minQuality
  <2>1. q = [r EXCEPT !.verdict = "quality"]
    BY <1>1, <1>3 DEF WithQuality
  <2>2. DOMAIN r = {"verdict", "cached", "e"}
    BY DEF RowOK
  <2>3. q.verdict = "quality" /\ q.cached = r.cached /\ q.e = r.e
    BY <2>1, <2>2
  <2>4. r.cached =>
          /\ r.e.machine = machine /\ now - r.e.at < TTL /\ ~o.refresh
          /\ 0 \in {r.e.digest, u.digest} \/ r.e.edition = u.edition
    BY DEF RowOK
  <2>5. ~(q.e.passed >= profile.minQuality)
    <3>1. r.e.passed \in Nat
      BY <1>3 DEF RowOK, Evidence
    <3> QED
      BY <1>2, <1>3, <2>3, <3>1
  <2> QED
    BY <1>1, <1>3, <2>3, <2>4, <2>5 DEF Judged
<1>4. CASE ~(r.verdict = "ok" /\ profile.minQuality > 0 /\ r.e.passed < profile.minQuality)
  <2>1. q = r
    BY <1>1, <1>4 DEF WithQuality
  <2>2. ASSUME r.verdict = "ok" PROVE r.e.passed >= profile.minQuality
    <3>1. r.e.passed \in Nat
      BY <2>2 DEF RowOK, Evidence
    <3> QED
      BY <1>2, <1>4, <2>2, <3>1
  <2> QED
    BY <1>1, <2>1, <2>2 DEF Judged, RowOK
<1> QED
  BY <1>3, <1>4

(* Shares are compared by their numbers of Scale-ths.                      *)
LEMMA RateIs ==
  ASSUME ModelChoiceAssumption, NEW e, Evidence(e)
  PROVE  \E a, q \in Nat : /\ a = Rate(e)
                           /\ e.total = 0 => a = 0 /\ e.passed = 0
                           /\ e.total # 0 => q * e.total = Scale /\ a = e.passed * q
<1>1. Scale \in Nat \ {0}
  BY DEF ModelChoiceAssumption
<1>2. PICK p, t \in Nat : p = e.passed /\ t = e.total
  BY DEF Evidence
<1>3. CASE t = 0
  BY <1>2, <1>3 DEF Rate, Evidence
<1>4. CASE t # 0
  <2>1. PICK q : q = Scale \div t
    OBVIOUS
  <2>2. q \in Nat
    BY <1>1, <1>4, <2>1, Quotient
  <2>3. q * t = Scale
    BY <1>2, <1>4, <2>1 DEF Evidence
  <2>4. Rate(e) = p * q
    BY <1>2, <1>4, <2>1 DEF Rate
  <2>5. p * q \in Nat
    BY <2>2
  <2> QED
    BY <1>2, <1>4, <2>2, <2>3, <2>4, <2>5
<1> QED
  BY <1>3, <1>4

LEMMA Regroup ==
  ASSUME NEW a \in Nat, NEW b \in Nat, NEW c \in Nat
  PROVE  (a * b) * c = a * (b * c) /\ a * b = b * a /\ a * b \in Nat
OBVIOUS

LEMMA Cancel ==
  ASSUME NEW s \in Nat \ {0}, NEW a \in Nat, NEW b \in Nat, s * a <= s * b
  PROVE  a <= b
<1> SUFFICES ASSUME b + 1 <= a PROVE FALSE
  OBVIOUS
<1>1. (b + 1) * s <= a * s
  BY Monotone
<1>2. (b + 1) * s = s * b + s
  OBVIOUS
<1>3. a * s = s * a /\ s * a \in Nat /\ s * b \in Nat
  OBVIOUS
<1> QED
  BY <1>1, <1>2, <1>3

LEMMA Compare ==
  ASSUME ModelChoiceAssumption, NEW x, NEW y, Evidence(x), Evidence(y), Rate(x) <= Rate(y)
  PROVE  x.passed * y.total <= y.passed * x.total
<1>1. Scale \in Nat \ {0}
  BY DEF ModelChoiceAssumption
<1>2. PICK a, q \in Nat : /\ a = Rate(x)
                          /\ x.total = 0 => a = 0 /\ x.passed = 0
                          /\ x.total # 0 => q * x.total = Scale /\ a = x.passed * q
  BY RateIs
<1>3. PICK b, r \in Nat : /\ b = Rate(y)
                          /\ y.total = 0 => b = 0 /\ y.passed = 0
                          /\ y.total # 0 => r * y.total = Scale /\ b = y.passed * r
  BY RateIs
<1>4. PICK px, tx, py, ty \in Nat : px = x.passed /\ tx = x.total /\ py = y.passed /\ ty = y.total
  BY DEF Evidence
<1>5. a <= b
  BY <1>2, <1>3
<1>6. CASE tx = 0
  <2>1. px = 0
    BY <1>2, <1>4, <1>6
  <2>2. px * ty = 0 /\ py * tx = 0
    BY <1>6, <2>1
  <2> QED
    BY <1>4, <2>2
<1>7. CASE tx # 0 /\ ty = 0
  <2>1. b = 0 /\ py = 0
    BY <1>3, <1>4, <1>7
  <2>2. px * q = 0 /\ q * tx = Scale
    BY <1>2, <1>4, <1>5, <1>7, <2>1
  <2>3. px * Scale = 0
    <3>1. (px * q) * tx = px * (q * tx)
      BY Regroup
    <3> QED
      BY <2>2, <3>1
  <2>4. Scale * px <= Scale * 0
    BY <1>1, <2>3, Regroup
  <2>5. px <= 0
    BY <1>1, <2>4, Cancel
  <2>6. px * ty = 0 /\ py * tx = 0
    BY <1>7, <2>1
  <2> QED
    BY <1>4, <2>6
<1>8. CASE tx # 0 /\ ty # 0
  <2>1. q * tx = Scale /\ a = px * q
    BY <1>2, <1>4, <1>8
  <2>2. r * ty = Scale /\ b = py * r
    BY <1>3, <1>4, <1>8
  <2>3. tx * ty \in Nat /\ a * (tx * ty) <= b * (tx * ty)
    BY <1>5, Monotone, Regroup
  <2>4. a * (tx * ty) = Scale * (px * ty)
    <3>1. a * (tx * ty) = (px * q) * (tx * ty)
      BY <2>1
    <3>2. (px * q) * (tx * ty) = ((px * q) * tx) * ty
      BY Regroup
    <3>3. (px * q) * tx = px * Scale
      BY <2>1, Regroup
    <3>4. (px * Scale) * ty = Scale * (px * ty)
      BY <1>1, Regroup
    <3> QED
      BY <3>1, <3>2, <3>3, <3>4
  <2>5. b * (tx * ty) = Scale * (py * tx)
    <3>1. b * (tx * ty) = (py * r) * (ty * tx)
      BY <2>2, Regroup
    <3>2. (py * r) * (ty * tx) = ((py * r) * ty) * tx
      BY Regroup
    <3>3. (py * r) * ty = py * Scale
      BY <2>2, Regroup
    <3>4. (py * Scale) * tx = Scale * (py * tx)
      BY <1>1, Regroup
    <3> QED
      BY <3>1, <3>2, <3>3, <3>4
  <2>6. px * ty \in Nat /\ py * tx \in Nat /\ Scale * (px * ty) <= Scale * (py * tx)
    BY <2>3, <2>4, <2>5, Regroup
  <2>7. px * ty <= py * tx
    BY <1>1, <2>6, Cancel
  <2> QED
    BY <1>4, <2>7
<1> QED
  BY <1>6, <1>7, <1>8

(* Of some numbered things one is ahead of all others, or before them.     *)
Leads(S, R, i) == i \in S /\ \A j \in S \ {i} : <<i, j>> \in R \/ (i < j /\ <<j, i>> \notin R)

LEMMA Foremost ==
  ASSUME NEW n \in Nat, NEW S, S \subseteq 1..n, S # {}, NEW R,
         \A i, j \in S : <<i, j>> \in R => <<j, i>> \notin R,
         \A i, j, k \in S : <<i, k>> \in R => <<i, j>> \in R \/ <<j, k>> \in R
  PROVE  \E i : Leads(S, R, i)
<1> DEFINE Within(m) == {i \in S : i <= m}
           T == {m \in 0..n : Within(m) = {} \/ \E i : Leads(Within(m), R, i)}
<1>0. \A i \in S : i \in Nat /\ 1 <= i /\ i <= n
  OBVIOUS
<1>1. T \in SUBSET Nat /\ 0 \in T /\ \A m \in T : m <= n
  <2>2. \A i \in S : ~(i <= 0)
    BY <1>0
  <2>1. Within(0) = {}
    BY <2>2
  <2> QED
    BY <2>1
<1>2. PICK t \in T : \A m \in T : m <= t
  BY <1>1, HasGreatest
<1>3. t \in 0..n /\ (Within(t) = {} \/ \E i : Leads(Within(t), R, i))
  OBVIOUS
<1>4. CASE t = n
  <2>1. Within(n) = S
    BY <1>0
  <2> QED
    BY <1>3, <1>4, <2>1
<1>5. CASE t # n
  <2>1. t + 1 \in 0..n /\ t + 1 \notin T
    BY <1>2, <1>3, <1>5
  <2>2. Within(t + 1) # {} /\ ~\E i : Leads(Within(t + 1), R, i)
    BY <2>1
  <2>3. PICK A : A = Within(t)
    OBVIOUS
  <2>4. PICK B : B = Within(t + 1)
    OBVIOUS
  <2>5. A \subseteq S /\ B \subseteq S /\ A \subseteq B /\ \A i \in A : i \in Nat /\ i < t + 1
    <3>1. A \subseteq S /\ B \subseteq S
      BY <2>3, <2>4
    <3>2. \A i \in A : i \in Nat /\ i <= t
      BY <1>0, <2>3
    <3>3. \A i \in A : i <= t + 1
      BY <1>3, <3>2
    <3>4. A \subseteq B
      BY <2>3, <2>4, <3>3
    <3> QED
      BY <1>3, <3>1, <3>2, <3>4
  <2>6. \A i \in B : i = t + 1 \/ i \in A
    BY <1>0, <1>3, <2>3, <2>4
  <2>7. t + 1 \in B => Leads(B, R, t + 1) \/ A # {}
    BY <2>6 DEF Leads
  <2>8. A # {}
    <3>1. CASE t + 1 \in B
      BY <2>2, <2>4, <2>7, <3>1
    <3>2. CASE t + 1 \notin B
      <4>1. B # {}
        BY <2>2, <2>4
      <4> QED
        BY <2>6, <3>2, <4>1
    <3> QED
      BY <3>1, <3>2
  <2>9. PICK i : Leads(A, R, i)
    BY <1>3, <2>3, <2>8
  <2>10. i \in A /\ i \in Nat /\ i < t + 1
    BY <2>5, <2>9 DEF Leads
  <2>11. CASE t + 1 \notin B
    <3>1. B = A
      <4>1. B \subseteq A
        BY <2>6, <2>11
      <4> QED
        BY <2>5, <4>1
    <3> QED
      BY <2>2, <2>4, <2>9, <3>1
  <2>12. CASE t + 1 \in B /\ <<t + 1, i>> \in R
    <3>1. ASSUME NEW j \in B \ {t + 1} PROVE <<t + 1, j>> \in R
      <4>1. j \in A
        BY <2>6, <3>1
      <4>2. CASE j = i
        BY <2>12, <4>2
      <4>3. CASE j # i
        <5>1. <<j, i>> \notin R
          <6>1. <<i, j>> \in R \/ <<j, i>> \notin R
            BY <2>9, <4>1, <4>3 DEF Leads
          <6> QED
            BY <2>5, <2>10, <4>1, <6>1
        <5> QED
          BY <2>5, <2>10, <2>12, <4>1, <5>1
      <4> QED
        BY <4>2, <4>3
    <3>2. Leads(B, R, t + 1)
      BY <2>12, <3>1 DEF Leads
    <3> QED
      BY <2>2, <2>4, <3>2
  <2>13. CASE t + 1 \in B /\ <<t + 1, i>> \notin R
    <3>1. Leads(B, R, i)
      BY <2>5, <2>6, <2>9, <2>10, <2>13 DEF Leads
    <3> QED
      BY <2>2, <2>4, <3>1
  <2> QED
    BY <2>11, <2>12, <2>13
<1> QED
  BY <1>4, <1>5

Ahead(s, f, r, w, i, j) ==
  IF profile.strategy = "fastest" THEN s[i] > s[j]
  ELSE IF profile.strategy = "smallest" THEN f[i] < f[j]
  ELSE \/ r[i] > r[j]
       \/ r[i] = r[j] /\ w[i] > w[j]
       \/ r[i] = r[j] /\ w[i] = w[j] /\ s[i] > s[j]

LEMMA AheadOrders ==
  ASSUME NEW S, NEW s \in [S -> Nat], NEW f \in [S -> Nat], NEW r \in [S -> Nat], NEW w \in [S -> Nat]
  PROVE  /\ \A i, j \in S : Ahead(s, f, r, w, i, j) => ~Ahead(s, f, r, w, j, i)
         /\ \A i, j, k \in S : Ahead(s, f, r, w, i, k) => Ahead(s, f, r, w, i, j) \/ Ahead(s, f, r, w, j, k)
<1>1. ASSUME NEW i \in S, NEW j \in S PROVE Ahead(s, f, r, w, i, j) => ~Ahead(s, f, r, w, j, i)
  <2>1. /\ s[i] \in Nat /\ s[j] \in Nat /\ f[i] \in Nat /\ f[j] \in Nat
        /\ r[i] \in Nat /\ r[j] \in Nat /\ w[i] \in Nat /\ w[j] \in Nat
    BY <1>1
  <2> QED
    BY <2>1 DEF Ahead
<1>2. ASSUME NEW i \in S, NEW j \in S, NEW k \in S
      PROVE  Ahead(s, f, r, w, i, k) => Ahead(s, f, r, w, i, j) \/ Ahead(s, f, r, w, j, k)
  <2>1. /\ s[i] \in Nat /\ s[j] \in Nat /\ s[k] \in Nat /\ f[i] \in Nat /\ f[j] \in Nat /\ f[k] \in Nat
        /\ r[i] \in Nat /\ r[j] \in Nat /\ r[k] \in Nat /\ w[i] \in Nat /\ w[j] \in Nat /\ w[k] \in Nat
    BY <1>2
  <2> QED
    BY <2>1 DEF Ahead
<1> QED
  BY <1>1, <1>2

(* The rows that remain are numbers to compare.                            *)
LEMMA Keys ==
  ASSUME ModelChoiceAssumption, ChoiceTypes, NEW rows, NEW u, NEW o, DOMAIN rows = DOMAIN Candidates,
         \A i \in DOMAIN rows : Judged(rows[i], i, u, o)
  PROVE  \E s, f, r, w \in [Eligible(rows) -> Nat] : \A i \in Eligible(rows) :
           /\ s[i] = rows[i].e.speed /\ f[i] = files[Candidates[i].source] /\ r[i] = Rate(rows[i].e)
           /\ \A j \in Eligible(rows) : Better(i, j, rows) <=> Ahead(s, f, r, w, i, j)
<1>1. PICK E : E = Eligible(rows)
  OBVIOUS
<1>2. ASSUME NEW i \in E
      PROVE  /\ i \in DOMAIN Candidates /\ Evidence(rows[i].e) /\ rows[i].e.source = Candidates[i].source
  BY <1>1, <1>2 DEF Eligible, Judged
<1>3. ASSUME NEW i \in E
      PROVE  /\ rows[i].e.speed \in Nat /\ files[Candidates[i].source] \in Nat /\ Rate(rows[i].e) \in Nat
             /\ Rate(rows[i].e) * Candidates[i].weight \in Nat
  <2>1. rows[i].e.speed \in Nat
    BY <1>2 DEF Evidence
  <2>2. files[Candidates[i].source] \in Nat /\ Candidates[i].weight \in Nat
    BY <1>2 DEF ModelChoiceAssumption, ChoiceTypes
  <2>3. Rate(rows[i].e) \in Nat
    BY <1>2, RateIs
  <2> QED
    BY <2>1, <2>2, <2>3, Regroup
<1> DEFINE s == [i \in E |-> rows[i].e.speed]
           f == [i \in E |-> files[Candidates[i].source]]
           r == [i \in E |-> Rate(rows[i].e)]
           w == [i \in E |-> Rate(rows[i].e) * Candidates[i].weight]
<1>4. s \in [E -> Nat] /\ f \in [E -> Nat] /\ r \in [E -> Nat] /\ w \in [E -> Nat]
  BY <1>3
<1>5. ASSUME NEW i \in E
      PROVE  /\ s[i] = rows[i].e.speed /\ f[i] = files[Candidates[i].source] /\ r[i] = Rate(rows[i].e)
             /\ w[i] = Rate(rows[i].e) * Candidates[i].weight
  OBVIOUS
<1> HIDE DEF s, f, r, w
<1>6. ASSUME NEW i \in E, NEW j \in E PROVE Better(i, j, rows) <=> Ahead(s, f, r, w, i, j)
  BY <1>2, <1>5 DEF Better, Ahead
<1> QED
  BY <1>1, <1>4, <1>5, <1>6

LEMMA PickIs ==
  ASSUME ModelChoiceAssumption, ChoiceTypes, NEW rows, NEW u, NEW o, DOMAIN rows = DOMAIN Candidates,
         \A i \in DOMAIN rows : Judged(rows[i], i, u, o), Eligible(rows) # {}
  PROVE  Pick(rows) \in Eligible(rows) /\ \A i \in Eligible(rows) : ~Better(i, Pick(rows), rows)
<1>1. PICK E : E = Eligible(rows)
  OBVIOUS
<1>2. PICK s \in [E -> Nat], f \in [E -> Nat], r \in [E -> Nat], w \in [E -> Nat] :
        \A i, j \in E : Better(i, j, rows) <=> Ahead(s, f, r, w, i, j)
  BY <1>1, Keys
<1>3. \A i, j \in E : Better(i, j, rows) => ~Better(j, i, rows)
  BY <1>2, AheadOrders
<1>4. \A i, j, k \in E : Better(i, k, rows) => Better(i, j, rows) \/ Better(j, k, rows)
  BY <1>2, AheadOrders
<1>5. PICK R : R = {p \in E \X E : Better(p[1], p[2], rows)}
  OBVIOUS
<1>6. \A i, j \in E : <<i, j>> \in R <=> Better(i, j, rows)
  BY <1>5
<1>7. PICK n \in Nat : n = Len(Candidates) /\ DOMAIN Candidates = 1..n
  BY DEF ModelChoiceAssumption
<1>8. E \subseteq 1..n /\ E # {}
  BY <1>1, <1>7 DEF Eligible
<1>9. PICK b : Leads(E, R, b)
  <2>1. \A i, j \in E : <<i, j>> \in R => <<j, i>> \notin R
    BY <1>3, <1>6
  <2>2. \A i, j, k \in E : <<i, k>> \in R => <<i, j>> \in R \/ <<j, k>> \in R
    BY <1>4, <1>6
  <2> QED
    BY <1>8, <2>1, <2>2, Foremost
<1>10. b \in E /\ \A j \in E \ {b} : Better(b, j, rows) \/ (b < j /\ ~Better(j, b, rows))
  BY <1>6, <1>9 DEF Leads
<1>11. PICK p : p = Pick(rows)
  OBVIOUS
<1>12. p \in E /\ \A j \in E \ {p} : Better(p, j, rows) \/ (p < j /\ ~Better(j, p, rows))
  BY <1>1, <1>10, <1>11, Zenon DEF Pick
<1>13. ASSUME NEW i \in E PROVE ~Better(i, p, rows)
  <2>1. CASE i = p
    BY <1>3, <1>12, <2>1
  <2>2. CASE i # p
    BY <1>3, <1>12, <2>2
  <2> QED
    BY <2>1, <2>2
<1> QED
  BY <1>1, <1>11, <1>12, <1>13

Fits(rows, i) ==
  LET c == Candidates[i] IN
  /\ files[c.source] > 0
  /\ profile.maxSize = 0 \/ files[c.source] <= profile.maxSize
  /\ c.window = 0 \/ c.window >= profile.minContext
  /\ rows[i].e # NoMeasure /\ rows[i].e.passed >= profile.minQuality
NoWorse(rows, i, won) ==
  CASE profile.strategy = "fastest" -> rows[i].e.speed <= rows[won].e.speed
    [] profile.strategy = "smallest" -> files[Candidates[won].source] <= files[Candidates[i].source]
    [] OTHER -> rows[i].e.passed * rows[won].e.total <= rows[won].e.passed * rows[i].e.total

LEMMA WinnerFits ==
  ASSUME ModelChoiceAssumption, ChoiceTypes, NEW rows, NEW u, NEW o, NEW i \in DOMAIN Candidates,
         Judged(rows[i], i, u, o), rows[i].verdict = "ok"
  PROVE  Fits(rows, i)
<1>1. PICK c : c = Candidates[i]
  OBVIOUS
<1>2. Evidence(rows[i].e) /\ Bars(c) = "ok" /\ rows[i].e.passed >= profile.minQuality
  BY <1>1 DEF Judged
<1>3. files[c.source] \in Nat /\ c.window \in Nat
  BY <1>1 DEF ModelChoiceAssumption, ChoiceTypes
<1>4. profile.minContext \in Nat /\ profile.maxSize \in Nat
  BY DEF ModelChoiceAssumption, ChoiceTypes
<1>5. /\ ~(profile.minContext > 0 /\ c.window > 0 /\ c.window < profile.minContext)
      /\ files[c.source] # 0 /\ ~(profile.maxSize > 0 /\ files[c.source] > profile.maxSize)
  BY <1>2 DEF Bars
<1>6. /\ profile.maxSize = 0 \/ files[c.source] <= profile.maxSize
      /\ c.window = 0 \/ c.window >= profile.minContext
  BY <1>3, <1>4, <1>5
<1>7. files[c.source] > 0
  BY <1>3, <1>5
<1> QED
  BY <1>1, <1>2, <1>6, <1>7 DEF Fits, Evidence

LEMMA WinnerStands ==
  ASSUME ModelChoiceAssumption, ChoiceTypes, NEW rows, NEW u, NEW o, DOMAIN rows = DOMAIN Candidates,
         \A i \in DOMAIN rows : Judged(rows[i], i, u, o), Eligible(rows) # {},
         NEW i \in DOMAIN rows, Fits(rows, i)
  PROVE  NoWorse(rows, i, Pick(rows))
<1>1. PICK E : E = Eligible(rows)
  OBVIOUS
<1>2. PICK p : p = Pick(rows)
  OBVIOUS
<1>3. p \in E /\ \A j \in E : ~Better(j, p, rows)
  BY <1>1, <1>2, PickIs
<1>4. i \in E
  <2>1. profile.minQuality \in Nat /\ rows[i].e # NoMeasure /\ rows[i].e.passed >= profile.minQuality
    BY DEF Fits, ModelChoiceAssumption, ChoiceTypes
  <2>2. Judged(rows[i], i, u, o)
    OBVIOUS
  <2>3. ASSUME rows[i].verdict # "ok" PROVE FALSE
    BY <2>1, <2>2, <2>3 DEF Judged
  <2> QED
    BY <1>1, <2>3 DEF Eligible
<1>5. PICK s \in [E -> Nat], f \in [E -> Nat], r \in [E -> Nat], w \in [E -> Nat] : \A k \in E :
           /\ s[k] = rows[k].e.speed /\ f[k] = files[Candidates[k].source] /\ r[k] = Rate(rows[k].e)
           /\ \A j \in E : Better(k, j, rows) <=> Ahead(s, f, r, w, k, j)
  BY <1>1, Keys
<1>6. ~Ahead(s, f, r, w, i, p)
  BY <1>3, <1>4, <1>5
<1>7. s[i] \in Nat /\ s[p] \in Nat /\ f[i] \in Nat /\ f[p] \in Nat /\ r[i] \in Nat /\ r[p] \in Nat
  BY <1>3, <1>4
<1>8. CASE profile.strategy = "fastest"
  <2>1. s[i] <= s[p]
    BY <1>6, <1>7, <1>8 DEF Ahead
  <2> QED
    BY <1>2, <1>3, <1>4, <1>5, <1>8, <2>1 DEF NoWorse
<1>9. CASE profile.strategy = "smallest"
  <2>1. f[p] <= f[i]
    BY <1>6, <1>7, <1>9 DEF Ahead
  <2> QED
    BY <1>2, <1>3, <1>4, <1>5, <1>9, <2>1 DEF NoWorse
<1>10. CASE profile.strategy # "fastest" /\ profile.strategy # "smallest"
  <2>1. r[i] <= r[p]
    BY <1>6, <1>7, <1>10 DEF Ahead
  <2>2. Evidence(rows[i].e) /\ Evidence(rows[p].e)
    BY <1>1, <1>3, <1>4 DEF Eligible, Judged
  <2>3. Rate(rows[i].e) <= Rate(rows[p].e)
    BY <1>3, <1>4, <1>5, <2>1
  <2>4. rows[i].e.passed * rows[p].e.total <= rows[p].e.passed * rows[i].e.total
    BY <2>2, <2>3, Compare
  <2> QED
    BY <1>2, <1>10, <2>4 DEF NoWorse
<1> QED
  BY <1>8, <1>9, <1>10

LEMMA RunsPlaced ==
  ASSUME NEW rs \in Seq(Backends), NEW m, NEW into
  PROVE  PlacedOnce(Runs(rs, m, into))
<1>1. PlacedOnce(Pairs(rs, m) \cup Named(rs, m, into))
  BY TargetsPlaced, Zenon
<1>2. Runs(rs, m, into) \subseteq Pairs(rs, m) \cup Named(rs, m, into)
  BY DEF Runs
<1> QED
  BY <1>1, <1>2 DEF PlacedOnce

(* One build of llama.cpp, or none and no onnxruntime either.              *)
Uniform(m) ==
  /\ Installed[m].server \in {Installed[m].cli, "absent"}
  /\ ~(Installed[m].onnx /\ Installed[m].cli = "absent")
RunsThere(target, run) ==
  run # NoTarget /\ Engine(target.backend) = Engine(run.backend) /\ target.device = run.device

LEMMA RunsWhereMeasured ==
  ASSUME ModelChoiceAssumption, NEW m, NEW tools \in BOOLEAN,
         NEW prefer \in Seq(Classes), NEW store, NEW into, NEW target, NEW run,
         target = MeasuredOn(m, tools, prefer, store, TRUE), target # NoTarget,
         run = RunOn(m, tools, "any", prefer, into),
         Uniform(m), into = store \/ target.device # "auto"
  PROVE  RunsThere(target, run)
<1>1. prefer \in Seq(Classes)
  OBVIOUS
<1>2. PICK bs \in Seq(Backends) : bs = SelectBackends(m, tools)
  BY SelectedLists
<1>3. PICK rs \in Seq(Backends) : rs = IF tools THEN ToolCapable ELSE All
  BY SelectedLists
<1>4. PICK T : T = Pairs(bs, m) \cup Named(bs, m, store)
  OBVIOUS
<1>5. target = Preferred(T, prefer)
  BY <1>2, <1>4, Zenon DEF MeasuredOn, EvalTarget
<1>6. T # {}
  BY <1>5 DEF Preferred
<1>7. PlacedOnce(T)
  BY <1>4, TargetsPlaced, Zenon
<1>8. PICK x : BestOf(T, prefer, x) /\ target = [backend |-> x.backend, device |-> x.device]
  BY <1>1, <1>5, <1>6, <1>7, PreferredIs
<1>9. target.backend = x.backend /\ target.device = x.device
  <2>1. [backend |-> x.backend, device |-> x.device].backend = x.backend
    OBVIOUS
  <2>2. [backend |-> x.backend, device |-> x.device].device = x.device
    OBVIOUS
  <2>3. target = [backend |-> x.backend, device |-> x.device]
    BY <1>8
  <2> QED
    BY <2>1, <2>2, <2>3, Zenon
<1>10. PICK U : U = Runs(rs, m, into)
  OBVIOUS
<1>11. RunsAlike(Runs(rs, m, into), prefer, x)
  <2>1. BestOf(Pairs(bs, m) \cup Named(bs, m, store), prefer, x)
    BY <1>4, <1>8
  <2>2. into = store \/ x.device # "auto"
    BY <1>9
  <2> QED
    BY <1>1, <1>2, <1>3, <2>1, <2>2, MeasuredAsRun DEF Uniform
<1>12. PICK y : SelectedOf(U, prefer, y) /\ y.device = x.device /\ Engine(y.backend) = Engine(x.backend)
  BY <1>10, <1>11 DEF RunsAlike
<1>13. BestOf(U, prefer, y) /\ U # {} /\ PlacedOnce(U)
  <2>1. BestOf(U, prefer, y) /\ U # {}
    BY <1>12 DEF SelectedOf, BestOf
  <2>2. PlacedOnce(U)
    BY <1>10, RunsPlaced, Zenon
  <2> QED
    BY <2>1, <2>2
<1>14. run = Preferred(U, prefer)
  <2>1. RunBackends(tools, "any") = rs
    BY <1>3 DEF RunBackends
  <2> QED
    BY <1>10, <2>1, Zenon DEF RunOn, SelectForModel, Runs
<1>15. PICK z : BestOf(U, prefer, z) /\ run = [backend |-> z.backend, device |-> z.device]
  BY <1>1, <1>13, <1>14, PreferredIs
<1>16. z = y
  BY <1>1, <1>13, <1>15, BestAlone
<1>17. run = [backend |-> y.backend, device |-> y.device]
  BY <1>15, <1>16
<1>18. run # NoTarget
  <2>1. y.backend \in Backends /\ y.device \in Classes \cup {"auto"}
    BY <1>12 DEF SelectedOf
  <2> QED
    BY <1>17, <2>1 DEF ModelChoiceAssumption, Backends, Classes
<1>19. run.backend = y.backend /\ run.device = y.device
  <2>1. [backend |-> y.backend, device |-> y.device].backend = y.backend
    OBVIOUS
  <2>2. [backend |-> y.backend, device |-> y.device].device = y.device
    OBVIOUS
  <2> QED
    BY <1>17, <2>1, <2>2, Zenon
<1> QED
  BY <1>9, <1>12, <1>18, <1>19 DEF RunsThere

(* A decision, and what then runs.                                         *)
ChoiceShown == EvidenceIsOfThisUnit /\ DecisionStands /\ MeasuredWhereItRuns
ChoiceState == ChoiceTypes /\ ChoiceShown
ChoiceInv == part = "choice" => ChoiceState

LEMMA ChoiceStarts ==
  ASSUME ModelChoiceAssumption, Init
  PROVE  ChoiceState
BY DEF Init, ChoiceState, ChoiceTypes, ChoiceShown, EvidenceIsOfThisUnit, DecisionStands, MeasuredWhereItRuns

LEMMA SelectKeeps ==
  ASSUME ModelChoiceAssumption, ChoiceState, NEW u, UnitOK(u), NEW o \in Options, Select(u, o)
  PROVE  ChoiceState'
<1>0. PICK first \in {[i \in DOMAIN Candidates |-> Consider(u, Candidates[i], o, truth[i])]} :
        LET rows == [i \in DOMAIN Candidates |-> WithQuality(first[i])]
            won == IF Eligible(rows) = {} THEN 0 ELSE Pick(rows)
            new == {first[i].e : i \in {k \in DOMAIN first : first[k].verdict = "ok" /\ ~first[k].cached}}
        IN  /\ cache' = [machine |-> machine, entries |-> Put(LoadCache, new)]
            /\ choice' = [rows |-> rows, unit |-> u, opts |-> o,
                          winner |-> won,
                          run |-> IF won = 0 THEN NoTarget
                                  ELSE RunsOn(u, Candidates[won], o)]
  BY Zenon DEF Select
<1> DEFINE rows == [i \in DOMAIN Candidates |-> WithQuality(first[i])]
           won == IF Eligible(rows) = {} THEN 0 ELSE Pick(rows)
           new == {first[i].e : i \in {k \in DOMAIN first : first[k].verdict = "ok" /\ ~first[k].cached}}
<1>1. /\ cache' = [machine |-> machine, entries |-> Put(LoadCache, new)]
      /\ choice' = [rows |-> rows, unit |-> u, opts |-> o, winner |-> won,
                    run |-> IF won = 0 THEN NoTarget
                            ELSE RunsOn(u, Candidates[won], o)]
      /\ UNCHANGED <<machine, profile, edition, suite, built, files, truth, now>>
  <2>1. UNCHANGED <<machine, profile, edition, suite, built, files, truth, now>>
    BY DEF Select
  <2> QED
    BY <1>0, <2>1, Zenon
<1>2. ChoiceTypes
  BY DEF ChoiceState
<1>3. ASSUME NEW i \in DOMAIN Candidates PROVE RowOK(first[i], i, u, o) /\ Judged(rows[i], i, u, o)
  <2>1. first[i] = Consider(u, Candidates[i], o, truth[i]) /\ rows[i] = WithQuality(first[i])
    BY <1>0
  <2>2. RowOK(first[i], i, u, o)
    BY <1>2, <2>1, ConsiderIs
  <2> QED
    BY <1>2, <2>1, <2>2, WithQualityIs
<1>4. DOMAIN first = DOMAIN Candidates /\ DOMAIN rows = DOMAIN Candidates
  BY <1>0
<1>5. \A e \in new : \E i \in DOMAIN Candidates : e = first[i].e /\ first[i].verdict = "ok" /\ ~first[i].cached
  BY <1>4
<1>6. won = IF Eligible(rows) = {} THEN 0 ELSE Pick(rows)
  OBVIOUS
<1> HIDE DEF rows, won, new
<1>7. ChoiceTypes'
  <2>1. ASSUME NEW e \in Put(LoadCache, new) PROVE Evidence(e) /\ e.machine = machine
    <3>1. CASE e \in new
      <4>1. PICK i \in DOMAIN Candidates : e = first[i].e /\ first[i].verdict = "ok" /\ ~first[i].cached
        BY <1>5, <3>1
      <4>2. RowOK(first[i], i, u, o)
        BY <1>3
      <4> QED
        BY <4>1, <4>2 DEF RowOK
    <3>2. CASE e \in LoadCache
      BY <1>2, <3>2 DEF LoadCache, ChoiceTypes
    <3> QED
      BY <2>1, <3>1, <3>2 DEF Put
  <2>2. cache'.machine = machine' /\ cache'.entries = Put(LoadCache, new)
    BY <1>1
  <2> QED
    BY <1>1, <1>2, <2>1, <2>2 DEF ChoiceTypes, Evidence
<1>8. /\ choice'.rows = rows /\ choice'.unit = u /\ choice'.opts = o /\ choice'.winner = won
      /\ choice'.run = IF won = 0 THEN NoTarget
                       ELSE RunsOn(u, Candidates[won], o)
  BY <1>1
<1>9. EvidenceIsOfThisUnit'
  <2>1. ASSUME NEW i \in DOMAIN rows, rows[i].cached
        PROVE  /\ rows[i].e.machine = machine /\ now - rows[i].e.at < TTL /\ ~o.refresh
               /\ 0 \in {rows[i].e.digest, u.digest} \/ rows[i].e.edition = u.edition
    BY <1>3, <1>4, <2>1 DEF Judged
  <2> QED
    BY <1>1, <1>8, <2>1 DEF EvidenceIsOfThisUnit
<1>10. ASSUME won # 0
       PROVE  /\ won \in DOMAIN Candidates /\ Judged(rows[won], won, u, o) /\ rows[won].verdict = "ok"
              /\ \A i \in DOMAIN rows : Fits(rows, i) => NoWorse(rows, i, won)
  <2>1. Eligible(rows) # {} /\ won = Pick(rows)
    BY <1>6, <1>10
  <2>2. \A i \in DOMAIN rows : Judged(rows[i], i, u, o)
    BY <1>3, <1>4
  <2>3. won \in Eligible(rows)
    BY <1>2, <1>4, <2>1, <2>2, PickIs
  <2>4. \A i \in DOMAIN rows : Fits(rows, i) => NoWorse(rows, i, won)
    BY <1>2, <1>4, <2>1, <2>2, WinnerStands
  <2> QED
    BY <1>4, <2>2, <2>3, <2>4 DEF Eligible
<1>11. DecisionStands'
  <2>1. ASSUME won # 0 PROVE Fits(rows, won)
    BY <1>2, <1>10, <2>1, WinnerFits
  <2> QED
    BY <1>1, <1>8, <1>10, <2>1 DEF DecisionStands, Fits, NoWorse
<1>12. MeasuredWhereItRuns'
  <2> SUFFICES ASSUME won # 0, u.suite, rows[won].cached # TRUE,
                      o.backend = "any", profile.tools = (profile.needs \/ o.talks),
                      ~((o.forced \/ u.sealed) /\ rows[won].e.target.device = "auto"),
                      Installed[machine].server \in {Installed[machine].cli, "absent"},
                      ~(Installed[machine].onnx /\ Installed[machine].cli = "absent")
               PROVE  /\ choice'.run # NoTarget
                      /\ Engine(rows[won].e.target.backend) = Engine(choice'.run.backend)
                      /\ rows[won].e.target.device = choice'.run.device
    BY <1>1, <1>8 DEF MeasuredWhereItRuns
  <2>1. PICK c : c = Candidates[won]
    OBVIOUS
  <2>2. PICK target : target = rows[won].e.target
    OBVIOUS
  <2>3. PICK into : into = AddressOf(u, c, o)
    OBVIOUS
  <2>4. target = TargetOf(u, c, o) /\ target # NoTarget
    BY <1>10, <2>1, <2>2 DEF Judged
  <2>5. u.suite = TRUE /\ o.prefer \in Seq(Classes) /\ profile.tools \in BOOLEAN
    BY <1>2 DEF UnitOK, Classes, ChoiceTypes, ModelChoiceAssumption
  <2>6. target = MeasuredOn(machine, profile.tools, o.prefer, c.store, TRUE)
    BY <2>4, <2>5, Zenon DEF TargetOf
  <2>7. PICK run : run = choice'.run /\ run = RunOn(machine, profile.tools, "any", o.prefer, into)
    <3>1. choice'.run = RunsOn(u, c, o)
      BY <1>8, <2>1
    <3>2. RunsOn(u, c, o) = RunOn(machine, profile.tools, "any", o.prefer, into)
      BY <2>3 DEF RunsOn
    <3> QED
      BY <3>1, <3>2
  <2>8. into = c.store \/ target.device # "auto"
    BY <2>2, <2>3 DEF AddressOf
  <2>9. RunsThere(target, run)
    <3>1. PICK prefer \in Seq(Classes), tools \in BOOLEAN : prefer = o.prefer /\ tools = profile.tools
      BY <2>5
    <3>2. PICK m : m = machine
      OBVIOUS
    <3>3. PICK store : store = c.store
      OBVIOUS
    <3>4. target = MeasuredOn(m, tools, prefer, store, TRUE)
      BY <2>6, <3>1, <3>2, <3>3
    <3>5. run = RunOn(m, tools, "any", prefer, into)
      BY <2>7, <3>1, <3>2
    <3>6. Uniform(m)
      BY <3>2 DEF Uniform
    <3>8. target # NoTarget
      BY <2>4
    <3>9. into = store \/ target.device # "auto"
      BY <2>8, <3>3
    <3> QED
      BY <3>4, <3>5, <3>6, <3>8, <3>9, RunsWhereMeasured
  <2> QED
    BY <2>2, <2>7, <2>9 DEF RunsThere
<1> QED
  BY <1>7, <1>9, <1>11, <1>12 DEF ChoiceState, ChoiceShown

LEMMA ChoiceSteps ==
  ASSUME ModelChoiceAssumption, ChoiceState, Next \/ UNCHANGED vars
  PROVE  ChoiceState'
<1>1. ChoiceTypes
  BY DEF ChoiceState
<1>2. CASE UNCHANGED vars
  BY <1>2 DEF vars, ChoiceState, ChoiceTypes, Evidence, ChoiceShown, EvidenceIsOfThisUnit, DecisionStands,
              MeasuredWhereItRuns
<1>3. ASSUME NEW o \in Options, Select(Directory, o) PROVE ChoiceState'
  <2>1. UnitOK(Directory)
    BY <1>1 DEF UnitOK, Directory, ChoiceTypes
  <2> QED
    BY <1>3, <2>1, SelectKeeps
<1>4. ASSUME NEW o \in Options, Select(Build, o) PROVE ChoiceState'
  <2>1. UnitOK(Build)
    BY <1>1 DEF UnitOK, Build, ChoiceTypes
  <2> QED
    BY <1>4, <2>1, SelectKeeps
<1>5. ASSUME choice' = NoChoice PROVE ChoiceShown'
  BY <1>5 DEF ChoiceShown, EvidenceIsOfThisUnit, DecisionStands, MeasuredWhereItRuns
<1>6. CASE RunEnds
  <2>1. choice' = NoChoice /\ ChoiceTypes'
    BY <1>1, <1>6 DEF RunEnds, ChoiceTypes, Evidence
  <2> QED
    BY <1>5, <2>1 DEF ChoiceState
<1>7. CASE ClearCache
  <2>1. choice' = NoChoice /\ ChoiceTypes'
    BY <1>1, <1>7 DEF ClearCache, ChoiceTypes, Evidence
  <2> QED
    BY <1>5, <2>1 DEF ChoiceState
<1>8. ASSUME NEW whole \in BOOLEAN, Rebuild(whole) PROVE ChoiceState'
  <2>1. choice' = NoChoice /\ ChoiceTypes'
    BY <1>1, <1>8 DEF Rebuild, ChoiceTypes, Evidence
  <2> QED
    BY <1>5, <2>1 DEF ChoiceState
<1>9. CASE Tick
  <2>1. choice' = NoChoice /\ ChoiceTypes'
    BY <1>1, <1>9 DEF Tick, ChoiceTypes, Evidence
  <2> QED
    BY <1>5, <2>1 DEF ChoiceState
<1>10. ASSUME NEW s \in BOOLEAN, NEW t \in Truths, Edit(s, t) PROVE ChoiceState'
  <2>1. choice' = NoChoice /\ ChoiceTypes'
    BY <1>1, <1>10 DEF Edit, ChoiceTypes, Evidence
  <2> QED
    BY <1>5, <2>1 DEF ChoiceState
<1>11. ASSUME NEW m \in Machines \ {machine}, Move(m) PROVE ChoiceState'
  <2>1. choice' = NoChoice /\ ChoiceTypes'
    BY <1>1, <1>11 DEF Move, ChoiceTypes, Evidence
  <2> QED
    BY <1>5, <2>1 DEF ChoiceState
<1> QED
  BY <1>2, <1>3, <1>4, <1>6, <1>7, <1>8, <1>9, <1>10, <1>11 DEF Next

(* Whatever the candidates, the machines and the measurements: the model   *)
(* that Select (automodel.go) chooses rests on evidence about this unit on *)
(* this machine, where digests tell it from another; no other that would do*)
(* passed a larger share of the suite (or is faster, or smaller); and run  *)
(* (commands.go) chooses the engine and device that eval did when its tools*)
(* and session and what is required of the model ask for the same, but for *)
(* the exceptions that MeasuredWhereItRuns names.                          *)
THEOREM ChoiceStands == PartsSpec => []ChoiceIsDefensible
<1>1. PartsInit => ChoiceInv
  BY ChoiceAssumption, ChoiceStarts DEF PartsInit, ChoiceInv
<1>2. ChoiceInv /\ [PartsNext]_all => ChoiceInv'
  <2> SUFFICES ASSUME ChoiceInv, [PartsNext]_all, part' = "choice"
               PROVE  ChoiceState'
    BY DEF ChoiceInv
  <2>1. part = "choice" /\ (Next \/ UNCHANGED vars)
    BY StepOfPart
  <2> QED
    BY <2>1, ChoiceAssumption, ChoiceSteps DEF ChoiceInv
<1>3. ChoiceInv => ChoiceIsDefensible
  BY DEF ChoiceInv, ChoiceState, ChoiceShown, ChoiceIsDefensible
<1> QED
  BY <1>1, <1>2, <1>3, PTL DEF PartsSpec
=============================================================================
