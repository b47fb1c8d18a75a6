-------------------------- MODULE SessionsProofs --------------------------
(***************************************************************************)
(* Proofs about Sessions, for any names, passwords, devices and limits:    *)
(* the types, that what is open was opened with what its account has now,  *)
(* and that what a change ended stays ended.                               *)
(***************************************************************************)
EXTENDS Sessions, SequencesExt, SequenceTheorems, FiniteSetTheorems, FunctionTheorems, WellFoundedInduction, TLAPS

-----------------------------------------------------------------------------
(* Sequences *)

\* RemoveAt closes the gap.
LEMMA RemoveAtFacts ==
  ASSUME NEW S, NEW m \in Seq(S), NEW i \in DOMAIN m
  PROVE  /\ RemoveAt(m, i) \in Seq(S)
         /\ Len(RemoveAt(m, i)) = Len(m) - 1
         /\ \A k \in 1..Len(m) - 1 : RemoveAt(m, i)[k] = m[IF k < i THEN k ELSE k + 1]
<1> DEFINE front == SubSeq(m, 1, i - 1)
           back == SubSeq(m, i + 1, Len(m))
<1>1. i \in 1..Len(m) /\ Len(m) \in Nat /\ \A k \in 1..Len(m) : m[k] \in S
  OBVIOUS
<1>2. front \in Seq(S) /\ Len(front) = i - 1 /\ \A k \in 1..i - 1 : front[k] = m[k]
  BY <1>1, SubSeqProperties
<1>3. back \in Seq(S) /\ Len(back) = Len(m) - i /\ \A k \in 1..Len(m) - i : back[k] = m[k + i]
  BY <1>1, SubSeqProperties
<1> HIDE DEF front, back
<1>4. /\ front \o back \in Seq(S)
      /\ Len(front \o back) = Len(front) + Len(back)
      /\ \A k \in 1..Len(front) + Len(back) :
           (front \o back)[k] = IF k <= Len(front) THEN front[k] ELSE back[k - Len(front)]
  BY <1>2, <1>3, ConcatProperties
<1>5. \A k \in 1..Len(m) - 1 : (front \o back)[k] = m[IF k < i THEN k ELSE k + 1]
  <2> SUFFICES ASSUME NEW k \in 1..Len(m) - 1 PROVE (front \o back)[k] = m[IF k < i THEN k ELSE k + 1]
    OBVIOUS
  <2>1. CASE k < i
    <3>1. k \in 1..Len(front) + Len(back) /\ k <= Len(front) /\ k \in 1..i - 1
      BY <1>1, <1>2, <1>3, <2>1
    <3>2. (front \o back)[k] = front[k]
      BY <1>4, <3>1
    <3> QED  BY <1>2, <2>1, <3>1, <3>2
  <2>2. CASE ~(k < i)
    <3>1. k - (i - 1) \in 1..Len(m) - i /\ k - (i - 1) + i = k + 1
      BY <1>1, <2>2
    <3>2. k \in 1..Len(front) + Len(back) /\ ~(k <= Len(front)) /\ k - Len(front) = k - (i - 1)
      BY <1>1, <1>2, <1>3, <2>2
    <3>3. (front \o back)[k] = back[k - (i - 1)]
      BY <1>4, <3>2
    <3> QED  BY <1>3, <2>2, <3>1, <3>3
  <2> QED  BY <2>1, <2>2
<1>6. RemoveAt(m, i) = front \o back
  BY DEF RemoveAt, front, back
<1>7. Len(front \o back) = Len(m) - 1
  BY <1>1, <1>2, <1>3, <1>4
<1> QED  BY <1>4, <1>5, <1>6, <1>7

\* What is left are the other elements, each where it was or one further to the front.
LEMMA RemoveAtKeeps ==
  ASSUME NEW S, NEW m \in Seq(S), NEW i \in DOMAIN m
  PROVE  /\ \A k \in DOMAIN RemoveAt(m, i) : \E j \in DOMAIN m \ {i} : RemoveAt(m, i)[k] = m[j]
         /\ \A k, l \in DOMAIN RemoveAt(m, i) :
              k # l => \E a, b \in DOMAIN m : a # b /\ RemoveAt(m, i)[k] = m[a] /\ RemoveAt(m, i)[l] = m[b]
<1> DEFINE w == RemoveAt(m, i)
           Place(k) == IF k < i THEN k ELSE k + 1
<1>1. i \in 1..Len(m) /\ Len(m) \in Nat /\ DOMAIN m = 1..Len(m)
  OBVIOUS
<1>2. w \in Seq(S) /\ Len(w) = Len(m) - 1 /\ \A k \in 1..Len(m) - 1 : w[k] = m[Place(k)]
  BY RemoveAtFacts
<1> HIDE DEF w
<1>3. DOMAIN w = 1..Len(m) - 1
  BY <1>1, <1>2
<1>4. \A k \in DOMAIN w : Place(k) \in DOMAIN m \ {i} /\ w[k] = m[Place(k)]
  BY <1>1, <1>2, <1>3
<1>5. \A k, l \in DOMAIN w : Place(k) = Place(l) => k = l
  BY <1>1, <1>3
<1> HIDE DEF Place
<1> QED  BY <1>4, <1>5 DEF w

LEMMA AppendKeeps ==
  ASSUME NEW S, NEW m \in Seq(S), NEW e \in S
  PROVE  /\ Append(m, e) \in Seq(S) /\ Len(Append(m, e)) = Len(m) + 1
         /\ \A k \in DOMAIN Append(m, e) : (k \in DOMAIN m /\ Append(m, e)[k] = m[k])
                                           \/ (k = Len(m) + 1 /\ Append(m, e)[k] = e)
  OBVIOUS

-----------------------------------------------------------------------------
(* The helpers *)

\* A set of places has a first one.
LEMMA LeastIndex == ASSUME NEW S \in SUBSET Nat, S # {} PROVE \E k \in S : \A j \in S : k <= j
<1>1. IsWellFoundedOn(OpToRel(<, Nat), Nat)
  BY NatLessThanWellFounded
<1>2. PICK k \in S : \A j \in S : <<j, k>> \notin OpToRel(<, Nat)
  BY <1>1, WFMin
<1>3. \A j \in S : ~(j < k)
  BY <1>2 DEF OpToRel
<1> QED  BY <1>3

\* Kept has the elements at the places it is given, and no other.
LEMMA KeptFacts ==
  ASSUME NEW E, NEW s \in Seq(E), NEW S \in SUBSET DOMAIN s
  PROVE  /\ Kept(s, S) \in Seq(E)
         /\ \A i \in DOMAIN Kept(s, S) : \E k \in S : Kept(s, S)[i] = s[k]
<1> DEFINE n == Cardinality(S)
           Upto(k) == {j \in S : j <= k}
           rank == [k \in S |-> Cardinality(Upto(k))]
<1>1. IsFiniteSet(S) /\ n \in Nat /\ S \subseteq 1..Len(s) /\ S \subseteq Nat
  <2>1. DOMAIN s = 1..Len(s) /\ Len(s) \in Nat
    OBVIOUS
  <2>2. IsFiniteSet(1..Len(s))
    BY <2>1, FS_Interval
  <2> QED  BY <2>1, <2>2, FS_Subset, FS_CardinalityType
<1>2. \A k \in S : IsFiniteSet(Upto(k)) /\ Cardinality(Upto(k)) \in 1..n
  <2> TAKE k \in S
  <2>1. Upto(k) \in SUBSET S /\ k \in Upto(k)
    BY <1>1
  <2>2. IsFiniteSet(Upto(k)) /\ Cardinality(Upto(k)) <= n
    BY <1>1, <2>1, FS_Subset
  <2>3. Cardinality(Upto(k)) # 0 /\ Cardinality(Upto(k)) \in Nat
    BY <2>1, <2>2, FS_EmptySet, FS_CardinalityType
  <2> QED  BY <1>1, <2>2, <2>3
<1>3. ASSUME NEW k \in S, NEW l \in S, k < l PROVE Cardinality(Upto(k)) # Cardinality(Upto(l))
  <2>1. Upto(k) \in SUBSET Upto(l) /\ l \in Upto(l) /\ l \notin Upto(k)
    BY <1>1, <1>3
  <2> QED  BY <1>2, <2>1, FS_Subset
<1>4. rank \in Injection(S, 1..n)
  <2>1. rank \in [S -> 1..n]
    BY <1>2
  <2>2. \A k, l \in S : rank[k] = rank[l] => k = l
    <3> SUFFICES ASSUME NEW k \in S, NEW l \in S, rank[k] = rank[l] PROVE k = l
      OBVIOUS
    <3>1. k < l \/ l < k \/ k = l
      BY <1>1
    <3> QED  BY <1>3, <3>1
  <2> HIDE DEF rank
  <2> QED  BY <2>1, <2>2 DEF Injection, IsInjective
<1>5. \A i \in 1..n : \E k \in S : Cardinality(Upto(k)) = i
  <2>1. IsFiniteSet(1..n) /\ Cardinality(1..n) = n
    BY <1>1, FS_Interval
  <2>2. rank \in Surjection(S, 1..n)
    BY <1>4, <2>1, FS_Injection
  <2>3. \A i \in 1..n : \E k \in S : rank[k] = i
    BY <2>2 DEF Surjection
  <2> QED  BY <2>3
<1>6. ASSUME NEW i \in 1..n PROVE \E k \in S : Kept(s, S)[i] = s[k]
  <2> DEFINE at == CHOOSE k \in S : Cardinality({j \in S : j <= k}) = i
  <2>1. at \in S
    BY <1>5
  <2>2. Kept(s, S)[i] = s[at]
    BY DEF Kept
  <2> QED  BY <2>1, <2>2
<1>7. DOMAIN Kept(s, S) = 1..n
  BY DEF Kept
<1>8. \A i \in 1..n : Kept(s, S)[i] \in E
  BY <1>1, <1>6
<1>9. Kept(s, S) \in Seq(E)
  <2>1. Kept(s, S) \in [1..n -> E]
    BY <1>7, <1>8 DEF Kept
  <2> QED  BY <1>1, <2>1
<1> QED  BY <1>6, <1>7, <1>9

\* The refresh tokens after one more was issued: of those there were, and the new one.
LEMMA IssuedFacts ==
  ASSUME SessionsAssumption, refresh \in Seq(Sessions), NEW s \in Sessions
  PROVE  /\ Issued(s) \in Seq(Sessions)
         /\ \A i \in DOMAIN Issued(s) : Issued(s)[i] = s \/ \E j \in DOMAIN refresh : Issued(s)[i] = refresh[j]
<1> DEFINE own == {i \in DOMAIN refresh : refresh[i].name = s.name}
           oldest == CHOOSE i \in own : \A j \in own : i <= j
           stay == IF Cardinality(own) < MaxRefresh THEN refresh ELSE RemoveAt(refresh, oldest)
<1>1. DOMAIN refresh = 1..Len(refresh) /\ Len(refresh) \in Nat
  OBVIOUS
<1>2. ASSUME ~(Cardinality(own) < MaxRefresh) PROVE oldest \in DOMAIN refresh
  <2>1. MaxRefresh \in Nat \ {0}
    BY DEF SessionsAssumption
  <2>2. own # {}
    <3>1. own = {} => Cardinality(own) = 0
      BY FS_EmptySet
    <3> QED  BY <1>2, <2>1, <3>1
  <2>3. own \in SUBSET Nat
    BY <1>1
  <2>4. \E k \in own : \A j \in own : k <= j
    <3> HIDE DEF own
    <3> QED  BY <2>2, <2>3, LeastIndex
  <2>5. oldest \in own
    <3> HIDE DEF own
    <3> QED  BY <2>4
  <2> QED  BY <2>5
<1>3. stay \in Seq(Sessions) /\ \A i \in DOMAIN stay : \E j \in DOMAIN refresh : stay[i] = refresh[j]
  <2>1. CASE Cardinality(own) < MaxRefresh
    <3>1. stay = refresh
      BY <2>1
    <3> HIDE DEF stay
    <3> QED  BY <3>1
  <2>2. CASE ~(Cardinality(own) < MaxRefresh)
    <3>1. stay = RemoveAt(refresh, oldest)
      BY <2>2
    <3>2. oldest \in DOMAIN refresh
      BY <1>2, <2>2
    <3> HIDE DEF stay, oldest
    <3> QED  BY <3>1, <3>2, RemoveAtFacts, RemoveAtKeeps
  <2> QED  BY <2>1, <2>2
<1>4. Issued(s) = Append(stay, s)
  BY DEF Issued
<1> HIDE DEF stay
<1> QED  BY <1>3, <1>4, AppendKeeps

-----------------------------------------------------------------------------
(* Types *)

LEMMA AccountType ==
  ASSUME NEW f \in Files, NEW n \in Names, f[n] # None
  PROVE  /\ f[n] \in Accounts
         /\ f[n].id \in Ids /\ f[n].version \in 1..MaxVersion /\ f[n].role \in Roles /\ f[n].password \in Passwords
  BY DEF Files, Accounts

LEMMA SessionType ==
  ASSUME NEW n \in Names, NEW a \in Accounts, NEW p \in Passwords \cup {None}, NEW d \in Devices \cup {None}
  PROVE  SessionOf(n, a, p, d) \in Sessions
  BY DEF SessionOf, Accounts, Sessions

LEMMA CreatedType ==
  ASSUME SessionsAssumption, NEW f \in Files, nextId \in Ids, NEW n \in Names, NEW r \in Roles, NEW p \in Passwords
  PROVE  Created(f, n, r, p) \in Files
<1> DEFINE account == [id |-> nextId, version |-> 1, role |-> r, password |-> p]
<1>1. account \in Accounts
  BY DEF Accounts, SessionsAssumption
<1> HIDE DEF account
<1>2. [f EXCEPT ![n] = account] \in Files
  BY <1>1 DEF Files
<1> QED  BY <1>2 DEF Created, account

\* What an update puts under the new name.
Change(account, role, password) ==
  Raised([account EXCEPT !.role = role, !.password = IF password = None THEN @ ELSE password])

LEMMA ChangeType ==
  ASSUME NEW a \in Accounts, a.version < MaxVersion, MaxVersion \in Nat,
         NEW r \in Roles, NEW p \in Passwords \cup {None}
  PROVE  /\ Change(a, r, p) \in Accounts
         /\ Change(a, r, p).id = a.id /\ Change(a, r, p).version = a.version + 1
<1> DEFINE given == IF p = None THEN a.password ELSE p
           b == [a EXCEPT !.role = r, !.password = given]
<1>1. given \in Passwords
  BY DEF Accounts
<1> HIDE DEF given
<1>2. b \in Accounts /\ b.id = a.id /\ b.version = a.version
  BY <1>1 DEF Accounts
<1>3. Change(a, r, p) = [b EXCEPT !.version = @ + 1]
  BY DEF Change, Raised, given
<1> HIDE DEF b
<1>4. b.version + 1 \in 1..MaxVersion
  BY <1>2 DEF Accounts
<1>5. [b EXCEPT !.version = @ + 1] \in Accounts
  BY <1>2, <1>4 DEF Accounts
<1>6. /\ [b EXCEPT !.version = @ + 1].id = b.id
      /\ [b EXCEPT !.version = @ + 1].version = b.version + 1
  BY <1>2 DEF Accounts
<1> QED  BY <1>2, <1>3, <1>5, <1>6

LEMMA UpdatedAccounts ==
  ASSUME SessionsAssumption, NEW f \in Files, NEW n \in Names, NEW m \in Names, NEW r \in Roles,
         NEW p \in Passwords \cup {None}, f[n] # None, f[n].version < MaxVersion
  PROVE  LET g == Updated(f, n, m, r, p)
             a == Change(f[n], r, p)
         IN  /\ g \in Files
             /\ a \in Accounts /\ a.id = f[n].id /\ a.version = f[n].version + 1
             /\ g[m] = a
             /\ n # m => g[n] = None
             /\ \A x \in Names \ {n, m} : g[x] = f[x]
<1> DEFINE a == Change(f[n], r, p)
<1>1. a \in Accounts /\ a.id = f[n].id /\ a.version = f[n].version + 1
  BY AccountType, ChangeType DEF SessionsAssumption
<1>2. Updated(f, n, m, r, p) = [f EXCEPT ![n] = None, ![m] = a]
  BY DEF Updated, Change
<1> HIDE DEF a
<1>3. [f EXCEPT ![n] = None, ![m] = a] \in Files
  BY <1>1 DEF Files
<1>4. /\ [f EXCEPT ![n] = None, ![m] = a][m] = a
      /\ n # m => [f EXCEPT ![n] = None, ![m] = a][n] = None
      /\ \A x \in Names \ {n, m} : [f EXCEPT ![n] = None, ![m] = a][x] = f[x]
  BY DEF Files
<1> QED  BY <1>1, <1>2, <1>3, <1>4 DEF a

-----------------------------------------------------------------------------
(* Accounts and the sessions they opened *)

\* What a session carries is not of its account in f.
Dead(s, f) == ~(f[s.name] # None /\ f[s.name].id = s.id /\ f[s.name].version = s.version)

\* Where f has the account of s, it is the one that opened s, or a later version of it.
Honest(s, f) ==
  \A m \in Names : f[m] # None /\ f[m].id = s.id =>
    \/ f[m].version > s.version
    \/ /\ f[m].version = s.version /\ m = s.name
       /\ s.device = None => s.password = f[m].password

\* Where f has the version that opened connection k, its role is the one k has.
RoleIsTrue(k, f) ==
  \A m \in Names : f[m] # None /\ f[m].id = k.session.id /\ f[m].version = k.session.version => f[m].role = k.role

\* Each account of f has an identity of its own that was handed out.
IdsFit(f, k) ==
  \A m, n \in Names : f[m] # None =>
    /\ f[m].id < k
    /\ f[n] # None /\ f[m].id = f[n].id => m = n

\* What one change makes of f: accounts it creates get identities from k on, and what it keeps is
\* unchanged or of a later version.
Follows(f, g, k) ==
  \A m \in Names : g[m] # None =>
    \/ g[m].id >= k
    \/ \E n \in Names :
         /\ f[n] # None /\ f[n].id = g[m].id
         /\ g[m].version > f[n].version \/ (m = n /\ g[m] = f[n])

\* An account of f that g has too is unchanged there, or of a later version.
Keeps(f, g) ==
  \A n, m \in Names : f[n] # None /\ g[m] # None /\ f[n].id = g[m].id =>
    g[m].version > f[n].version \/ (m = n /\ g[m] = f[n])

\* A change tells no lie of what was opened before, and opens nothing again.
LEMMA FollowsSession ==
  ASSUME NEW f \in Files, NEW g \in Files, NEW k \in Nat, NEW s \in Sessions,
         Follows(f, g, k), s.id < k, Honest(s, f)
  PROVE  Honest(s, g) /\ (Dead(s, f) => Dead(s, g))
<1>1. s.name \in Names /\ s.id \in Int /\ s.version \in Int
  BY DEF Sessions, Ids
<1>2. ASSUME NEW m \in Names, g[m] # None, g[m].id = s.id
      PROVE  /\ \/ g[m].version > s.version
                \/ /\ g[m].version = s.version /\ m = s.name
                   /\ s.device = None => s.password = g[m].password
             /\ g[m].version = s.version => m = s.name /\ g[m] = f[m] /\ f[m] # None
  <2>1. PICK n \in Names :
          /\ f[n] # None /\ f[n].id = g[m].id
          /\ g[m].version > f[n].version \/ (m = n /\ g[m] = f[n])
    BY <1>1, <1>2 DEF Follows
  <2>2. f[n].version \in Int /\ g[m].version \in Int
    BY <1>2, <2>1, AccountType
  <2>3. \/ f[n].version > s.version
        \/ /\ f[n].version = s.version /\ n = s.name
           /\ s.device = None => s.password = f[n].password
    BY <1>2, <2>1 DEF Honest
  <2> QED  BY <1>1, <2>1, <2>2, <2>3
<1>3. Honest(s, g)
  BY <1>2 DEF Honest
<1>4. Dead(s, f) => Dead(s, g)
  BY <1>1, <1>2 DEF Dead
<1> QED  BY <1>3, <1>4

LEMMA FollowsRole ==
  ASSUME NEW f \in Files, NEW g \in Files, NEW k \in Nat, NEW c \in Sockets,
         Follows(f, g, k), c.session.id < k, Honest(c.session, f), RoleIsTrue(c, f)
  PROVE  RoleIsTrue(c, g)
<1>1. c.session \in Sessions /\ c.session.name \in Names /\ c.session.id \in Int /\ c.session.version \in Int
  BY DEF Sockets, Sessions, Ids
<1> SUFFICES ASSUME NEW m \in Names, g[m] # None, g[m].id = c.session.id, g[m].version = c.session.version
             PROVE  g[m].role = c.role
  BY DEF RoleIsTrue
<1>2. PICK n \in Names :
        /\ f[n] # None /\ f[n].id = g[m].id
        /\ g[m].version > f[n].version \/ (m = n /\ g[m] = f[n])
  BY <1>1 DEF Follows
<1>3. f[n].version \in Int
  BY <1>2, AccountType
<1>4. f[n].version > c.session.version \/ f[n].version = c.session.version
  BY <1>2 DEF Honest
<1>5. g[m] = f[n]
  BY <1>1, <1>2, <1>3, <1>4
<1> QED  BY <1>2, <1>5 DEF RoleIsTrue

LEMMA FollowsKeeps ==
  ASSUME NEW f \in Files, NEW g \in Files, NEW k \in Nat, IdsFit(f, k), Follows(f, g, k)
  PROVE  Keeps(f, g)
<1> SUFFICES ASSUME NEW n \in Names, NEW m \in Names, f[n] # None, g[m] # None, f[n].id = g[m].id
             PROVE  g[m].version > f[n].version \/ (m = n /\ g[m] = f[n])
  BY DEF Keeps
<1>1. f[n].id < k /\ f[n].id \in Int
  BY AccountType DEF IdsFit, Ids
<1>2. PICK o \in Names :
        /\ f[o] # None /\ f[o].id = g[m].id
        /\ g[m].version > f[o].version \/ (m = o /\ g[m] = f[o])
  BY <1>1 DEF Follows
<1>3. o = n
  BY <1>2 DEF IdsFit
<1> QED  BY <1>2, <1>3

LEMMA CreatedFollows ==
  ASSUME SessionsAssumption, NEW f \in Files, nextId \in Ids, NEW n \in Names, NEW r \in Roles, NEW p \in Passwords,
         IdsFit(f, nextId)
  PROVE  Follows(f, Created(f, n, r, p), nextId) /\ IdsFit(Created(f, n, r, p), nextId + 1)
<1> DEFINE g == Created(f, n, r, p)
<1>1. g[n].id = nextId /\ \A x \in Names \ {n} : g[x] = f[x]
  BY DEF Created, Files
<1>2. \A x \in Names \ {n} : g[x] # None => g[x].id \in Int /\ g[x].id < nextId
  BY <1>1, AccountType DEF IdsFit, Ids
<1> HIDE DEF g
<1>3. Follows(f, g, nextId)
  <2> SUFFICES ASSUME NEW m \in Names, g[m] # None
               PROVE  \/ g[m].id >= nextId
                      \/ \E x \in Names :
                           /\ f[x] # None /\ f[x].id = g[m].id
                           /\ g[m].version > f[x].version \/ (m = x /\ g[m] = f[x])
    BY DEF Follows
  <2>1. CASE m = n
    BY <1>1, <2>1 DEF Ids
  <2>2. CASE m # n
    BY <1>1, <2>2
  <2> QED  BY <2>1, <2>2
<1>4. IdsFit(g, nextId + 1)
  <2>1. \A m \in Names : g[m] # None => g[m].id < nextId + 1
    BY <1>1, <1>2 DEF Ids
  <2>2. \A m, x \in Names : g[m] # None /\ g[x] # None /\ g[m].id = g[x].id => m = x
    <3> SUFFICES ASSUME NEW m \in Names, NEW x \in Names, g[m] # None, g[x] # None, g[m].id = g[x].id
                 PROVE  m = x
      OBVIOUS
    <3>1. m = n <=> x = n
      BY <1>1, <1>2 DEF Ids
    <3>2. m # n /\ x # n => m = x
      BY <1>1 DEF IdsFit
    <3> QED  BY <3>1, <3>2
  <2> QED  BY <2>1, <2>2 DEF IdsFit
<1> QED  BY <1>3, <1>4 DEF g

LEMMA UpdatedFollows ==
  ASSUME SessionsAssumption, NEW f \in Files, NEW k \in Nat, NEW n \in Names, NEW m \in Names, NEW r \in Roles,
         NEW p \in Passwords \cup {None}, f[n] # None, m # n => f[m] = None, f[n].version < MaxVersion, IdsFit(f, k)
  PROVE  Follows(f, Updated(f, n, m, r, p), k) /\ IdsFit(Updated(f, n, m, r, p), k)
<1> DEFINE g == Updated(f, n, m, r, p)
<1>1. /\ g[m].id = f[n].id /\ g[m].version = f[n].version + 1
      /\ n # m => g[n] = None
      /\ \A x \in Names \ {n, m} : g[x] = f[x]
  BY UpdatedAccounts
<1>2. f[n].version \in Int
  BY AccountType
<1> HIDE DEF g
<1>3. \A x \in Names : g[x] # None => x = m \/ (x \notin {n, m} /\ g[x] = f[x])
  BY <1>1
<1>4. Follows(f, g, k)
  BY <1>1, <1>2, <1>3 DEF Follows
<1>5. IdsFit(g, k)
  BY <1>1, <1>3 DEF IdsFit
<1> QED  BY <1>4, <1>5 DEF g

LEMMA DeletedFollows ==
  ASSUME NEW f \in Files, NEW k \in Nat, NEW n \in Names, IdsFit(f, k)
  PROVE  /\ [f EXCEPT ![n] = None] \in Files
         /\ Follows(f, [f EXCEPT ![n] = None], k) /\ IdsFit([f EXCEPT ![n] = None], k)
<1> DEFINE g == [f EXCEPT ![n] = None]
<1>1. g \in Files /\ g[n] = None /\ \A x \in Names \ {n} : g[x] = f[x]
  BY DEF Files
<1> HIDE DEF g
<1>2. \A x \in Names : g[x] # None => g[x] = f[x]
  BY <1>1
<1> QED  BY <1>1, <1>2 DEF Follows, IdsFit, g

-----------------------------------------------------------------------------
(* The invariant *)

\* Everything that was opened, and what a sign-in under way will open.
Carried == tokens \cup Range(refresh) \cup {k.session : k \in sockets} \cup {Opened(l) : l \in logins}

AccountsInv ==
  /\ IdsFit(file, nextId)
  /\ \A c, d \in changing : c = d
  /\ \A c \in changing : IdsFit(c.saves, nextId) /\ Keeps(file, c.saves)

CarriedInv ==
  \A s \in Carried :
    /\ s.id < nextId /\ Honest(s, file)
    /\ \A c \in changing : Honest(s, c.saves) /\ (Dead(s, file) => Dead(s, c.saves))

SocketsInv == \A k \in sockets : RoleIsTrue(k, file) /\ \A c \in changing : RoleIsTrue(k, c.saves)

IInv == TypeOK /\ AccountsInv /\ CarriedInv /\ SocketsInv /\ RevokedRenewsNothing

LEMMA CarriedType == TypeOK => Carried \subseteq Sessions
<1> SUFFICES ASSUME TypeOK PROVE Carried \subseteq Sessions
  OBVIOUS
<1>1. tokens \subseteq Sessions /\ Range(refresh) \subseteq Sessions /\ sockets \subseteq Sockets
  BY DEF TypeOK, Range
<1>2. \A k \in sockets : k.session \in Sessions
  BY <1>1 DEF Sockets
<1>3. ASSUME NEW l \in logins PROVE Opened(l) \in Sessions
  <2>1. l.name \in Names /\ l.account \in Accounts /\ l.account.password \in Passwords
    BY DEF TypeOK, Accounts
  <2> QED  BY <2>1, SessionType DEF Opened
<1> QED  BY <1>1, <1>2, <1>3 DEF Carried

\* s is opened from an account as it is now.
OpenedNow(s) ==
  /\ file[s.name] # None /\ file[s.name].id = s.id /\ file[s.name].version = s.version
  /\ s.device = None => s.password = file[s.name].password

ConnectedNow(k) == k.session \in Carried /\ Current(k.session) /\ k.role = file[k.session.name].role

\* Sessions are opened, moved and ended; the accounts stay, and changes are given up.
LEMMA SessionsMove ==
  ASSUME IInv, TypeOK', file' = file, nextId' = nextId, changing' \subseteq changing,
         \A s \in Carried' : s \in Carried \/ OpenedNow(s),
         \A k \in sockets' : k \in sockets \/ ConnectedNow(k)
  PROVE  AccountsInv' /\ CarriedInv' /\ SocketsInv'
<1>1. file \in Files /\ \A c \in changing : c.saves \in Files
  BY DEF IInv, TypeOK
<1>2. AccountsInv'
  BY DEF IInv, AccountsInv
<1>3. ASSUME NEW s \in Sessions, OpenedNow(s)
      PROVE  /\ s.id < nextId /\ Honest(s, file)
             /\ \A c \in changing : Honest(s, c.saves) /\ (Dead(s, file) => Dead(s, c.saves))
  <2>1. s.name \in Names
    BY DEF Sessions
  <2>2. s.id < nextId
    BY <1>3, <2>1 DEF OpenedNow, IInv, AccountsInv, IdsFit
  <2>3. Honest(s, file)
    <3>1. \A m \in Names : file[m] # None /\ file[m].id = s.id => m = s.name
      BY <1>3, <2>1 DEF OpenedNow, IInv, AccountsInv, IdsFit
    <3> QED  BY <1>3, <3>1 DEF Honest, OpenedNow
  <2>4. ~Dead(s, file)
    BY <1>3 DEF Dead, OpenedNow
  <2>5. ASSUME NEW c \in changing PROVE Honest(s, c.saves)
    <3> SUFFICES ASSUME NEW m \in Names, c.saves[m] # None, c.saves[m].id = s.id
                 PROVE  \/ c.saves[m].version > s.version
                        \/ /\ c.saves[m].version = s.version /\ m = s.name
                           /\ s.device = None => s.password = c.saves[m].password
      BY DEF Honest
    <3>1. \/ c.saves[m].version > file[s.name].version
          \/ (m = s.name /\ c.saves[m] = file[s.name])
      BY <1>3, <2>1 DEF IInv, AccountsInv, Keeps, OpenedNow
    <3> QED  BY <1>3, <3>1 DEF OpenedNow
  <2> QED  BY <2>2, <2>3, <2>4, <2>5
<1>4. Carried' \subseteq Sessions
  <2>1. TypeOK' => (Carried \subseteq Sessions)'
    BY CarriedType, PTL
  <2> QED  BY <2>1
<1>5. CarriedInv'
  <2> SUFFICES ASSUME NEW s \in Carried'
               PROVE  /\ s.id < nextId /\ Honest(s, file)
                      /\ \A c \in changing : Honest(s, c.saves) /\ (Dead(s, file) => Dead(s, c.saves))
    BY DEF CarriedInv
  <2>1. CASE s \in Carried
    BY <2>1 DEF IInv, CarriedInv
  <2>2. CASE OpenedNow(s)
    BY <1>3, <1>4, <2>2
  <2> QED  BY <2>1, <2>2
<1>6. ASSUME NEW k \in sockets', ConnectedNow(k)
      PROVE  RoleIsTrue(k, file) /\ \A c \in changing : RoleIsTrue(k, c.saves)
  <2> DEFINE s == k.session
  <2>1. s \in Sessions /\ s.name \in Names
    BY <1>6, CarriedType DEF ConnectedNow, IInv, Sessions
  <2>2. /\ file[s.name] # None /\ file[s.name].id = s.id /\ file[s.name].version = s.version
        /\ k.role = file[s.name].role
    BY <1>6 DEF ConnectedNow, Current, Live
  <2> HIDE DEF s
  <2>3. \A m \in Names : file[m] # None /\ file[m].id = s.id => m = s.name
    BY <2>1, <2>2 DEF IInv, AccountsInv, IdsFit
  <2>4. RoleIsTrue(k, file)
    BY <2>2, <2>3 DEF RoleIsTrue, s
  <2>5. ASSUME NEW c \in changing PROVE RoleIsTrue(k, c.saves)
    <3> SUFFICES ASSUME NEW m \in Names, c.saves[m] # None, c.saves[m].id = s.id, c.saves[m].version = s.version
                 PROVE  c.saves[m].role = k.role
      BY DEF RoleIsTrue, s
    <3>1. \/ c.saves[m].version > file[s.name].version
          \/ c.saves[m] = file[s.name]
      BY <2>1, <2>2 DEF IInv, AccountsInv, Keeps
    <3>2. file[s.name].version \in Int
      BY <1>1, <2>1, <2>2, AccountType
    <3> QED  BY <2>2, <3>1, <3>2
  <2> QED  BY <2>4, <2>5
<1>7. SocketsInv'
  BY <1>6 DEF IInv, SocketsInv
<1> QED  BY <1>2, <1>5, <1>7

\* What is opened stays while a change loads the file, replaces it, or both.
LEMMA ChangeFollows ==
  ASSUME IInv, NEW g \in Files, Follows(file, g, nextId)
  PROVE  /\ Keeps(file, g)
         /\ \A s \in Carried : Honest(s, g) /\ (Dead(s, file) => Dead(s, g))
         /\ \A k \in sockets : RoleIsTrue(k, g)
<1>1. file \in Files /\ nextId \in Nat
  BY DEF IInv, TypeOK
<1>2. Carried \subseteq Sessions /\ sockets \subseteq Sockets /\ \A k \in sockets : k.session \in Carried
  BY CarriedType DEF IInv, TypeOK, Carried
<1>3. Keeps(file, g)
  BY <1>1, FollowsKeeps DEF IInv, AccountsInv
<1>4. \A s \in Carried : s.id < nextId /\ Honest(s, file)
  BY DEF IInv, CarriedInv
<1>5. \A s \in Carried : Honest(s, g) /\ (Dead(s, file) => Dead(s, g))
  BY <1>1, <1>2, <1>4, FollowsSession
<1>6. \A k \in sockets : RoleIsTrue(k, g)
  BY <1>1, <1>2, <1>4, FollowsRole DEF IInv, SocketsInv
<1> QED  BY <1>3, <1>5, <1>6

SessionsStay == UNCHANGED <<logins, tokens, refresh, sockets, devices>>

LEMMA CarriedStays == ASSUME SessionsStay PROVE Carried' = Carried /\ sockets' = sockets
  BY DEF SessionsStay, Carried, Opened, SessionOf, Range

LEMMA Loads ==
  ASSUME IInv, LockFree, NEW g \in Files, Follows(file, g, nextId), IdsFit(g, nextId'),
         changing' = changing \cup {[loaded |-> file, saves |-> g]},
         nextId' \in Nat, nextId' >= nextId, file' = file, SessionsStay
  PROVE  AccountsInv' /\ CarriedInv' /\ SocketsInv'
<1>1. changing' = {[loaded |-> file, saves |-> g]} /\ \A c \in changing' : c.saves = g
  BY DEF LockFree
<1>2. Carried' = Carried /\ sockets' = sockets
  BY CarriedStays
<1>3. nextId \in Nat /\ file \in Files
  BY DEF IInv, TypeOK
<1>4. IdsFit(file, nextId')
  <2>1. IdsFit(file, nextId)
    BY DEF IInv, AccountsInv
  <2>2. \A m \in Names : file[m] # None => file[m].id \in Int
    BY <1>3, AccountType DEF Ids
  <2> QED  BY <1>3, <2>1, <2>2 DEF IdsFit
<1>5. AccountsInv'
  BY <1>1, <1>4, ChangeFollows DEF AccountsInv
<1>6. CarriedInv'
  <2>1. \A s \in Carried : s.id < nextId' /\ Honest(s, file)
    <3>1. \A s \in Carried : s.id \in Int
      BY CarriedType DEF IInv, Sessions, Ids
    <3> QED  BY <1>3, <3>1 DEF IInv, CarriedInv
  <2> QED  BY <1>1, <1>2, <2>1, ChangeFollows DEF CarriedInv
<1>7. SocketsInv'
  BY <1>1, <1>2, ChangeFollows DEF IInv, SocketsInv
<1> QED  BY <1>5, <1>6, <1>7

LEMMA Replaces ==
  ASSUME IInv, LockFree, file' \in Files, Follows(file, file', nextId), IdsFit(file', nextId),
         changing' = changing, nextId' = nextId, SessionsStay
  PROVE  /\ AccountsInv' /\ CarriedInv' /\ SocketsInv'
         /\ \A s \in Carried : Dead(s, file) => Dead(s, file')
<1>1. changing' = {}
  BY DEF LockFree
<1>2. Carried' = Carried /\ sockets' = sockets
  BY CarriedStays
<1>3. /\ \A s \in Carried : Honest(s, file') /\ (Dead(s, file) => Dead(s, file'))
      /\ \A k \in sockets : RoleIsTrue(k, file')
  BY ChangeFollows
<1>4. AccountsInv'
  BY <1>1 DEF AccountsInv
<1>5. CarriedInv'
  BY <1>1, <1>2, <1>3 DEF IInv, CarriedInv
<1>6. SocketsInv'
  BY <1>1, <1>2, <1>3 DEF SocketsInv
<1> QED  BY <1>3, <1>4, <1>5, <1>6

LEMMA Saves ==
  ASSUME IInv, NEW c \in changing, SaveUsers(c)
  PROVE  /\ AccountsInv' /\ CarriedInv' /\ SocketsInv'
         /\ \A s \in Carried : Dead(s, file) => Dead(s, file')
<1>1. changing' = {} /\ file' = c.saves /\ nextId' = nextId /\ SessionsStay
  BY DEF SaveUsers, SessionsStay, IInv, AccountsInv
<1>2. Carried' = Carried /\ sockets' = sockets
  BY <1>1, CarriedStays
<1>3. AccountsInv'
  BY <1>1 DEF IInv, AccountsInv
<1>4. CarriedInv'
  BY <1>1, <1>2 DEF IInv, CarriedInv
<1>5. SocketsInv'
  BY <1>1, <1>2 DEF IInv, SocketsInv
<1>6. \A s \in Carried : Dead(s, file) => Dead(s, file')
  BY <1>1 DEF IInv, CarriedInv
<1> QED  BY <1>3, <1>4, <1>5, <1>6

-----------------------------------------------------------------------------
(* Each operation keeps it *)

\* What each kind of session may become in a step that changes no account.
LEMMA Moves ==
  ASSUME IInv, TypeOK', file' = file, nextId' = nextId, changing' \subseteq changing,
         \A s \in tokens' : s \in Carried \/ OpenedNow(s),
         \A i \in DOMAIN refresh' : refresh'[i] \in Carried \/ OpenedNow(refresh'[i]),
         \A l \in logins' : l \in logins \/ OpenedNow(Opened(l)),
         \A k \in sockets' : k \in sockets \/ ConnectedNow(k),
         RevokedRenewsNothing'
  PROVE  IInv'
<1>1. \A k \in sockets' : k.session \in Carried
  BY DEF Carried, ConnectedNow
<1>2. \A l \in logins' : Opened(l) \in Carried \/ OpenedNow(Opened(l))
  BY DEF Carried
<1>3. Carried' = tokens' \cup {refresh'[i] : i \in DOMAIN refresh'} \cup {k.session : k \in sockets'}
                 \cup {Opened(l) : l \in logins'}
  BY DEF Carried, Range, Opened, SessionOf
<1>4. \A s \in Carried' : s \in Carried \/ OpenedNow(s)
  BY <1>1, <1>2, <1>3
<1>5. AccountsInv' /\ CarriedInv' /\ SocketsInv'
  BY <1>4, SessionsMove
<1> QED  BY <1>5 DEF IInv

LEMMA CarriedOf ==
  /\ tokens \subseteq Carried
  /\ \A i \in DOMAIN refresh : refresh[i] \in Carried
  BY DEF Carried, Range

\* Refresh tokens that were there, at other places or fewer of them.
LEMMA RefreshShrinks ==
  ASSUME IInv, TypeOK', UNCHANGED <<file, nextId, changing, logins, sockets, devices>>, tokens' \subseteq Carried,
         \A i \in DOMAIN refresh' : \E j \in DOMAIN refresh : refresh'[i] = refresh[j]
  PROVE  IInv'
<1>1. RevokedRenewsNothing'
  BY DEF IInv, RevokedRenewsNothing, DeviceIs
<1>2. \A i \in DOMAIN refresh' : refresh'[i] \in Carried
  BY CarriedOf
<1> QED  BY <1>1, <1>2, Moves

LEMMA CreateUserKeeps ==
  ASSUME SessionsAssumption, IInv, NEW n \in Names, NEW r \in Roles, NEW p \in Passwords, CreateUser(n, r, p)
  PROVE  IInv' /\ file' = file
<1> DEFINE g == Created(file, n, r, p)
<1>1. file \in Files /\ nextId \in Ids /\ LockFree
  BY DEF IInv, TypeOK, CreateUser
<1>2. g \in Files
  BY <1>1, CreatedType
<1>3. Follows(file, g, nextId) /\ IdsFit(g, nextId + 1)
  BY <1>1, CreatedFollows DEF IInv, AccountsInv
<1>4. /\ changing' = changing \cup {[loaded |-> file, saves |-> g]} /\ nextId' = nextId + 1 /\ file' = file
      /\ SessionsStay
  BY DEF CreateUser, SessionsStay
<1>5. nextId' \in 1..MaxIds + 1 /\ nextId' \in Nat /\ nextId' >= nextId
  BY <1>1, <1>4 DEF Ids, SessionsAssumption
<1> HIDE DEF g
<1>6. AccountsInv' /\ CarriedInv' /\ SocketsInv'
  BY <1>1, <1>2, <1>3, <1>4, <1>5, Loads
<1>7. changing' \subseteq [loaded : Files, saves : Files]
  BY <1>1, <1>2, <1>4 DEF IInv, TypeOK
<1>8. TypeOK' /\ RevokedRenewsNothing'
  BY <1>4, <1>5, <1>7 DEF IInv, TypeOK, SessionsStay, RevokedRenewsNothing, DeviceIs
<1> QED  BY <1>4, <1>6, <1>8 DEF IInv

LEMMA UpdateUserKeeps ==
  ASSUME SessionsAssumption, IInv, NEW n \in Names, NEW m \in Names, NEW r \in Roles,
         NEW p \in Passwords \cup {None}, UpdateUser(n, m, r, p)
  PROVE  IInv' /\ \A s \in Carried : Dead(s, file) => Dead(s, file')
<1> DEFINE g == Updated(file, n, m, r, p)
<1>1. /\ file \in Files /\ nextId \in Nat /\ LockFree
      /\ file[n] # None /\ (m # n => file[m] = None) /\ file[n].version < MaxVersion
  BY DEF IInv, TypeOK, UpdateUser, MayUpdate
<1>2. g \in Files
  BY <1>1, UpdatedAccounts
<1>3. Follows(file, g, nextId) /\ IdsFit(g, nextId)
  BY <1>1, UpdatedFollows DEF IInv, AccountsInv
<1>4. /\ nextId' = nextId /\ SessionsStay
      /\ \/ file' = g /\ changing' = changing
         \/ changing' = changing \cup {[loaded |-> file, saves |-> g]} /\ file' = file
  BY DEF UpdateUser, SessionsStay
<1> HIDE DEF g
<1>5. TypeOK' /\ RevokedRenewsNothing'
  <2>1. file' \in Files
    BY <1>1, <1>2, <1>4
  <2>2. changing' \subseteq [loaded : Files, saves : Files]
    BY <1>1, <1>2, <1>4 DEF IInv, TypeOK
  <2> QED  BY <1>4, <2>1, <2>2 DEF IInv, TypeOK, SessionsStay, RevokedRenewsNothing, DeviceIs
<1>6. CASE file' = g /\ changing' = changing
  BY <1>1, <1>2, <1>3, <1>4, <1>5, <1>6, Replaces DEF IInv
<1>7. CASE changing' = changing \cup {[loaded |-> file, saves |-> g]} /\ file' = file
  <2>1. nextId' >= nextId
    BY <1>1, <1>4
  <2> QED  BY <1>1, <1>2, <1>3, <1>4, <1>5, <1>7, <2>1, Loads DEF IInv
<1> QED  BY <1>4, <1>6, <1>7

LEMMA DeleteUserKeeps ==
  ASSUME IInv, NEW n \in Names, DeleteUser(n)
  PROVE  IInv' /\ \A s \in Carried : Dead(s, file) => Dead(s, file')
<1>1. file \in Files /\ nextId \in Nat /\ LockFree
  BY DEF IInv, TypeOK, DeleteUser
<1>2. file' = [file EXCEPT ![n] = None] /\ changing' = changing /\ nextId' = nextId /\ SessionsStay
  BY DEF DeleteUser, SessionsStay
<1>3. file' \in Files /\ Follows(file, file', nextId) /\ IdsFit(file', nextId)
  BY <1>1, <1>2, DeletedFollows DEF IInv, AccountsInv
<1>4. TypeOK' /\ RevokedRenewsNothing'
  BY <1>2, <1>3 DEF IInv, TypeOK, SessionsStay, RevokedRenewsNothing, DeviceIs
<1> QED  BY <1>1, <1>2, <1>3, <1>4, Replaces DEF IInv

LEMMA SaveUsersKeeps ==
  ASSUME IInv, NEW c \in changing, SaveUsers(c)
  PROVE  IInv' /\ \A s \in Carried : Dead(s, file) => Dead(s, file')
<1>1. c.saves \in Files
  BY DEF IInv, TypeOK
<1>2. TypeOK' /\ RevokedRenewsNothing'
  BY <1>1 DEF IInv, TypeOK, SaveUsers, RevokedRenewsNothing, DeviceIs
<1> QED  BY <1>2, Saves DEF IInv

LEMMA BeginLoginKeeps ==
  ASSUME IInv, NEW n \in Names, BeginLogin(n)
  PROVE  IInv' /\ file' = file
<1> DEFINE l == [name |-> n, account |-> file[n]]
<1>1. file[n] # None /\ file[n] \in Accounts
  BY AccountType DEF BeginLogin, Live, IInv, TypeOK
<1>2. l \in [name : Names, account : Accounts]
  BY <1>1
<1>3. OpenedNow(Opened(l))
  BY <1>1 DEF OpenedNow, Opened, SessionOf
<1> HIDE DEF l
<1>4. logins' = logins \cup {l} /\ UNCHANGED <<file, nextId, changing, tokens, refresh, sockets, devices>>
  BY DEF BeginLogin, l
<1>5. TypeOK' /\ RevokedRenewsNothing'
  BY <1>2, <1>4 DEF IInv, TypeOK, RevokedRenewsNothing, DeviceIs
<1>6. tokens' \subseteq Carried /\ \A i \in DOMAIN refresh' : refresh'[i] \in Carried
  BY <1>4, CarriedOf
<1>7. \A x \in logins' : x \in logins \/ OpenedNow(Opened(x))
  BY <1>3, <1>4
<1> QED  BY <1>4, <1>5, <1>6, <1>7, Moves

LEMMA FinishLoginKeeps ==
  ASSUME SessionsAssumption, IInv, NEW l \in logins, FinishLogin(l)
  PROVE  IInv' /\ file' = file
<1>1. Opened(l) \in Carried /\ Opened(l) \in Sessions /\ Opened(l).device = None
  <2>1. Opened(l) \in Carried
    BY DEF Carried
  <2> QED  BY <2>1, CarriedType DEF IInv, Opened, SessionOf
<1>2. /\ refresh' \in Seq(Sessions)
      /\ \A i \in DOMAIN refresh' : refresh'[i] = Opened(l) \/ \E j \in DOMAIN refresh : refresh'[i] = refresh[j]
  BY <1>1, IssuedFacts DEF FinishLogin, IInv, TypeOK
<1>3. /\ logins' \subseteq logins /\ tokens' = tokens \cup {Opened(l)}
      /\ UNCHANGED <<file, nextId, changing, sockets, devices>>
  BY DEF FinishLogin
<1>4. TypeOK'
  BY <1>1, <1>2, <1>3 DEF IInv, TypeOK
<1>5. RevokedRenewsNothing'
  BY <1>1, <1>2, <1>3 DEF IInv, RevokedRenewsNothing, DeviceIs
<1>6. tokens' \subseteq Carried /\ \A i \in DOMAIN refresh' : refresh'[i] \in Carried
  BY <1>1, <1>2, <1>3, CarriedOf
<1> QED  BY <1>3, <1>4, <1>5, <1>6, Moves

LEMMA LoginDeviceKeeps ==
  ASSUME SessionsAssumption, IInv, NEW d \in Devices, LoginDevice(d)
  PROVE  IInv' /\ file' = file
<1> DEFINE n == devices[d].name
           s == SessionOf(n, file[n], None, d)
<1>1. n \in Names /\ file[n] # None /\ file[n] \in Accounts
  <2>1. devices[d] # None /\ devices[d] \in DeviceRecords
    BY DEF LoginDevice, DeviceIs, IInv, TypeOK
  <2>2. n \in Names
    BY <2>1 DEF DeviceRecords
  <2> QED  BY <2>2, AccountType DEF LoginDevice, Live, IInv, TypeOK
<1>2. s \in Sessions /\ OpenedNow(s) /\ s.device = d
  <2>1. s \in Sessions
    BY <1>1, SessionType
  <2>2. d # None
    BY DEF SessionsAssumption
  <2> QED  BY <1>1, <2>1, <2>2 DEF OpenedNow, SessionOf
<1>3. /\ refresh' = Issued(s) /\ tokens' = tokens \cup {s} /\ DeviceIs(d, "active")
      /\ UNCHANGED <<file, nextId, changing, logins, sockets, devices>>
  BY DEF LoginDevice
<1> HIDE DEF n, s
<1>4. /\ refresh' \in Seq(Sessions)
      /\ \A i \in DOMAIN refresh' : refresh'[i] = s \/ \E j \in DOMAIN refresh : refresh'[i] = refresh[j]
  BY <1>2, <1>3, IssuedFacts DEF IInv, TypeOK
<1>5. TypeOK'
  BY <1>2, <1>3, <1>4 DEF IInv, TypeOK
<1>6. RevokedRenewsNothing'
  BY <1>2, <1>3, <1>4 DEF IInv, RevokedRenewsNothing, DeviceIs
<1>7. /\ \A x \in tokens' : x \in Carried \/ OpenedNow(x)
      /\ \A i \in DOMAIN refresh' : refresh'[i] \in Carried \/ OpenedNow(refresh'[i])
  BY <1>2, <1>3, <1>4, CarriedOf
<1> QED  BY <1>3, <1>5, <1>6, <1>7, Moves

LEMMA RefreshDevices == ASSUME TypeOK PROVE \A i \in DOMAIN refresh : refresh[i].device \in Devices \cup {None}
<1>1. \A i \in DOMAIN refresh : refresh[i] \in Sessions
  BY DEF TypeOK
<1> QED  BY <1>1 DEF Sessions

\* Records of devices change, and no revoked one becomes another.
LEMMA DevicesKeep ==
  ASSUME SessionsAssumption, IInv, NEW d \in Devices,
         ExpireDevice(d) \/ RevokeDevice(d) \/ \E n \in Names : IssueDevice(d, n)
  PROVE  IInv' /\ file' = file
<1>1. ASSUME NEW r \in DeviceRecords, devices' = [devices EXCEPT ![d] = r]
      PROVE  devices' \in [Devices -> DeviceRecords \cup {None}]
  BY <1>1 DEF IInv, TypeOK
<1>2. tokens \subseteq Carried /\ \A i \in DOMAIN refresh : refresh[i] \in Carried
  BY CarriedOf
<1>3. CASE ExpireDevice(d)
  <2> DEFINE r == [devices[d] EXCEPT !.state = "expired"]
  <2>1. devices[d] \in DeviceRecords
    BY <1>3 DEF ExpireDevice, DeviceIs, IInv, TypeOK
  <2>2. r \in DeviceRecords
    BY <2>1 DEF DeviceRecords
  <2>3. devices' = [devices EXCEPT ![d] = r]
    BY <1>3 DEF ExpireDevice
  <2>4. devices'[d].state = "expired" /\ \A e \in Devices \ {d} : devices'[e] = devices[e]
    BY <2>1, <2>3 DEF DeviceRecords, IInv, TypeOK
  <2>5. UNCHANGED <<file, nextId, changing, logins, tokens, refresh, sockets>>
    BY <1>3 DEF ExpireDevice
  <2> HIDE DEF r
  <2>6. TypeOK'
    BY <1>1, <2>2, <2>3, <2>5 DEF IInv, TypeOK
  <2>7. RevokedRenewsNothing'
    <3>1. \A i \in DOMAIN refresh : refresh[i].device \in Devices \cup {None}
      BY RefreshDevices DEF IInv
    <3> QED  BY <2>4, <2>5, <3>1 DEF IInv, RevokedRenewsNothing, DeviceIs
  <2> QED  BY <1>2, <2>5, <2>6, <2>7, Moves
<1>4. CASE RevokeDevice(d)
  <2> DEFINE r == [devices[d] EXCEPT !.state = "revoked"]
             S == {i \in DOMAIN refresh : refresh[i].device # d}
  <2>1. devices[d] \in DeviceRecords
    BY <1>4 DEF RevokeDevice, DeviceIs, IInv, TypeOK
  <2>2. r \in DeviceRecords
    BY <2>1 DEF DeviceRecords
  <2>3. devices' = [devices EXCEPT ![d] = r]
    BY <1>4 DEF RevokeDevice
  <2>4. \A e \in Devices \ {d} : devices'[e] = devices[e]
    BY <2>3 DEF IInv, TypeOK
  <2>5. UNCHANGED <<file, nextId, changing, logins, tokens, sockets>> /\ refresh' = Kept(refresh, S)
    BY <1>4 DEF RevokeDevice
  <2>6. refresh \in Seq(Sessions) /\ S \subseteq DOMAIN refresh
    BY DEF IInv, TypeOK
  <2>7. refresh' \in Seq(Sessions) /\ \A i \in DOMAIN refresh' : \E k \in S : refresh'[i] = refresh[k]
    <3> HIDE DEF S
    <3> QED  BY <2>5, <2>6, KeptFacts
  <2> HIDE DEF r
  <2>8. TypeOK'
    BY <1>1, <2>2, <2>3, <2>5, <2>7 DEF IInv, TypeOK
  <2>9. RevokedRenewsNothing'
    <3>1. \A i \in DOMAIN refresh : refresh[i].device \in Devices \cup {None}
      BY RefreshDevices DEF IInv
    <3>2. \A i \in DOMAIN refresh' : \E k \in DOMAIN refresh : refresh'[i] = refresh[k] /\ refresh[k].device # d
      BY <2>7
    <3> QED  BY <2>4, <3>1, <3>2 DEF IInv, RevokedRenewsNothing, DeviceIs
  <2>10. \A i \in DOMAIN refresh' : refresh'[i] \in Carried
    BY <1>2, <2>7
  <2> QED  BY <1>2, <2>5, <2>8, <2>9, <2>10, Moves
<1>5. CASE \E n \in Names : IssueDevice(d, n)
  <2>1. PICK n \in Names : IssueDevice(d, n)
    BY <1>5
  <2> DEFINE r == [state |-> "active", name |-> n, id |-> file[n].id]
  <2>2. r \in DeviceRecords
    <3>1. file[n] # None /\ file[n].id \in Ids
      BY <2>1, AccountType DEF IssueDevice, Live, IInv, TypeOK
    <3> QED  BY <3>1 DEF DeviceRecords
  <2>3. devices' = [devices EXCEPT ![d] = r]
    BY <2>1 DEF IssueDevice
  <2>4. devices'[d].state = "active" /\ \A e \in Devices \ {d} : devices'[e] = devices[e]
    BY <2>3 DEF IInv, TypeOK
  <2>5. UNCHANGED <<file, nextId, changing, logins, tokens, refresh, sockets>>
    BY <2>1 DEF IssueDevice
  <2> HIDE DEF r
  <2>6. TypeOK'
    BY <1>1, <2>2, <2>3, <2>5 DEF IInv, TypeOK
  <2>7. RevokedRenewsNothing'
    <3>1. \A i \in DOMAIN refresh : refresh[i].device \in Devices \cup {None}
      BY RefreshDevices DEF IInv
    <3> QED  BY <2>4, <2>5, <3>1 DEF IInv, RevokedRenewsNothing, DeviceIs
  <2> QED  BY <1>2, <2>5, <2>6, <2>7, Moves
<1>6. file' = file
  BY DEF ExpireDevice, RevokeDevice, IssueDevice
<1> QED  BY <1>3, <1>4, <1>5, <1>6

LEMMA RefreshKeeps ==
  ASSUME IInv, NEW i \in DOMAIN refresh,
         RenewEnded(i) \/ EndRefresh(i) \/ \E refused, on \in BOOLEAN : Renew(i, refused, on)
  PROVE  IInv' /\ file' = file
<1> DEFINE w == RemoveAt(refresh, i)
           s == refresh[i]
<1>1. refresh \in Seq(Sessions) /\ s \in Sessions
  BY DEF IInv, TypeOK
<1>2. w \in Seq(Sessions) /\ \A k \in DOMAIN w : \E j \in DOMAIN refresh : w[k] = refresh[j]
  BY <1>1, RemoveAtFacts, RemoveAtKeeps
<1>3. /\ refresh' = w \/ refresh' = Append(w, s)
      /\ tokens' = tokens \/ tokens' = tokens \cup {s}
      /\ UNCHANGED <<file, nextId, changing, logins, sockets, devices>>
  <2>1. CASE RenewEnded(i)
    BY <2>1 DEF RenewEnded
  <2>2. CASE EndRefresh(i)
    BY <2>2 DEF EndRefresh
  <2>3. CASE \E refused, on \in BOOLEAN : Renew(i, refused, on)
    <3>1. PICK refused \in BOOLEAN, on \in BOOLEAN : Renew(i, refused, on)
      BY <2>3
    <3> QED  BY <3>1 DEF Renew, Rotated
  <2> QED  BY <2>1, <2>2, <2>3
<1> HIDE DEF w
<1>4. Append(w, s) \in Seq(Sessions) /\ \A k \in DOMAIN Append(w, s) : Append(w, s)[k] = s \/ (k \in DOMAIN w /\ Append(w, s)[k] = w[k])
  <2> HIDE DEF s
  <2> QED  BY <1>1, <1>2, AppendKeeps
<1>5. refresh' \in Seq(Sessions) /\ \A k \in DOMAIN refresh' : \E j \in DOMAIN refresh : refresh'[k] = refresh[j]
  <2>1. CASE refresh' = w
    BY <1>2, <2>1
  <2>2. CASE refresh' = Append(w, s)
    BY <1>2, <1>4, <2>2
  <2> QED  BY <1>3, <2>1, <2>2
<1>6. tokens' \subseteq Carried
  BY <1>3, CarriedOf
<1>7. TypeOK'
  BY <1>1, <1>3, <1>5 DEF IInv, TypeOK
<1> QED  BY <1>3, <1>5, <1>6, <1>7, RefreshShrinks

LEMMA ConnectKeeps ==
  ASSUME IInv, NEW s \in tokens, Connect(s)
  PROVE  IInv' /\ file' = file
<1> DEFINE k == [session |-> s, role |-> file[s.name].role]
<1>1. s \in Carried /\ s \in Sessions /\ s.name \in Names /\ Current(s)
  <2>1. s \in Carried /\ s \in Sessions
    BY CarriedOf, CarriedType DEF IInv
  <2> QED  BY <2>1 DEF Sessions, Connect, Authenticated
<1>2. k \in Sockets
  <2>1. file[s.name].role \in Roles
    BY <1>1, AccountType DEF Current, Live, IInv, TypeOK
  <2> QED  BY <1>1, <2>1 DEF Sockets
<1>3. ConnectedNow(k)
  BY <1>1 DEF ConnectedNow
<1>4. sockets' = sockets \cup {k} /\ UNCHANGED <<file, nextId, changing, logins, tokens, refresh, devices>>
  BY DEF Connect
<1> HIDE DEF k
<1>5. TypeOK' /\ RevokedRenewsNothing'
  BY <1>2, <1>4 DEF IInv, TypeOK, RevokedRenewsNothing, DeviceIs
<1>6. tokens' \subseteq Carried /\ \A i \in DOMAIN refresh' : refresh'[i] \in Carried
  BY <1>4, CarriedOf
<1> QED  BY <1>3, <1>4, <1>5, <1>6, Moves

\* Steps that only end something.
LEMMA EndsKeep ==
  ASSUME IInv, UNCHANGED <<file, nextId, refresh, devices>>,
         changing' \subseteq changing, logins' \subseteq logins, tokens' \subseteq tokens, sockets' \subseteq sockets
  PROVE  IInv'
<1>1. TypeOK' /\ RevokedRenewsNothing'
  BY DEF IInv, TypeOK, RevokedRenewsNothing, DeviceIs
<1>2. tokens' \subseteq Carried /\ \A i \in DOMAIN refresh' : refresh'[i] \in Carried
  BY CarriedOf
<1> QED  BY <1>1, <1>2, Moves

LEMMA StepKeeps ==
  ASSUME SessionsAssumption, IInv, [Next]_vars
  PROVE  IInv' /\ \A s \in Carried : Dead(s, file) => Dead(s, file')
<1>1. CASE \E n \in Names, r \in Roles, p \in Passwords : CreateUser(n, r, p)
  BY <1>1, CreateUserKeeps
<1>2. CASE \E n, m \in Names, r \in Roles, p \in Passwords \cup {None} : UpdateUser(n, m, r, p)
  BY <1>2, UpdateUserKeeps
<1>3. CASE \E n \in Names : DeleteUser(n)
  BY <1>3, DeleteUserKeeps
<1>4. CASE \E c \in changing : SaveUsers(c)
  BY <1>4, SaveUsersKeeps
<1>5. CASE \E c \in changing : GiveUp(c)
  BY <1>5, EndsKeep DEF GiveUp
<1>6. CASE \E n \in Names : BeginLogin(n)
  BY <1>6, BeginLoginKeeps
<1>7. CASE \E l \in logins : RefuseLogin(l)
  BY <1>7, EndsKeep DEF RefuseLogin
<1>8. CASE \E l \in logins : FinishLogin(l)
  BY <1>8, FinishLoginKeeps
<1>9. CASE \E d \in Devices : ExpireDevice(d) \/ RevokeDevice(d) \/ \E n \in Names : IssueDevice(d, n)
  BY <1>9, DevicesKeep
<1>10. CASE \E d \in Devices : LoginDevice(d)
  BY <1>10, LoginDeviceKeeps
<1>11. CASE \E i \in DOMAIN refresh : RenewEnded(i) \/ EndRefresh(i) \/ \E refused, on \in BOOLEAN : Renew(i, refused, on)
  BY <1>11, RefreshKeeps
<1>12. CASE \E s \in tokens : ExpireToken(s)
  BY <1>12, EndsKeep DEF ExpireToken
<1>13. CASE \E s \in tokens : Connect(s)
  BY <1>13, ConnectKeeps
<1>14. CASE \E k \in sockets : Disconnect(k)
  BY <1>14, EndsKeep DEF Disconnect
<1>15. CASE \E silent \in SUBSET sockets : Heartbeat(silent)
  BY <1>15, EndsKeep DEF Heartbeat
<1>16. CASE Restart
  BY <1>16, EndsKeep DEF Restart
<1>17. CASE UNCHANGED vars
  BY <1>17, EndsKeep DEF vars
<1> QED  BY <1>1, <1>2, <1>3, <1>4, <1>5, <1>6, <1>7, <1>8, <1>9, <1>10, <1>11, <1>12, <1>13, <1>14, <1>15, <1>16, <1>17
         DEF Next, UsersRoutes, DeviceRoutes

LEMMA InitHolds == SessionsAssumption /\ Init => IInv
<1> SUFFICES ASSUME SessionsAssumption, Init PROVE IInv
  OBVIOUS
<1> DEFINE first == [id |-> 1, version |-> 1, role |-> "admin", password |-> FirstPassword]
<1>1. first \in Accounts
  BY DEF SessionsAssumption, Accounts, Ids, Roles
<1>2. /\ file = [n \in Names |-> IF n = FirstName THEN first ELSE None]
      /\ nextId = 2 /\ changing = {} /\ logins = {} /\ tokens = {} /\ refresh = <<>> /\ sockets = {}
      /\ devices = [d \in Devices |-> None]
  BY DEF Init
<1>3. first.id = 1
  OBVIOUS
<1> HIDE DEF first
<1>4. file \in Files
  BY <1>1, <1>2 DEF Files
<1>5. nextId \in 1..MaxIds + 1
  BY <1>2 DEF SessionsAssumption
<1>6. refresh \in Seq(Sessions)
  BY <1>2
<1>7. devices \in [Devices -> DeviceRecords \cup {None}]
  BY <1>2
<1>8. TypeOK
  BY <1>2, <1>4, <1>5, <1>6, <1>7 DEF TypeOK
<1>9. AccountsInv
  <2>1. \A n \in Names : file[n] # None => n = FirstName /\ file[n].id = 1
    BY <1>2, <1>3
  <2> QED  BY <1>2, <2>1 DEF AccountsInv, IdsFit
<1>10. Carried = {}
  BY <1>2 DEF Carried, Range
<1> QED  BY <1>2, <1>8, <1>9, <1>10 DEF IInv, CarriedInv, SocketsInv, RevokedRenewsNothing

LEMMA Invariant == Spec => []IInv
<1>1. IInv /\ [Next]_vars => IInv'
  BY SessionsAssumption, StepKeeps
<1> QED  BY <1>1, InitHolds, SessionsAssumption, PTL DEF Spec

(* Accounts, changes, sign-ins, tokens, connections and records of devices *)
(* stay what users.ts, refresh_tokens.ts and deviceTokens.ts declare.      *)
THEOREM TypeCorrect == Spec => []TypeOK
<1>1. IInv => TypeOK
  BY DEF IInv
<1> QED  BY <1>1, Invariant, PTL

(* What is open and still works was opened with the password and the role  *)
(* its account has now, and no revoked device renews anything, whatever    *)
(* changes of accounts and sign-ins overlap while a password is hashed     *)
(* (users.ts:268, routes/auth.ts:71, ws.ts:314, routes/deviceRoutes.ts:62).*)
THEOREM SessionsCorrect == Spec => []SessionsAreTrue
<1>1. IInv => SessionsAreTrue
  <2> SUFFICES ASSUME IInv PROVE SessionsAreTrue
    OBVIOUS
  <2>1. \A s \in Carried : s.name \in Names /\ Honest(s, file) /\ s.version \in Int
    BY CarriedType DEF IInv, CarriedInv, Sessions
  <2>2. Open \subseteq Carried
    BY DEF Open, Carried
  <2>3. OpenedWithTheirPassword
    <3> SUFFICES ASSUME NEW s \in Open, Current(s), s.device = None PROVE s.password = file[s.name].password
      BY DEF OpenedWithTheirPassword
    <3> QED  BY <2>1, <2>2 DEF Honest, Current, Live
  <2>4. SecretsFollowTheRole
    <3> SUFFICES ASSUME NEW k \in sockets, MaySeeSecrets(k), Current(k.session)
                 PROVE  file[k.session.name].role = "admin"
      BY DEF SecretsFollowTheRole
    <3>1. k.session.name \in Names
      BY <2>1 DEF Carried
    <3> QED  BY <3>1 DEF IInv, SocketsInv, RoleIsTrue, Current, Live, MaySeeSecrets
  <2> QED  BY <2>3, <2>4 DEF IInv, SessionsAreTrue
<1> QED  BY <1>1, Invariant, PTL

(* No change of an account, saved from a file that was loaded before       *)
(* (users.ts:268), and no account made again under the name, opens what    *)
(* was ended.                                                              *)
THEOREM EndedCorrect == Spec => EndedStaysEnded
<1>1. IInv /\ [Next]_vars => [\A s \in Open : ~Current(s) => ~Current(s)']_vars
  <2> SUFFICES ASSUME IInv, [Next]_vars, NEW s \in Open, ~Current(s) PROVE ~Current(s)'
    OBVIOUS
  <2>1. s \in Carried
    BY DEF Open, Carried
  <2>2. Dead(s, file)
    BY DEF Dead, Current, Live
  <2>3. Dead(s, file')
    BY <2>1, <2>2, StepKeeps, SessionsAssumption
  <2> QED  BY <2>3 DEF Dead, Current, Live
<1> QED  BY <1>1, Invariant, PTL DEF Spec, EndedStaysEnded
=============================================================================
