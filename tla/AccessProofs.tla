---------------------------- MODULE AccessProofs ----------------------------
(***************************************************************************)
(* Proofs about Access, for any limits, lives, overlaps and numbers of     *)
(* accounts' codes, keys, requests, tickets, commands and messages. Each   *)
(* part has an invariant of its own; the parts share nothing.              *)
(***************************************************************************)
EXTENDS Access, Sequences, SequenceTheorems, FiniteSets, FiniteSetTheorems, WellFoundedInduction, TLAPS

-----------------------------------------------------------------------------
(* The second factor *)

\* A record is about enrolments that were begun, and nothing it takes has worked.
Unused(record, used, last) ==
  record # None =>
    /\ record.secret # None =>
         /\ record.pending = None /\ record.secret \in 1..last
         /\ \A code \in record.recovery : code.secret = record.secret
         /\ \A code \in used : code \notin record.recovery /\
              ("step" \in DOMAIN code /\ code.secret = record.secret => code.step <= record.lastStep)
    /\ record.pending # None => record.pending \in 1..last /\ \A code \in used : code.secret # record.pending

FactorInv ==
  /\ Factor!TypeOK /\ ~twice
  /\ \A code \in worked : code.secret \in 1..begun
  /\ Unused(memory, worked, begun) /\ Unused(factorDisk, worked, begun)

LEMMA FactorConstants ==
  /\ RecoveryCodes \in Nat /\ FailLimit \in Nat /\ MaxWait \in Nat
  /\ MaxEnrolments \in Nat /\ MaxStep \in Nat /\ MaxFactorFaults \in Nat
BY AccessAssumption DEF AccessAssumption

\* The two kinds of codes.
LEMMA CodeFacts ==
  ASSUME NEW code \in Factor!Codes
  PROVE  /\ code.secret \in 1..MaxEnrolments
         /\ "step" \in DOMAIN code => code \in [secret : 1..MaxEnrolments, step : -1..MaxStep + 1]
         /\ "step" \notin DOMAIN code => code \in [secret : 1..MaxEnrolments, recovery : 1..RecoveryCodes]
<1>1. CASE code \in [secret : 1..MaxEnrolments, step : -1..MaxStep + 1]
  <2>1. "step" \in DOMAIN code
    BY <1>1
  <2> QED  BY <1>1, <2>1
<1>2. CASE code \in [secret : 1..MaxEnrolments, recovery : 1..RecoveryCodes]
  <2>1. "step" \notin DOMAIN code
    BY <1>2
  <2> QED  BY <1>2, <2>1
<1> QED  BY <1>1, <1>2 DEF Factor!Codes, Factor!Secrets, Factor!Steps

LEMMA RecordFacts ==
  ASSUME NEW record \in Factor!Records
  PROVE  /\ record = [secret |-> record.secret, pending |-> record.pending, recovery |-> record.recovery, lastStep |-> record.lastStep]
         /\ record.secret \in 1..MaxEnrolments \union {None} /\ record.pending \in 1..MaxEnrolments \union {None}
         /\ record.recovery \subseteq [secret : 1..MaxEnrolments, recovery : 1..RecoveryCodes]
         /\ record.lastStep \in -1..MaxStep + 1
BY DEF Factor!Records, Factor!Secrets, Factor!Steps

\* Nobody waits longer than the longest wait.
LEMMA WaitIsBounded ==
  ASSUME NEW count \in Nat, fails.until \in Nat, clock \in Nat PROVE Factor!WaitAfter(count) \in Nat
<1> DEFINE doubled == 2 ^ (count - FailLimit)
           wait == IF doubled \in 1..MaxWait THEN doubled ELSE MaxWait
<1> HIDE DEF doubled
<1>1. wait \in Nat
  BY FactorConstants
<1> HIDE DEF wait
<1>2. Factor!WaitAfter(count) = IF count < FailLimit THEN fails.until ELSE clock + wait
  BY DEF Factor!WaitAfter, wait, doubled
<1> QED  BY <1>1, <1>2

LEMMA FactorStarts == ASSUME Factor!Init PROVE FactorInv
<1>1. Factor!NoFails \in [count : Nat, until : Nat]
  BY DEF Factor!NoFails
<1>2. 0 \in 0..MaxStep /\ 0 \in 0..MaxEnrolments /\ 0 \in 0..MaxFactorFaults
  BY FactorConstants
<1>3. Factor!TypeOK
  BY <1>1, <1>2 DEF Factor!Init, Factor!TypeOK
<1> QED  BY <1>3 DEF Factor!Init, FactorInv, Unused

\* A code that works has not worked before, and the record it is taken from no longer takes it.
LEMMA UsedFacts ==
  ASSUME FactorInv, memory # None, memory.secret # None, NEW code \in Factor!Codes, Factor!Works(code)
  PROVE  /\ code \notin worked /\ code.secret = memory.secret /\ code.secret \in 1..begun
         /\ Factor!Used(code) \in Factor!Records
         /\ Unused(Factor!Used(code), worked \union {code}, begun)
<1> DEFINE record == Factor!Used(code)
<1>1. /\ memory \in Factor!Records /\ clock \in 0..MaxStep /\ MaxStep \in Nat
      /\ memory.lastStep \in Int /\ \A c \in worked : c \in Factor!Codes
  BY RecordFacts, FactorConstants DEF FactorInv, Factor!TypeOK
<1>2. CASE Factor!Matches(memory.secret, code, memory.lastStep)
  <2>1. record = [memory EXCEPT !.lastStep = code.step]
    BY <1>2 DEF Factor!Used
  <2>2. code.step \in -1..MaxStep + 1 /\ code.step > memory.lastStep /\ code.secret = memory.secret /\ "step" \in DOMAIN code
    BY <1>1, <1>2 DEF Factor!Matches
  <2>3. /\ record.secret = memory.secret /\ record.pending = memory.pending /\ record.recovery = memory.recovery
        /\ record.lastStep = code.step /\ record \in Factor!Records
    BY <1>1, <2>1, <2>2, RecordFacts DEF Factor!Records, Factor!Steps
  <2>4. code \notin memory.recovery
    <3>1. ~(code \in [secret : 1..MaxEnrolments, recovery : 1..RecoveryCodes])
      BY <2>2
    <3> QED  BY <1>1, <3>1, RecordFacts
  <2>5. \A c \in worked : "step" \in DOMAIN c => c.step \in Int
    BY <1>1, CodeFacts, FactorConstants
  <2> HIDE DEF record
  <2> QED  BY <1>1, <2>2, <2>3, <2>4, <2>5 DEF Unused, FactorInv, record
<1>3. CASE ~Factor!Matches(memory.secret, code, memory.lastStep)
  <2>1. record = [memory EXCEPT !.recovery = @ \ {code}] /\ code \in memory.recovery
    BY <1>3 DEF Factor!Used, Factor!Works
  <2>2. /\ record.secret = memory.secret /\ record.pending = memory.pending /\ record.recovery = memory.recovery \ {code}
        /\ record.lastStep = memory.lastStep /\ record \in Factor!Records
    BY <1>1, <2>1, RecordFacts DEF Factor!Records
  <2>3. "step" \notin DOMAIN code
    BY <1>1, <2>1, RecordFacts
  <2>4. code.secret = memory.secret
    BY <2>1 DEF Unused, FactorInv
  <2> HIDE DEF record
  <2> QED  BY <2>1, <2>2, <2>3, <2>4 DEF Unused, FactorInv, record
<1> QED  BY <1>2, <1>3

\* What one record is about does not change when another enrolment begins.
LEMMA UnusedLater ==
  ASSUME NEW record, NEW used, NEW last \in Nat, Unused(record, used, last) PROVE Unused(record, used, last + 1)
BY DEF Unused

LEMMA FactorSteps == ASSUME FactorInv, Factor!Next PROVE FactorInv'
<1> USE DEF FactorInv, Factor!TypeOK
<1>c. /\ RecoveryCodes \in Nat /\ FailLimit \in Nat /\ MaxWait \in Nat
      /\ MaxEnrolments \in Nat /\ MaxStep \in Nat /\ MaxFactorFaults \in Nat
  BY FactorConstants
<1>n. Factor!NoFails \in [count : Nat, until : Nat]
  BY DEF Factor!NoFails
<1>1. ASSUME NEW saved \in BOOLEAN, Factor!Begin(saved) PROVE FactorInv'
  <2> DEFINE record == [secret |-> None, pending |-> begun + 1,
                        recovery |-> IF memory = None THEN {} ELSE memory.recovery,
                        lastStep |-> IF memory = None THEN 0 ELSE memory.lastStep]
  <2>1. /\ memory' = record /\ factorDisk' \in {record, factorDisk} /\ begun' = begun + 1 /\ begun' \in 1..MaxEnrolments
        /\ UNCHANGED <<fails, clock, worked, twice>> /\ factorFaults' \in 0..MaxFactorFaults
    BY <1>1, <1>c DEF Factor!Begin, Factor!Persist
  <2>2. record \in Factor!Records
    <3>1. CASE memory = None
      BY <2>1, <3>1, <1>c DEF Factor!Records, Factor!Secrets, Factor!Steps
    <3>2. CASE memory # None
      BY <2>1, <3>2, <1>c, RecordFacts DEF Factor!Records, Factor!Secrets, Factor!Steps
    <3> QED  BY <3>1, <3>2
  <2>3. \A code \in worked : code.secret # begun + 1
    OBVIOUS
  <2>4. Unused(record, worked, begun + 1)
    BY <2>3 DEF Unused
  <2>5. Unused(factorDisk, worked, begun + 1)
    BY UnusedLater
  <2>6. \A code \in worked : code.secret \in 1..begun + 1
    OBVIOUS
  <2> HIDE DEF record
  <2> QED  BY <2>1, <2>2, <2>4, <2>5, <2>6, <1>c
<1>2. ASSUME NEW saved \in BOOLEAN, NEW code \in Factor!Codes, Factor!Confirm(code, saved) PROVE FactorInv'
  <2> DEFINE record == [secret |-> memory.pending, pending |-> None, lastStep |-> code.step,
                        recovery |-> [secret : {memory.pending}, recovery : 1..RecoveryCodes]]
  <2>1. /\ memory' = record /\ factorDisk' = (IF saved THEN record ELSE factorDisk)
        /\ worked' = (IF saved THEN worked \cup {code} ELSE worked)
        /\ UNCHANGED <<fails, clock, begun, twice>> /\ factorFaults' \in 0..MaxFactorFaults
        /\ memory # None /\ memory \in Factor!Records /\ memory.pending # None
        /\ "step" \in DOMAIN code /\ code.secret = memory.pending /\ code.step \in -1..MaxStep + 1
    BY <1>2, <1>c DEF Factor!Confirm, Factor!Persist, Factor!Matches
  <2>2. memory.pending \in 1..begun /\ memory.pending \in 1..MaxEnrolments /\ \A c \in worked : c.secret # memory.pending
    BY <2>1, <1>c DEF Unused
  <2>3. record \in Factor!Records
    BY <2>1, <2>2 DEF Factor!Records, Factor!Secrets, Factor!Steps
  <2>4. code \notin [secret : {memory.pending}, recovery : 1..RecoveryCodes]
    BY <2>1
  <2>5. \A c \in worked \union {code} : c \notin record.recovery
    BY <2>2, <2>4
  <2>6. Unused(record, worked \union {code}, begun) /\ Unused(record, worked, begun)
    BY <2>1, <2>2, <2>5 DEF Unused
  <2> HIDE DEF record
  <2> QED  BY <2>1, <2>2, <2>3, <2>6
<1>3. ASSUME NEW saved \in BOOLEAN, NEW code \in Factor!Codes, Factor!Verify(code, saved) PROVE FactorInv'
  <2>1. CASE Factor!Works(code)
    <3>1. /\ memory' = Factor!Used(code) /\ factorDisk' = (IF saved THEN Factor!Used(code) ELSE factorDisk)
          /\ fails' = (IF saved THEN Factor!NoFails ELSE fails)
          /\ worked' = (IF saved THEN worked \cup {code} ELSE worked)
          /\ twice' = (twice \/ (saved /\ code \in worked))
          /\ UNCHANGED <<clock, begun>> /\ factorFaults' \in 0..MaxFactorFaults
          /\ memory # None /\ memory.secret # None
      BY <1>3, <2>1, <1>c DEF Factor!Verify, Factor!Persist, Factor!Enabled
    <3>2. /\ code \notin worked /\ code.secret \in 1..begun /\ Factor!Used(code) \in Factor!Records
          /\ Unused(Factor!Used(code), worked \union {code}, begun)
      BY <2>1, <3>1, UsedFacts
    <3>3. Unused(Factor!Used(code), worked, begun)
      BY <3>2 DEF Unused
    <3> QED  BY <3>1, <3>2, <3>3, <1>n
  <2>2. CASE ~Factor!Works(code)
    <3>1. /\ fails' = [count |-> fails.count + 1, until |-> Factor!WaitAfter(fails.count + 1)]
          /\ UNCHANGED <<memory, factorDisk, worked, twice, factorFaults, clock, begun>>
      BY <1>3, <2>2 DEF Factor!Verify
    <3>2. fails.count + 1 \in Nat /\ fails.until \in Nat /\ clock \in Nat
      BY <1>c
    <3>3. Factor!WaitAfter(fails.count + 1) \in Nat
      BY <3>2, WaitIsBounded
    <3> QED  BY <3>1, <3>2, <3>3
  <2> QED  BY <2>1, <2>2
<1>4. ASSUME NEW saved \in BOOLEAN, NEW code \in Factor!Codes \cup {None}, Factor!Disable(code, saved) PROVE FactorInv'
  <2>1. /\ memory' = None /\ fails' = Factor!NoFails /\ UNCHANGED <<clock, begun>> /\ factorFaults' \in 0..MaxFactorFaults
        /\ factorDisk' = (IF saved THEN None ELSE IF code # None THEN Factor!Used(code) ELSE factorDisk)
        /\ worked' = (IF code # None THEN worked \cup {code} ELSE worked)
        /\ twice' = (twice \/ (code # None /\ code \in worked))
    BY <1>4, <1>c DEF Factor!Disable
  <2>2. CASE code = None
    BY <2>1, <2>2, <1>n DEF Unused
  <2>3. CASE code # None
    <3>1. /\ code \notin worked /\ code.secret \in 1..begun /\ Factor!Used(code) \in Factor!Records
          /\ Unused(Factor!Used(code), worked \union {code}, begun)
      BY <1>4, <2>3, UsedFacts DEF Factor!Disable, Factor!Enabled
    <3> QED  BY <2>1, <2>3, <3>1, <1>n DEF Unused
  <2> QED  BY <2>2, <2>3
<1>5. ASSUME Factor!Tick PROVE FactorInv'
  BY <1>5, <1>c DEF Factor!Tick
<1>6. ASSUME Factor!Restart PROVE FactorInv'
  BY <1>6, <1>c, <1>n DEF Factor!Restart
<1> QED  BY <1>1, <1>2, <1>3, <1>4, <1>5, <1>6 DEF Factor!Next

\* The codes work once, and the file knows every code that let somebody in.
LEMMA FactorHolds == ASSUME FactorInv PROVE Factor!TypeOK /\ Factor!CodesWorkOnce /\ Factor!NothingUsedOnDisk
BY DEF FactorInv, Unused, Factor!CodesWorkOnce, Factor!NothingUsedOnDisk

LEMMA FactorStays == ASSUME FactorInv, UNCHANGED factorVars PROVE FactorInv'
BY DEF factorVars, FactorInv, Factor!TypeOK

-----------------------------------------------------------------------------
(* The keys of the login tokens *)

\* A set of keys that were made, one of them active at most.
Keyring(ks, last) ==
  /\ ks \in SUBSET Jwt!Keys
  /\ \A k \in ks : k.kid <= last /\ k.created <= MaxSeconds + last
  /\ \A k, l \in Jwt!Active(ks) : k = l

\* It has the key of a token for as long as the token lives.
Covers(ks, t) == \E k \in ks : k.kid = t.kid /\ (k.retired = None \/ t.exp <= k.retired + Overlap)
Lasts(t) == t.alg = "EdDSA" /\ t.sound /\ seconds < t.exp

KeyInv ==
  /\ Jwt!TypeOK
  /\ Keyring(Jwt!Load, keysMade) /\ Keyring(keyFile, keysMade)
  /\ \A t \in tokens : t.exp <= seconds + Lifetime /\ (Lasts(t) => Covers(Jwt!Load, t) /\ Covers(keyFile, t))

LEMMA KeyConstants ==
  /\ Lifetime \in Nat /\ Overlap \in Nat /\ MaxSeconds \in Nat /\ MaxMade \in Nat /\ MaxTokens \in Nat /\ MaxKeyFaults \in Nat
  /\ None \notin Nat /\ Lifetime <= Overlap /\ 1 \in 0..MaxSeconds
BY AccessAssumption DEF AccessAssumption

LEMMA KeyFacts ==
  ASSUME NEW k \in Jwt!Keys
  PROVE  /\ k = [kid |-> k.kid, created |-> k.created, retired |-> k.retired]
         /\ k.kid \in 1..MaxMade /\ k.created \in 0..MaxSeconds + MaxMade /\ k.retired \in 0..MaxSeconds \union {None}
         /\ k.retired # None => k.retired \in Nat
BY KeyConstants DEF Jwt!Keys

\* A bounded set of numbers has a greatest.
LEMMA MaxFacts ==
  ASSUME NEW S \in SUBSET Nat, NEW n \in Nat, S # {}, \A i \in S : i <= n
  PROVE  Jwt!Max(S) \in S /\ \A i \in S : i <= Jwt!Max(S)
<1> DEFINE T == {i \in 0..n : n - i \in S}
<1>1. T \in SUBSET Nat /\ T # {}
  <2>1. PICK i \in S : TRUE
    OBVIOUS
  <2>2. n - i \in 0..n /\ n - (n - i) = i
    BY <2>1
  <2>3. n - i \in T
    BY <2>1, <2>2
  <2>4. T \in SUBSET Nat
    OBVIOUS
  <2> HIDE DEF T
  <2> QED  BY <2>3, <2>4
<1> HIDE DEF T
<1>2. IsWellFoundedOn(OpToRel(<, Nat), Nat)
  BY NatLessThanWellFounded
<1>3. PICK least \in T : \A j \in T : <<j, least>> \notin OpToRel(<, Nat)
  BY <1>1, <1>2, WFMin
<1>4. \A j \in T : ~(j < least)
  BY <1>1, <1>3 DEF OpToRel
<1>5. n - least \in S
  BY DEF T
<1>6. \A i \in S : i <= n - least
  <2> TAKE i \in S
  <2>1. n - i \in 0..n /\ n - (n - i) = i /\ i \in Nat
    OBVIOUS
  <2>2. n - i \in T
    BY <2>1 DEF T
  <2>3. ~(n - i < least) /\ least \in Nat
    BY <1>1, <1>4, <2>2
  <2> QED  BY <2>1, <2>3
<1>7. \E m \in S : \A i \in S : m >= i
  BY <1>5, <1>6
<1> QED  BY <1>7 DEF Jwt!Max

\* A new key is a key, and is not older than the bound.
LEMMA FreshFacts ==
  ASSUME seconds \in 0..MaxSeconds, keysMade \in Nat, keysMade < MaxMade,
         NEW ks \in SUBSET Jwt!Keys, \A k \in ks : k.created <= MaxSeconds + keysMade
  PROVE  /\ Jwt!Fresh(ks) \in Jwt!Keys /\ Jwt!Fresh(ks).retired = None
         /\ Jwt!Fresh(ks).kid = keysMade + 1 /\ Jwt!Fresh(ks).created <= MaxSeconds + keysMade + 1
<1> DEFINE S == {0} \cup {k.created : k \in ks}
           T == {seconds, Jwt!Newest(ks) + 1}
<1>1. S \in SUBSET Nat /\ S # {} /\ \A i \in S : i <= MaxSeconds + keysMade
  BY KeyConstants, KeyFacts
<1>2. Jwt!Max(S) \in S
  <2> HIDE DEF S
  <2>1. MaxSeconds + keysMade \in Nat
    BY KeyConstants
  <2> QED  BY <1>1, <2>1, MaxFacts
<1>3. Jwt!Newest(ks) \in Nat /\ Jwt!Newest(ks) <= MaxSeconds + keysMade
  BY <1>1, <1>2 DEF Jwt!Newest
<1>4. T \in SUBSET Nat /\ T # {} /\ \A i \in T : i <= MaxSeconds + keysMade + 1
  BY <1>3, KeyConstants
<1>5. Jwt!Max(T) \in T
  <2> HIDE DEF T
  <2>1. MaxSeconds + keysMade + 1 \in Nat
    BY KeyConstants
  <2> QED  BY <1>4, <2>1, MaxFacts
<1>6. Jwt!Fresh(ks) = [kid |-> keysMade + 1, created |-> Jwt!Max(T), retired |-> None]
  BY DEF Jwt!Fresh
<1>7. keysMade + 1 \in 1..MaxMade /\ Jwt!Max(T) \in 0..MaxSeconds + MaxMade /\ Jwt!Max(T) <= MaxSeconds + keysMade + 1
  <2>1. Jwt!Max(T) \in Nat /\ Jwt!Max(T) <= MaxSeconds + keysMade + 1
    <3> HIDE DEF T
    <3> QED  BY <1>4, <1>5
  <2>2. MaxSeconds \in Nat /\ MaxMade \in Nat
    BY KeyConstants
  <2> HIDE DEF T
  <2> QED  BY <2>1, <2>2
<1> HIDE DEF T
<1> QED  BY <1>6, <1>7 DEF Jwt!Keys

\* A key more, beside none that is active.
LEMMA KeyringGrows ==
  ASSUME NEW last \in Nat, NEW ks, Keyring(ks, last), Jwt!Active(ks) = {},
         NEW k \in Jwt!Keys, k.kid = last + 1, k.created <= MaxSeconds + last + 1, MaxSeconds \in Nat
  PROVE  Keyring(ks \union {k}, last + 1)
<1>1. \A l \in ks : l.kid <= last + 1 /\ l.created <= MaxSeconds + (last + 1)
  <2> TAKE l \in ks
  <2>1. l.kid \in Int /\ l.created \in Int /\ l.kid <= last /\ l.created <= MaxSeconds + last
    BY DEF Keyring, Jwt!Keys
  <2> QED  BY <2>1
<1>2. k.kid <= last + 1 /\ k.created <= MaxSeconds + (last + 1)
  <2>1. k.created \in Int
    BY DEF Jwt!Keys
  <2> QED  BY <2>1
<1> QED  BY <1>1, <1>2 DEF Keyring, Jwt!Active

LEMMA KeyringPart == ASSUME NEW last, NEW ks, Keyring(ks, last), NEW some \in SUBSET ks PROVE Keyring(some, last)
BY DEF Keyring, Jwt!Active

\* What is live of a keyring has the key of every token that lives.
LEMMA LiveCovers ==
  ASSUME seconds \in 0..MaxSeconds, NEW ks \in SUBSET Jwt!Keys, NEW t, t.exp \in Nat, seconds < t.exp, Covers(ks, t)
  PROVE  Covers(Jwt!Live(ks), t)
<1>1. PICK k \in ks : k.kid = t.kid /\ (k.retired = None \/ t.exp <= k.retired + Overlap)
  BY DEF Covers
<1>2. k.retired = None \/ k.retired \in Nat
  BY KeyFacts
<1>3. k \in Jwt!Live(ks)
  BY <1>1, <1>2, KeyConstants DEF Jwt!Live
<1> QED  BY <1>1, <1>3 DEF Covers

\* The keys that are written, whichever of memory and file are changed, are a keyring that covers what lives.
LEMMA KeysWritten ==
  ASSUME KeyInv, NEW ks, Jwt!Persisted(ks),
         keysMade' \in keysMade..MaxMade, Keyring(ks, keysMade'), UNCHANGED seconds,
         \A t \in tokens : Lasts(t) => Covers(ks, t)
  PROVE  /\ keys' \in {ks, Jwt!Load} /\ keys' \in SUBSET Jwt!Keys /\ Keyring(keys', keysMade')
         /\ keyFile' \in {ks, keyFile} /\ keyFile' \in SUBSET Jwt!Keys
         /\ keyFaults' \in keyFaults..MaxKeyFaults
         /\ keyFaults' = keyFaults => keys' = ks /\ keyFile' = ks
         /\ Keyring(Jwt!Load, keysMade)' /\ Keyring(keyFile, keysMade)'
         /\ \A t \in tokens : Lasts(t)' => Covers(Jwt!Load, t)' /\ Covers(keyFile, t)'
<1>1. keyFaults \in 0..MaxKeyFaults /\ MaxKeyFaults \in Nat /\ keysMade \in Nat /\ keysMade' \in Nat
  BY KeyConstants DEF KeyInv, Jwt!TypeOK
<1>2. /\ keys' \in {ks, Jwt!Load} /\ keyFile' \in {ks, keyFile}
      /\ keyFaults' \in keyFaults..MaxKeyFaults /\ (keyFaults' = keyFaults => keys' = ks /\ keyFile' = ks)
  BY <1>1 DEF Jwt!Persisted
<1>3. Jwt!Load' \in {ks, Jwt!Load, keyFile}
  BY <1>2 DEF Jwt!Load
<1>4. ASSUME NEW some, Keyring(some, keysMade) PROVE Keyring(some, keysMade')
  <2>1. \A k \in some : k.kid \in Int /\ k.created \in Int
    BY <1>4 DEF Keyring, Jwt!Keys
  <2> QED  BY <1>1, <1>4, <2>1, KeyConstants DEF Keyring
<1>5. Keyring(Jwt!Load, keysMade') /\ Keyring(keyFile, keysMade')
  BY <1>4 DEF KeyInv
<1>6. /\ Keyring(Jwt!Load', keysMade') /\ Keyring(keyFile', keysMade')
      /\ keys' \in SUBSET Jwt!Keys /\ Keyring(keys', keysMade')
  <2>1. Keyring(keys', keysMade')
    BY <1>2, <1>5
  <2> QED  BY <1>2, <1>3, <1>5, <2>1 DEF Keyring
<1>7. \A t \in tokens : Lasts(t) => Covers(ks, t) /\ Covers(Jwt!Load, t) /\ Covers(keyFile, t)
  BY DEF KeyInv
<1>8. \A t \in tokens : Lasts(t) => Covers(Jwt!Load', t) /\ Covers(keyFile', t)
  BY <1>2, <1>3, <1>7
<1>9. \A t \in tokens : Lasts(t)' => Covers(Jwt!Load, t)' /\ Covers(keyFile, t)'
  BY <1>8 DEF Lasts, Covers, Jwt!Load
<1>10. Keyring(Jwt!Load, keysMade)' /\ Keyring(keyFile, keysMade)'
  BY <1>6 DEF Keyring, Jwt!Load, Jwt!Active
<1> QED  BY <1>2, <1>6, <1>9, <1>10 DEF Keyring

\* A first key is made when none is active; what fails leaves a keyring in the memory and one in the file.
LEMMA EnsureActiveFacts ==
  ASSUME KeyInv, Jwt!EnsureActive, UNCHANGED seconds
  PROVE  /\ keys' \in SUBSET Jwt!Keys /\ keyFile' \in SUBSET Jwt!Keys /\ Keyring(keys', keysMade')
         /\ keysMade' \in 0..MaxMade /\ keyFaults' \in 0..MaxKeyFaults /\ ~(keyFaults' < keyFaults)
         /\ keyFaults' = keyFaults => Jwt!Active(keys') # {}
         /\ Keyring(Jwt!Load, keysMade)' /\ Keyring(keyFile, keysMade)'
         /\ \A t \in tokens : Lasts(t)' => Covers(Jwt!Load, t)' /\ Covers(keyFile, t)'
<1> DEFINE live == Jwt!Live(Jwt!Load)
           first == [Jwt!Fresh({}) EXCEPT !.created = seconds]
<1>1. /\ Keyring(Jwt!Load, keysMade) /\ Jwt!Load \in SUBSET Jwt!Keys /\ live \in SUBSET Jwt!Load /\ Keyring(live, keysMade)
      /\ keysMade \in 0..MaxMade /\ MaxMade \in Nat /\ seconds \in 0..MaxSeconds /\ MaxSeconds \in Nat
      /\ keyFaults \in 0..MaxKeyFaults /\ MaxKeyFaults \in Nat
  <2>1. Keyring(Jwt!Load, keysMade) /\ live \in SUBSET Jwt!Load
    BY DEF KeyInv, Jwt!Live
  <2>2. Keyring(live, keysMade)
    BY <2>1, KeyringPart
  <2> QED  BY <2>1, <2>2, KeyConstants DEF KeyInv, Jwt!TypeOK, Keyring
<1>2. \A t \in tokens : Lasts(t) => Covers(live, t)
  <2> TAKE t \in tokens
  <2> HAVE Lasts(t)
  <2>1. t.exp \in Nat /\ seconds < t.exp /\ Covers(Jwt!Load, t)
    BY DEF KeyInv, Jwt!TypeOK, Lasts
  <2> QED  BY <1>1, <2>1, LiveCovers
<1>3. CASE Jwt!Active(live) # {}
  <2>1. Jwt!Kept = live /\ keysMade' = keysMade
    BY <1>3 DEF Jwt!Kept, Jwt!EnsureActive
  <2>2. CASE Jwt!Kept = Jwt!Load
    <3>1. keys' = Jwt!Load /\ UNCHANGED <<keyFile, keyFaults>>
      BY <2>2 DEF Jwt!EnsureActive
    <3>2. Jwt!Load' \in {Jwt!Load, keyFile}
      BY <3>1 DEF Jwt!Load
    <3>3. Keyring(Jwt!Load, keysMade)' /\ Keyring(keyFile, keysMade)'
      <4>1. Keyring(Jwt!Load', keysMade) /\ Keyring(keyFile, keysMade)
        BY <3>2 DEF KeyInv
      <4> QED  BY <4>1, <2>1, <3>1 DEF Keyring, Jwt!Active
    <3>4. \A t \in tokens : Lasts(t) => Covers(Jwt!Load', t) /\ Covers(keyFile, t)
      BY <3>2 DEF KeyInv
    <3>5. \A t \in tokens : Lasts(t)' => Covers(Jwt!Load, t)' /\ Covers(keyFile, t)'
      BY <3>1, <3>4 DEF Lasts, Covers
    <3>6. Keyring(keys', keysMade')
      BY <1>1, <2>1, <3>1
    <3> QED  BY <1>1, <1>3, <2>1, <2>2, <3>1, <3>3, <3>5, <3>6 DEF KeyInv, Jwt!TypeOK
  <2>3. CASE Jwt!Kept # Jwt!Load
    <3>1. Jwt!Persisted(live)
      BY <2>1, <2>3 DEF Jwt!EnsureActive
    <3>2. keysMade' \in keysMade..MaxMade /\ Keyring(live, keysMade')
      BY <1>1, <2>1
    <3> HIDE DEF live
    <3> QED  BY <1>1, <1>2, <1>3, <3>1, <3>2, KeysWritten
  <2> QED  BY <2>2, <2>3
<1>4. CASE Jwt!Active(live) = {}
  <2>1. Jwt!Kept = live \union {first} /\ keysMade' = keysMade + 1 /\ keysMade < MaxMade
    BY <1>4 DEF Jwt!Kept, Jwt!EnsureActive
  <2>2. first \in Jwt!Keys /\ first.retired = None /\ first.kid = keysMade + 1 /\ first.created = seconds
    <3>1. Jwt!Fresh({}) \in Jwt!Keys /\ Jwt!Fresh({}).retired = None /\ Jwt!Fresh({}).kid = keysMade + 1
      BY <1>1, <2>1, FreshFacts
    <3> QED  BY <1>1, <3>1 DEF Jwt!Keys
  <2>3. Keyring(Jwt!Kept, keysMade + 1)
    <3>1. first.created <= MaxSeconds + keysMade + 1 /\ keysMade \in Nat
      BY <1>1, <2>2
    <3> HIDE DEF first, live
    <3> QED  BY <1>1, <1>4, <2>1, <2>2, <3>1, KeyringGrows
  <2>4. Jwt!Active(Jwt!Kept) # {} /\ Jwt!Kept # Jwt!Load
    <3>1. first \in Jwt!Active(Jwt!Kept)
      BY <2>1, <2>2 DEF Jwt!Active
    <3>2. first \notin Jwt!Load
      <4>1. \A k \in Jwt!Load : k.kid \in Int /\ k.kid <= keysMade
        BY <1>1 DEF Keyring, Jwt!Keys
      <4> HIDE DEF first, live
      <4>2. keysMade \in Int /\ first.kid = keysMade + 1
        BY <1>1, <2>2
      <4> QED  BY <4>1, <4>2
    <3> QED  BY <2>1, <3>1, <3>2
  <2>5. Jwt!Persisted(Jwt!Kept)
    BY <2>4 DEF Jwt!EnsureActive
  <2>6. \A t \in tokens : Lasts(t) => Covers(Jwt!Kept, t)
    BY <1>2, <2>1 DEF Covers
  <2>7. keysMade' \in keysMade..MaxMade /\ keysMade' \in 0..MaxMade /\ Keyring(Jwt!Kept, keysMade')
    BY <1>1, <2>1, <2>3
  <2>8. /\ keys' \in SUBSET Jwt!Keys /\ keyFile' \in SUBSET Jwt!Keys /\ Keyring(keys', keysMade') /\ keyFaults' \in keyFaults..MaxKeyFaults
        /\ keyFaults' = keyFaults => keys' = Jwt!Kept
        /\ Keyring(Jwt!Load, keysMade)' /\ Keyring(keyFile, keysMade)'
        /\ \A t \in tokens : Lasts(t)' => Covers(Jwt!Load, t)' /\ Covers(keyFile, t)'
    BY <2>5, <2>6, <2>7, KeysWritten
  <2> QED  BY <1>1, <2>4, <2>7, <2>8 DEF Jwt!Active
<1> QED  BY <1>3, <1>4

LEMMA KeyStarts == ASSUME Jwt!Init PROVE KeyInv
<1>1. Jwt!TypeOK
  BY KeyConstants DEF Jwt!Init, Jwt!TypeOK
<1>2. Jwt!Load = {}
  BY DEF Jwt!Init, Jwt!Load
<1>3. Keyring({}, keysMade)
  BY DEF Keyring, Jwt!Active
<1> QED  BY <1>1, <1>2, <1>3 DEF Jwt!Init, KeyInv

\* A step that writes no key keeps the tokens that it does not make.
LEMMA TokensStay ==
  ASSUME KeyInv, seconds' \in {seconds, seconds + 1}, UNCHANGED tokens,
         \A t \in tokens : Lasts(t)' => Covers(Jwt!Load, t)' /\ Covers(keyFile, t)'
  PROVE  \A t \in tokens' : t.exp <= seconds' + Lifetime /\ (Lasts(t)' => Covers(Jwt!Load, t)' /\ Covers(keyFile, t)')
<1>1. \A t \in tokens : t.exp \in Nat /\ t.exp <= seconds + Lifetime /\ seconds \in Nat /\ Lifetime \in Nat
  BY KeyConstants DEF KeyInv, Jwt!TypeOK
<1> QED  BY <1>1

\* The memory is dropped or read again; the time goes on.
LEMMA KeysStay ==
  ASSUME KeyInv, UNCHANGED <<keyFile, tokens, keysMade>>, keys' \in {keys, None, keyFile},
         seconds' \in {seconds, seconds + 1}
  PROVE  /\ Keyring(Jwt!Load, keysMade)' /\ Keyring(keyFile, keysMade)'
         /\ \A t \in tokens : Lasts(t)' => Covers(Jwt!Load, t)' /\ Covers(keyFile, t)'
<1>1. Jwt!Load' \in {Jwt!Load, keyFile}
  BY DEF Jwt!Load
<1>2. Keyring(Jwt!Load', keysMade) /\ Keyring(keyFile, keysMade)
  BY <1>1 DEF KeyInv
<1>3. ASSUME NEW t \in tokens, Lasts(t)' PROVE Covers(Jwt!Load', t) /\ Covers(keyFile, t)
  <2>1. t.exp \in Nat /\ seconds \in Nat
    BY DEF KeyInv, Jwt!TypeOK
  <2>2. Lasts(t)
    BY <1>3, <2>1 DEF Lasts
  <2> QED  BY <1>1, <2>2 DEF KeyInv
<1> QED  BY <1>2, <1>3 DEF Keyring, Covers, Jwt!Active

LEMMA KeySteps == ASSUME KeyInv, Jwt!Next PROVE KeyInv'
<1> DEFINE Made == /\ Keyring(Jwt!Load, keysMade)' /\ Keyring(keyFile, keysMade)'
                   /\ \A t \in tokens : Lasts(t)' => Covers(Jwt!Load, t)' /\ Covers(keyFile, t)'
           Tokens == [alg : {"HS256", "EdDSA"}, kid : 0..MaxMade, exp : Nat, sound : BOOLEAN]
<1>t. Jwt!TypeOK /\ \A t \in tokens : t \in Tokens
  BY DEF KeyInv, Jwt!TypeOK
<1>k. /\ MaxMade \in Nat /\ MaxSeconds \in Nat /\ MaxKeyFaults \in Nat /\ Lifetime \in Nat /\ seconds \in Nat
      /\ keysMade \in 0..MaxMade /\ keyFaults \in 0..MaxKeyFaults
  BY <1>t, KeyConstants DEF Jwt!TypeOK
<1>s. ASSUME UNCHANGED <<keyFile, keysMade, tokens>>, seconds' \in {seconds, seconds + 1}, keys' \in {keys, None, keyFile},
             Jwt!TypeOK'
      PROVE  KeyInv'
  <2>1. Made
    BY <1>s, KeysStay
  <2> QED  BY <1>s, <2>1, TokensStay DEF KeyInv
<1>w. ASSUME Made, UNCHANGED <<seconds, tokens>>, Jwt!TypeOK' PROVE KeyInv'
  BY <1>w, TokensStay DEF KeyInv
<1>1. ASSUME Jwt!ChoosePolicy PROVE KeyInv'
  <2>1. /\ Jwt!EnsureActive \/ UNCHANGED <<keys, keyFile, keysMade, keyFaults>>
        /\ UNCHANGED <<up, seconds, tokens>> /\ policy' \in [algorithm : {"HS256", "EdDSA"}, acceptHs256 : BOOLEAN]
    BY <1>1, <1>t DEF Jwt!ChoosePolicy, Jwt!TypeOK
  <2>2. CASE Jwt!EnsureActive
    <3>1. /\ Made /\ keys' \in SUBSET Jwt!Keys /\ keyFile' \in SUBSET Jwt!Keys
          /\ keysMade' \in 0..MaxMade /\ keyFaults' \in 0..MaxKeyFaults
      BY <2>1, <2>2, EnsureActiveFacts
    <3>2. Jwt!TypeOK'
      BY <1>t, <2>1, <3>1 DEF Jwt!TypeOK
    <3> QED  BY <1>w, <2>1, <3>1, <3>2
  <2>3. CASE UNCHANGED <<keys, keyFile, keysMade, keyFaults>>
    <3>1. Jwt!TypeOK'
      BY <1>t, <2>1, <2>3 DEF Jwt!TypeOK
    <3> QED  BY <1>s, <2>1, <2>3, <3>1
  <2> QED  BY <2>1, <2>2, <2>3
<1>2. ASSUME Jwt!Rotate PROVE KeyInv'
  <2> DEFINE Retire(k) == IF k.retired = None THEN [k EXCEPT !.retired = seconds] ELSE k
             retired == {Retire(k) : k \in Jwt!Live(Jwt!Load)}
             ks == retired \union {Jwt!Fresh(retired)}
  <2>1. /\ Jwt!Persisted(ks) /\ keysMade' = keysMade + 1 /\ keysMade < MaxMade
        /\ UNCHANGED <<policy, up, seconds, tokens>>
    BY <1>2 DEF Jwt!Rotate
  <2>2. Keyring(Jwt!Load, keysMade) /\ Jwt!Load \in SUBSET Jwt!Keys /\ seconds \in 0..MaxSeconds
    BY <1>t DEF KeyInv, Keyring, Jwt!TypeOK
  <2>3. \A k \in Jwt!Load : /\ Retire(k) \in Jwt!Keys /\ Retire(k).retired # None /\ Retire(k).kid = k.kid
                            /\ Retire(k).created = k.created
    <3> TAKE k \in Jwt!Load
    <3>1. k \in Jwt!Keys /\ seconds # None
      BY <2>2, <1>k, KeyConstants
    <3> QED  BY <2>2, <3>1, KeyFacts DEF Jwt!Keys
  <2>4. \A k \in retired : k \in Jwt!Keys /\ k.retired # None /\ k.kid <= keysMade /\ k.created <= MaxSeconds + keysMade
    BY <2>2, <2>3 DEF Keyring, Jwt!Live
  <2>5. Keyring(retired, keysMade) /\ Jwt!Active(retired) = {} /\ retired \in SUBSET Jwt!Keys
    <3> HIDE DEF retired
    <3> QED  BY <2>4 DEF Keyring, Jwt!Active
  <2>6. /\ Jwt!Fresh(retired) \in Jwt!Keys /\ Jwt!Fresh(retired).retired = None
        /\ Jwt!Fresh(retired).kid = keysMade + 1 /\ Jwt!Fresh(retired).created <= MaxSeconds + keysMade + 1
    <3> HIDE DEF retired
    <3> QED  BY <1>k, <2>1, <2>2, <2>4, <2>5, FreshFacts
  <2>7. Keyring(ks, keysMade + 1)
    <3> HIDE DEF retired
    <3> QED  BY <1>k, <2>5, <2>6, KeyringGrows
  <2>8. ASSUME NEW t \in tokens, Lasts(t) PROVE Covers(ks, t)
    <3>1. t.exp \in Nat /\ seconds < t.exp /\ t.exp <= seconds + Lifetime /\ Covers(Jwt!Load, t)
      BY <1>t, <2>8 DEF KeyInv, Lasts
    <3>2. PICK k \in Jwt!Live(Jwt!Load) : k.kid = t.kid /\ (k.retired = None \/ t.exp <= k.retired + Overlap)
      BY <2>2, <3>1, LiveCovers DEF Covers
    <3>3. Retire(k) \in ks /\ k \in Jwt!Load /\ k \in Jwt!Keys
      BY <2>2, <3>2 DEF Jwt!Live
    <3>4. t.exp <= seconds + Overlap
      BY <3>1, <1>k, KeyConstants
    <3>5. Retire(k).kid = t.kid /\ t.exp <= Retire(k).retired + Overlap
      BY <3>2, <3>3, <3>4 DEF Jwt!Keys
    <3> HIDE DEF ks, Retire
    <3> QED  BY <3>3, <3>5 DEF Covers
  <2>9. /\ Made /\ keys' \in SUBSET Jwt!Keys /\ keyFile' \in SUBSET Jwt!Keys /\ keyFaults' \in keyFaults..MaxKeyFaults
    <3> HIDE DEF ks
    <3>1. keysMade' \in keysMade..MaxMade
      BY <1>k, <2>1
    <3> QED  BY <2>1, <2>7, <2>8, <3>1, KeysWritten
  <2>10. Jwt!TypeOK'
    <3> HIDE DEF ks
    <3>1. keysMade' \in 0..MaxMade /\ keyFaults' \in 0..MaxKeyFaults
      BY <1>k, <2>1, <2>9
    <3> QED  BY <1>t, <2>1, <2>9, <3>1 DEF Jwt!TypeOK
  <2> QED  BY <1>w, <2>1, <2>9, <2>10
<1>3. ASSUME Jwt!Read PROVE KeyInv'
  <2>1. Jwt!TypeOK' /\ UNCHANGED <<keyFile, keysMade, tokens, seconds>> /\ keys = None /\ keys' = keyFile
    BY <1>3, <1>t DEF Jwt!Read, Jwt!TypeOK
  <2> QED  BY <1>s, <2>1
<1>4. ASSUME Jwt!Sign PROVE KeyInv'
  <2>1. CASE policy.algorithm = "HS256"
    <3> DEFINE token == [alg |-> "HS256", kid |-> 0, exp |-> seconds + Lifetime, sound |-> TRUE]
    <3>1. /\ tokens' = tokens \cup {token}
          /\ UNCHANGED <<keys, keyFile, keysMade, keyFaults, policy, up, seconds>>
      BY <1>4, <2>1 DEF Jwt!Sign
    <3>2. token \in Tokens /\ ~Lasts(token) /\ token.exp <= seconds + Lifetime
      BY <1>k DEF Lasts
    <3> HIDE DEF token
    <3>3. Jwt!TypeOK'
      BY <1>t, <3>1, <3>2 DEF Jwt!TypeOK
    <3>4. Keyring(Jwt!Load, keysMade)' /\ Keyring(keyFile, keysMade)'
      BY <3>1 DEF KeyInv, Keyring, Jwt!Load, Jwt!Active
    <3>5. \A t \in tokens' : t.exp <= seconds' + Lifetime /\ (Lasts(t) => Covers(Jwt!Load, t) /\ Covers(keyFile, t))
      BY <3>1, <3>2 DEF KeyInv
    <3>6. \A t \in tokens' : Lasts(t)' => Covers(Jwt!Load, t)' /\ Covers(keyFile, t)'
      BY <3>1, <3>5 DEF Lasts, Covers, Jwt!Load
    <3> QED  BY <3>3, <3>4, <3>5, <3>6 DEF KeyInv
  <2>2. CASE policy.algorithm # "HS256"
    <3> DEFINE signer == Jwt!ActiveOf(keys')
               token == [alg |-> "EdDSA", kid |-> signer.kid, exp |-> seconds + Lifetime, sound |-> signer \in keyFile']
    <3>1. Jwt!EnsureActive /\ UNCHANGED <<policy, up, seconds>> /\ tokens' = (IF keyFaults' > keyFaults THEN tokens ELSE tokens \cup {token})
      BY <1>4, <2>2 DEF Jwt!Sign
    <3>2. /\ Made /\ keys' \in SUBSET Jwt!Keys /\ keyFile' \in SUBSET Jwt!Keys /\ Keyring(keys', keysMade')
          /\ keysMade' \in 0..MaxMade /\ keyFaults' \in 0..MaxKeyFaults /\ ~(keyFaults' < keyFaults)
          /\ keyFaults' = keyFaults => Jwt!Active(keys') # {}
      BY <3>1, EnsureActiveFacts
    <3>3. CASE tokens' = tokens
      <4>1. Jwt!TypeOK'
        BY <1>t, <3>1, <3>2, <3>3 DEF Jwt!TypeOK
      <4> QED  BY <1>w, <3>1, <3>2, <3>3, <4>1
    <3>4. CASE tokens' # tokens
      <4>1. tokens' = tokens \cup {token} /\ keyFaults' = keyFaults
        BY <3>1, <3>2, <3>4, <1>k
      <4>2. signer \in Jwt!Active(keys') /\ signer \in keys' /\ signer \in Jwt!Keys /\ signer.retired = None
        <5>1. PICK k \in Jwt!Active(keys') : TRUE
          BY <3>2, <4>1
        <5>2. (\A l \in Jwt!Active(keys') : l = k) /\ k \in keys' /\ k \in Jwt!Keys /\ k.retired = None /\ k.created \in Nat
          BY <3>2, <5>1, <1>k DEF Keyring, Jwt!Active, Jwt!Keys
        <5>3. \A l \in Jwt!Active(keys') : l.created <= k.created
          BY <5>2
        <5>4. signer \in Jwt!Active(keys')
          BY <5>1, <5>3 DEF Jwt!ActiveOf
        <5> HIDE DEF signer
        <5> QED  BY <5>2, <5>4
      <4>3. token \in Tokens /\ token.exp <= seconds + Lifetime
        <5> HIDE DEF signer
        <5> QED  BY <1>k, <4>2 DEF Jwt!Keys
      <4>4. PICK t : t = token
        OBVIOUS
      <4>5. t \in Tokens /\ t.exp <= seconds + Lifetime /\ t.kid = signer.kid /\ (t.sound <=> signer \in keyFile')
        BY <4>3, <4>4
      <4>6. tokens' = tokens \cup {t}
        BY <4>1, <4>4
      <4> HIDE DEF signer, token
      <4>7. Covers(keys', t) /\ (t.sound => Covers(keyFile', t)) /\ Jwt!Load' \in {keys', keyFile'}
        BY <4>2, <4>5 DEF Covers, Jwt!Load
      <4>8. Lasts(t)' => Covers(Jwt!Load, t)' /\ Covers(keyFile, t)'
        BY <4>7 DEF Lasts, Covers
      <4>9. Jwt!TypeOK'
        <5>1. tokens' \in SUBSET Tokens
          BY <1>t, <4>5, <4>6
        <5> QED  BY <1>t, <3>1, <3>2, <5>1 DEF Jwt!TypeOK
      <4>10. \A u \in tokens' : u.exp <= seconds' + Lifetime /\ (Lasts(u)' => Covers(Jwt!Load, u)' /\ Covers(keyFile, u)')
        BY <3>1, <3>2, <4>5, <4>6, <4>8 DEF KeyInv
      <4> QED  BY <3>2, <4>9, <4>10 DEF KeyInv
    <3> QED  BY <3>3, <3>4
  <2> QED  BY <2>1, <2>2
<1>5. ASSUME Jwt!Start PROVE KeyInv'
  <2>1. /\ Jwt!EnsureActive \/ UNCHANGED <<keys, keyFile, keysMade, keyFaults>>
        /\ UNCHANGED <<policy, seconds, tokens>> /\ up' \in BOOLEAN
    BY <1>5 DEF Jwt!Start
  <2>2. CASE Jwt!EnsureActive
    <3>1. /\ Made /\ keys' \in SUBSET Jwt!Keys /\ keyFile' \in SUBSET Jwt!Keys
          /\ keysMade' \in 0..MaxMade /\ keyFaults' \in 0..MaxKeyFaults
      BY <2>1, <2>2, EnsureActiveFacts
    <3>2. Jwt!TypeOK'
      BY <1>t, <2>1, <3>1 DEF Jwt!TypeOK
    <3> QED  BY <1>w, <2>1, <3>1, <3>2
  <2>3. CASE UNCHANGED <<keys, keyFile, keysMade, keyFaults>>
    <3>1. Jwt!TypeOK'
      BY <1>t, <2>1, <2>3 DEF Jwt!TypeOK
    <3> QED  BY <1>s, <2>1, <2>3, <3>1
  <2> QED  BY <2>1, <2>2, <2>3
<1>6. ASSUME Jwt!Stop PROVE KeyInv'
  <2>1. Jwt!TypeOK' /\ UNCHANGED <<keyFile, keysMade, tokens, seconds>> /\ keys' = None
    BY <1>6, <1>t DEF Jwt!Stop, Jwt!TypeOK
  <2> QED  BY <1>s, <2>1
<1>7. ASSUME Jwt!Tick PROVE KeyInv'
  <2>1. Jwt!TypeOK' /\ UNCHANGED <<keys, keyFile, keysMade, tokens>> /\ seconds' = seconds + 1
    BY <1>7, <1>t, <1>k DEF Jwt!Tick, Jwt!TypeOK
  <2> QED  BY <1>s, <2>1
<1> QED  BY <1>1, <1>2, <1>3, <1>4, <1>5, <1>6, <1>7 DEF Jwt!Next

\* The parts count as this module does.
LEMMA SameCount == ASSUME NEW S PROVE Jwt!Cardinality(S) = Cardinality(S) /\ Limit!Cardinality(S) = Cardinality(S)
BY DEF Jwt!Cardinality, Limit!Cardinality, Cardinality

LEMMA KeyHolds == ASSUME KeyInv PROVE Jwt!TypeOK /\ Jwt!OneKeySigns /\ Jwt!TokensLive
<1>1. ASSUME NEW ks, Keyring(ks, keysMade) PROVE Cardinality(Jwt!Active(ks)) <= 1
  <2>1. CASE Jwt!Active(ks) = {}
    BY <2>1, FS_EmptySet
  <2>2. CASE Jwt!Active(ks) # {}
    <3>1. PICK k : k \in Jwt!Active(ks)
      BY <2>2
    <3>2. Jwt!Active(ks) = {k}
      BY <1>1, <3>1 DEF Keyring
    <3>3. Cardinality({k}) = 1
      BY FS_Singleton
    <3> QED  BY <3>2, <3>3
  <2> QED  BY <2>1, <2>2
<1>2. Jwt!OneKeySigns
  BY <1>1, SameCount DEF KeyInv, Jwt!OneKeySigns
<1>3. ASSUME NEW t \in tokens, t.sound, seconds < t.exp,
             IF t.alg = "EdDSA" THEN policy.algorithm = "EdDSA" ELSE policy.acceptHs256
      PROVE  Jwt!Verifies(t)
  <2>1. t.alg \in {"HS256", "EdDSA"} /\ t.exp \in Nat /\ seconds \in 0..MaxSeconds
    BY DEF KeyInv, Jwt!TypeOK
  <2>2. CASE t.alg = "HS256"
    BY <1>3, <2>2 DEF Jwt!Verifies
  <2>3. CASE t.alg = "EdDSA"
    <3>1. Jwt!Load \in SUBSET Jwt!Keys /\ Covers(Jwt!Load, t)
      BY <1>3, <2>3 DEF KeyInv, Keyring, Lasts
    <3>2. Covers(Jwt!Live(Jwt!Load), t)
      BY <1>3, <2>1, <3>1, LiveCovers
    <3> QED  BY <1>3, <2>3, <3>2 DEF Covers, Jwt!Verifies
  <2> QED  BY <2>1, <2>2, <2>3
<1> QED  BY <1>2, <1>3 DEF KeyInv, Jwt!TokensLive

LEMMA KeyStays == ASSUME KeyInv, UNCHANGED keyVars PROVE KeyInv'
BY DEF keyVars, KeyInv, Jwt!TypeOK, Keyring, Covers, Lasts, Jwt!Load, Jwt!Active

-----------------------------------------------------------------------------
(* The limits of requests *)

NowOnes(open) == {o \in open : o.now}
One(o) == IF o.now THEN 1 ELSE 0

\* What the count of sign-ins stands for: failures, and those that are still looked at.
Counted(count, failures, gone, open) ==
  count \in failures + Cardinality(NowOnes(open)) - gone..failures + Cardinality(NowOnes(open))

LimitInv ==
  /\ Limit!TypeOK /\ ~held
  /\ IsFiniteSet(signing)
  /\ \A o, p \in signing : o.id = p.id => o = p
  /\ \A o \in signing : o.now => o.here
  /\ built["signin"] # 0 => Counted(hits["signin"], failed, late, signing)

LEMMA LimitConstants ==
  /\ Window \in Nat /\ MaxMinutes \in Nat /\ MaxHits \in Nat /\ MaxSignIns \in Nat
  /\ \A n \in LimitNumbers : n \in Nat /\ n # 0 /\ n > 0
BY AccessAssumption DEF AccessAssumption

LEMMA LimitFacts ==
  ASSUME LimitInv
  PROVE  /\ minute \in 0..MaxMinutes /\ limiting \in BOOLEAN /\ number \in LimitNumbers
         /\ built \in [Limit!Limiters -> LimitNumbers \union {0}] /\ hits \in [Limit!Limiters -> 0..MaxHits]
         /\ until \in [Limit!Limiters -> 0..MaxMinutes + Window]
         /\ signing \in SUBSET Limit!SignIns /\ Cardinality(signing) <= MaxSignIns /\ Cardinality(signing) \in Nat
         /\ failed \in Nat /\ late \in Nat
         /\ hits["signin"] \in Nat /\ "signin" \in Limit!Limiters
<1>1. Limit!Cardinality(signing) = Cardinality(signing) /\ Cardinality(signing) \in Nat
  BY SameCount, FS_CardinalityType DEF LimitInv
<1>2. "signin" \in Limit!Limiters
  BY DEF Limit!Limiters
<1>3. hits \in [Limit!Limiters -> 0..MaxHits]
  BY DEF LimitInv, Limit!TypeOK
<1>4. hits["signin"] \in Nat
  BY <1>2, <1>3, LimitConstants
<1> QED  BY <1>1, <1>2, <1>4 DEF LimitInv, Limit!TypeOK

LEMMA NowOnesFacts ==
  ASSUME NEW open, IsFiniteSet(open)
  PROVE  IsFiniteSet(NowOnes(open)) /\ Cardinality(NowOnes(open)) \in Nat
<1>1. NowOnes(open) \in SUBSET open
  BY DEF NowOnes
<1> QED  BY <1>1, FS_Subset, FS_CardinalityType

\* While there is room for a sign-in there is an id for it.
LEMMA FreeId ==
  ASSUME NEW most \in Nat, NEW open, IsFiniteSet(open), Cardinality(open) < most
  PROVE  \E i \in 1..most : \A o \in open : o.id # i
<1> SUFFICES ASSUME \A i \in 1..most : \E o \in open : o.id = i PROVE FALSE
  OBVIOUS
<1> DEFINE f == [i \in 1..most |-> CHOOSE o \in open : o.id = i]
<1>1. \A i \in 1..most : f[i] \in open /\ f[i].id = i
  OBVIOUS
<1>2. f \in Injection(1..most, open)
  <2>1. f \in [1..most -> open]
    BY <1>1
  <2>2. \A i, j \in 1..most : f[i] = f[j] => i = j
    BY <1>1
  <2> HIDE DEF f
  <2> QED  BY <2>1, <2>2 DEF Injection, IsInjective
<1>3. Cardinality(1..most) <= Cardinality(open)
  <2> HIDE DEF f
  <2> QED  BY <1>2, FS_Injection
<1>4. Cardinality(1..most) = most
  BY FS_Interval
<1>5. Cardinality(open) \in Nat
  BY FS_CardinalityType
<1> QED  BY <1>3, <1>4, <1>5

LEMMA LimitStarts == ASSUME Limit!Init PROVE LimitInv
<1>1. Limit!Cardinality({}) = 0 /\ IsFiniteSet({})
  BY FS_EmptySet, SameCount
<1>2. 0 \in 0..MaxMinutes /\ 0 \in 0..MaxHits /\ 0 \in 0..MaxMinutes + Window /\ 0 <= MaxSignIns
  BY LimitConstants
<1>3. Limit!TypeOK
  BY <1>1, <1>2 DEF Limit!Init, Limit!TypeOK
<1> QED  BY <1>1, <1>3 DEF Limit!Init, LimitInv, Limit!Limiters

\* A limiter that counts a request stays a limiter.
LEMMA CountFacts ==
  ASSUME LimitInv, NEW l \in Limit!Limiters, Limit!Count(l)
  PROVE  /\ built' \in [Limit!Limiters -> LimitNumbers \union {0}] /\ hits' \in [Limit!Limiters -> 0..MaxHits]
         /\ until' \in [Limit!Limiters -> 0..MaxMinutes + Window]
         /\ \A m \in Limit!Limiters \ {l} : built'[m] = built[m] /\ hits'[m] = hits[m]
         /\ built'[l] = number /\ hits'[l] = Limit!Before(l) + 1
<1>1. Limit!Before(l) \in Nat /\ Limit!Before(l) < MaxHits /\ MaxHits \in Nat
  BY LimitFacts, LimitConstants DEF Limit!Before, Limit!Count
<1>2. Limit!Before(l) + 1 \in 0..MaxHits /\ minute + Window \in 0..MaxMinutes + Window
  BY <1>1, LimitFacts, LimitConstants
<1> QED  BY <1>2, LimitFacts DEF Limit!Count

\* What does not touch the sign-ins.
LEMMA CountStays ==
  ASSUME LimitInv, Limit!TypeOK', ~held', UNCHANGED <<signing, failed, late>>,
         built'["signin"] = built["signin"], hits'["signin"] = hits["signin"]
  PROVE  LimitInv'
<1>1. Counted(hits["signin"], failed, late, signing) <=> Counted(hits["signin"], failed, late, signing)'
  BY DEF Counted, NowOnes
<1>2. (built["signin"] # 0 => Counted(hits["signin"], failed, late, signing))'
  BY <1>1 DEF LimitInv
<1> QED  BY <1>2 DEF LimitInv

\* A request that is no sign-in is counted elsewhere, and no stop is held back by it.
LEMMA RequestKeeps ==
  ASSUME LimitInv, NEW place \in Limit!Places, NEW role \in Limit!Roles, NEW kind \in Limit!Kinds,
         Limit!Request(place, role, kind)
  PROVE  LimitInv'
<1>1. Limit!LimitersOf(kind) \in SUBSET {"stop-all", "api"} /\ {"stop-all", "api"} \in SUBSET Limit!Limiters
  BY DEF Limit!LimitersOf, Limit!Limiters
<1>2. UNCHANGED <<minute, limiting, number, signing, failed, late>> /\ held' = FALSE
  <2>1. CASE kind \in {"stop", "stop-all"} /\ role # "viewer"
    <3>1. Limit!GateAllows(place, kind) /\ Limit!MayCall(role, kind)
      BY <2>1 DEF Limit!GateAllows, Limit!OutsideAllows, Limit!MayCall
    <3>2. Limit!LimitersOf(kind) \in SUBSET (IF kind = "stop-all" /\ limiting THEN {"stop-all"} ELSE {})
      BY <2>1 DEF Limit!LimitersOf
    <3> QED  BY <2>1, <3>1, <3>2 DEF Limit!Request, LimitInv
  <2>2. CASE ~(kind \in {"stop", "stop-all"} /\ role # "viewer")
    BY <2>2 DEF Limit!Request, LimitInv
  <2> QED  BY <2>1, <2>2
<1>3. (\E l \in Limit!LimitersOf(kind) : Limit!Count(l)) \/ UNCHANGED <<built, hits, until>>
  BY DEF Limit!Request, Limit!counts
<1>4. CASE UNCHANGED <<built, hits, until>>
  <2>1. Limit!TypeOK'
    BY <1>2, <1>4 DEF LimitInv, Limit!TypeOK
  <2> QED  BY <1>2, <1>4, <2>1, CountStays
<1>5. CASE \E l \in Limit!LimitersOf(kind) : Limit!Count(l)
  <2>1. PICK l \in Limit!LimitersOf(kind) : Limit!Count(l)
    BY <1>5
  <2>2. l \in Limit!Limiters /\ l # "signin"
    BY <1>1
  <2>3. /\ built' \in [Limit!Limiters -> LimitNumbers \union {0}] /\ hits' \in [Limit!Limiters -> 0..MaxHits]
        /\ until' \in [Limit!Limiters -> 0..MaxMinutes + Window]
        /\ built'["signin"] = built["signin"] /\ hits'["signin"] = hits["signin"]
    BY <2>1, <2>2, CountFacts, LimitFacts
  <2>4. Limit!TypeOK'
    BY <1>2, <2>3 DEF LimitInv, Limit!TypeOK
  <2> QED  BY <1>2, <2>3, <2>4, CountStays
<1> QED  BY <1>3, <1>4, <1>5

\* A sign-in that is no longer looked at.
LEMMA SignInLeaves ==
  ASSUME LimitInv, NEW o \in signing
  PROVE  /\ IsFiniteSet(signing \ {o}) /\ Limit!Cardinality(signing \ {o}) <= MaxSignIns
         /\ signing \ {o} \in SUBSET Limit!SignIns
         /\ Cardinality(NowOnes(signing)) \in Nat
         /\ Cardinality(NowOnes(signing \ {o})) = Cardinality(NowOnes(signing)) - One(o)
<1>1. IsFiniteSet(signing) /\ IsFiniteSet(NowOnes(signing)) /\ Cardinality(NowOnes(signing)) \in Nat
  BY NowOnesFacts DEF LimitInv
<1>2. IsFiniteSet(signing \ {o}) /\ Cardinality(signing \ {o}) = Cardinality(signing) - 1
  BY <1>1, FS_RemoveElement
<1>3. NowOnes(signing \ {o}) = NowOnes(signing) \ {o} /\ (o \in NowOnes(signing) <=> o.now)
  BY DEF NowOnes
<1>4. Cardinality(NowOnes(signing) \ {o})
        = IF o \in NowOnes(signing) THEN Cardinality(NowOnes(signing)) - 1 ELSE Cardinality(NowOnes(signing))
  BY <1>1, FS_RemoveElement
<1>5. Limit!Cardinality(signing \ {o}) <= MaxSignIns
  <2>1. Cardinality(signing) \in Nat /\ Cardinality(signing) <= MaxSignIns /\ MaxSignIns \in Nat
    BY LimitFacts, LimitConstants
  <2> QED  BY <1>2, <2>1, SameCount
<1>6. signing \ {o} \in SUBSET Limit!SignIns
  BY LimitFacts
<1>7. Cardinality(NowOnes(signing \ {o})) = Cardinality(NowOnes(signing)) - One(o)
  <2>1. CASE o.now
    BY <1>3, <1>4, <2>1 DEF One
  <2>2. CASE ~o.now
    BY <1>1, <1>3, <1>4, <2>2 DEF One
  <2> QED  BY <2>1, <2>2
<1> QED  BY <1>1, <1>2, <1>5, <1>6, <1>7

LEMMA SignInSucceedsKeeps ==
  ASSUME LimitInv, NEW o \in signing, Limit!SignInSucceeds(o) PROVE LimitInv'
<1> DEFINE off == o.here /\ hits["signin"] > 0
<1>1. /\ signing' = signing \ {o} /\ UNCHANGED <<minute, limiting, number, built, until, failed, held>>
      /\ hits' = (IF off THEN [hits EXCEPT !["signin"] = @ - 1] ELSE hits)
      /\ late' = (IF off /\ ~o.now THEN late + 1 ELSE late)
  BY DEF Limit!SignInSucceeds
<1>2. hits' \in [Limit!Limiters -> 0..MaxHits] /\ hits'["signin"] = (IF off THEN hits["signin"] - 1 ELSE hits["signin"])
  <2>1. CASE off
    <3>1. hits["signin"] - 1 \in 0..MaxHits
      BY <2>1, LimitFacts, LimitConstants
    <3> QED  BY <1>1, <2>1, <3>1, LimitFacts
  <2>2. CASE ~off
    BY <1>1, <2>2, LimitFacts
  <2> QED  BY <2>1, <2>2
<1>3. late' \in Nat /\ late \in Nat /\ failed \in Nat /\ hits["signin"] \in Nat
  BY <1>1, LimitFacts
<1>4. /\ IsFiniteSet(signing \ {o}) /\ Limit!Cardinality(signing \ {o}) <= MaxSignIns
      /\ signing \ {o} \in SUBSET Limit!SignIns
      /\ Cardinality(NowOnes(signing)) \in Nat
      /\ Cardinality(NowOnes(signing \ {o})) = Cardinality(NowOnes(signing)) - One(o)
  BY SignInLeaves
<1>5. ASSUME Counted(hits["signin"], failed, late, signing) PROVE Counted(hits'["signin"], failed, late', signing \ {o})
  <2>1. o.now => o.here
    BY DEF LimitInv
  <2>2. CASE o.now
    <3>1. Cardinality(NowOnes(signing)) # 0
      <4>1. IsFiniteSet(NowOnes(signing)) /\ o \in NowOnes(signing)
        BY <2>2, NowOnesFacts DEF LimitInv, NowOnes
      <4> QED  BY <4>1, FS_EmptySet
    <3> QED  BY <1>1, <1>2, <1>3, <1>4, <1>5, <2>1, <2>2, <3>1 DEF Counted, One
  <2>3. CASE ~o.now
    BY <1>1, <1>2, <1>3, <1>4, <1>5, <2>3 DEF Counted, One
  <2> QED  BY <2>2, <2>3
<1>6. Limit!TypeOK'
  BY <1>1, <1>2, <1>3, <1>4 DEF LimitInv, Limit!TypeOK
<1> QED  BY <1>1, <1>4, <1>5, <1>6 DEF LimitInv, Counted, NowOnes

LEMMA SignInFailsKeeps ==
  ASSUME LimitInv, NEW o \in signing, Limit!SignInFails(o) PROVE LimitInv'
<1>1. /\ signing' = signing \ {o} /\ UNCHANGED <<minute, limiting, number, built, hits, until, late, held>>
      /\ failed' = IF o.now THEN failed + 1 ELSE failed
  BY DEF Limit!SignInFails, Limit!counts
<1>2. failed' \in Nat /\ late \in Nat /\ failed \in Nat /\ hits["signin"] \in Nat
  BY <1>1, LimitFacts
<1>3. /\ IsFiniteSet(signing \ {o}) /\ Limit!Cardinality(signing \ {o}) <= MaxSignIns
      /\ signing \ {o} \in SUBSET Limit!SignIns
      /\ Cardinality(NowOnes(signing)) \in Nat
      /\ Cardinality(NowOnes(signing \ {o})) = Cardinality(NowOnes(signing)) - One(o)
  BY SignInLeaves
<1>4. ASSUME Counted(hits["signin"], failed, late, signing) PROVE Counted(hits["signin"], failed', late, signing \ {o})
  BY <1>1, <1>2, <1>3, <1>4 DEF Counted, One
<1>5. Limit!TypeOK'
  BY <1>1, <1>2, <1>3 DEF LimitInv, Limit!TypeOK
<1> QED  BY <1>1, <1>3, <1>4, <1>5 DEF LimitInv, Counted, NowOnes

LEMMA SignInRecord ==
  ASSUME NEW o \in Limit!SignIns
  PROVE  /\ o = [id |-> o.id, here |-> o.here, now |-> o.now]
         /\ o.id \in 1..MaxSignIns /\ o.here \in BOOLEAN /\ o.now \in BOOLEAN
BY DEF Limit!SignIns

Others(here, again) == {[id |-> o.id, here |-> o.here /\ ~here, now |-> o.now /\ ~again] : o \in signing}

\* The sign-ins that were there: the limiter that counted one may be gone, and its window over.
LEMMA OthersFacts ==
  ASSUME LimitInv, NEW here, NEW again,
         here \in BOOLEAN, again \in BOOLEAN, here => again, NEW others, others = Others(here, again)
  PROVE  /\ others \in SUBSET Limit!SignIns /\ IsFiniteSet(others) /\ Cardinality(others) <= Cardinality(signing)
         /\ \A p, q \in others : p.id = q.id => p = q
         /\ \A p \in others : (p.now => p.here) /\ \E o \in signing : p.id = o.id
         /\ NowOnes(others) = IF again THEN {} ELSE NowOnes(signing)
         /\ ~again => others = signing
<1> DEFINE Left(o) == [id |-> o.id, here |-> o.here /\ ~here, now |-> o.now /\ ~again]
           f == [o \in signing |-> Left(o)]
<1>0. \A o \in signing : /\ o = [id |-> o.id, here |-> o.here, now |-> o.now] /\ o \in Limit!SignIns
                         /\ o.id \in 1..MaxSignIns /\ o.here \in BOOLEAN /\ o.now \in BOOLEAN
  <2> TAKE o \in signing
  <2>1. o \in Limit!SignIns
    BY LimitFacts
  <2> QED  BY <2>1, SignInRecord
<1>1. \A o \in signing : /\ Left(o) \in Limit!SignIns /\ Left(o).id = o.id
                         /\ (Left(o).now <=> o.now /\ ~again) /\ (Left(o).here <=> o.here /\ ~here)
                         /\ o \in Limit!SignIns /\ (o.now => o.here)
  <2> TAKE o \in signing
  <2>1. Left(o) = [id |-> o.id, here |-> o.here /\ ~here, now |-> o.now /\ ~again]
    OBVIOUS
  <2>2. (o.here /\ ~here) \in BOOLEAN /\ (o.now /\ ~again) \in BOOLEAN
    OBVIOUS
  <2>3. Left(o) \in Limit!SignIns /\ Left(o).id = o.id
    BY <1>0, <2>1, <2>2 DEF Limit!SignIns
  <2>4. (Left(o).now <=> o.now /\ ~again) /\ (Left(o).here <=> o.here /\ ~here)
    BY <2>1
  <2>5. o.now => o.here
    BY DEF LimitInv
  <2> QED  BY <1>0, <2>3, <2>4, <2>5
<1>2. \A o \in signing : ~again => Left(o) = o
  <2> SUFFICES ASSUME NEW o \in signing, ~again PROVE Left(o) = o
    OBVIOUS
  <2>1. Left(o) = [id |-> o.id, here |-> o.here /\ ~here, now |-> o.now /\ ~again]
    OBVIOUS
  <2>2. (o.here /\ ~here) = o.here /\ (o.now /\ ~again) = o.now
    BY <1>0
  <2> QED  BY <1>0, <2>1, <2>2
<1>3. IsFiniteSet(others) /\ Cardinality(others) <= Cardinality(signing)
  <2>1. f \in Surjection(signing, others)
    BY DEF Surjection, Others
  <2> HIDE DEF f
  <2> QED  BY <2>1, FS_Surjection DEF LimitInv
<1>4. \A p \in others : \E o \in signing : p = Left(o)
  BY DEF Others
<1>5. \A o \in signing : Left(o) \in others
  BY DEF Others
<1> HIDE DEF Left, f
<1>6. \A p, q \in others : p.id = q.id => p = q
  BY <1>1, <1>4 DEF LimitInv
<1>7. \A p \in others : (p.now => p.here) /\ \E o \in signing : p.id = o.id
  BY <1>1, <1>4
<1>8. ~again => others = signing
  BY <1>2, <1>4, <1>5
<1>9. NowOnes(others) = IF again THEN {} ELSE NowOnes(signing)
  BY <1>1, <1>4, <1>8 DEF NowOnes
<1> QED  BY <1>1, <1>3, <1>4, <1>6, <1>7, <1>8, <1>9

LEMMA SignInKeeps == ASSUME LimitInv, Limit!SignIn PROVE LimitInv'
<1> DEFINE passed == limiting => Limit!Within("signin")
           again == limiting /\ Limit!Starts("signin")
           here == limiting /\ Limit!Rebuilt("signin")
           id == CHOOSE i \in 1..MaxSignIns : \A o \in signing : o.id # i
           others == Others(here, again)
           comes == [id |-> id, here |-> limiting, now |-> limiting]
<1>1. /\ IF limiting THEN Limit!Count("signin") ELSE UNCHANGED <<built, hits, until>>
      /\ signing' = IF passed THEN others \union {comes} ELSE others
      /\ failed' = (IF again THEN 0 ELSE failed) + (IF passed THEN 0 ELSE 1)
      /\ late' = IF again THEN 0 ELSE late
      /\ UNCHANGED <<minute, limiting, number, held>> /\ Cardinality(signing) < MaxSignIns
  BY SameCount DEF Limit!SignIn, Limit!counts, Others
<1>2. id \in 1..MaxSignIns /\ \A o \in signing : o.id # id
  BY <1>1, FreeId, LimitConstants DEF LimitInv
<1>3. /\ others \in SUBSET Limit!SignIns /\ IsFiniteSet(others) /\ Cardinality(others) <= Cardinality(signing)
      /\ \A p, q \in others : p.id = q.id => p = q
      /\ \A p \in others : (p.now => p.here) /\ \E o \in signing : p.id = o.id
      /\ NowOnes(others) = IF again THEN {} ELSE NowOnes(signing)
      /\ ~again => others = signing
  <2>1. here \in BOOLEAN /\ again \in BOOLEAN /\ (here => again)
    BY DEF Limit!Starts
  <2> HIDE DEF here, again
  <2> QED  BY <2>1, OthersFacts
<1> HIDE DEF id, others
<1>4. /\ comes \in Limit!SignIns /\ comes.id = id /\ comes.now = limiting /\ comes.here = limiting /\ comes \notin others
      /\ \A p \in others : p.id # comes.id
  <2>1. comes \in Limit!SignIns
    BY <1>2, LimitFacts DEF Limit!SignIns
  <2>2. \A p \in others : p.id # id
    BY <1>2, <1>3
  <2> QED  BY <2>1, <2>2
<1> HIDE DEF comes
<1>5. /\ IsFiniteSet(signing') /\ Limit!Cardinality(signing') <= MaxSignIns /\ signing' \in SUBSET Limit!SignIns
      /\ \A p, q \in signing' : p.id = q.id => p = q
      /\ \A p \in signing' : p.now => p.here
  <2>1. Cardinality(others) + 1 <= MaxSignIns /\ Cardinality(others) \in Nat
    <3>1. Cardinality(signing) \in Nat /\ MaxSignIns \in Nat /\ Cardinality(others) \in Nat
      BY <1>3, LimitFacts, LimitConstants, FS_CardinalityType
    <3> QED  BY <1>1, <1>3, <3>1
  <2>2. IsFiniteSet(others \union {comes}) /\ Cardinality(others \union {comes}) = Cardinality(others) + 1
    BY <1>3, <1>4, FS_AddElement
  <2>3. IsFiniteSet(signing') /\ Cardinality(signing') <= MaxSignIns
    <3>1. MaxSignIns \in Nat
      BY LimitConstants
    <3>2. CASE passed
      BY <1>1, <2>1, <2>2, <3>1, <3>2
    <3>3. CASE ~passed
      BY <1>1, <1>3, <2>1, <3>1, <3>3
    <3> QED  BY <3>2, <3>3
  <2>4. Limit!Cardinality(signing') = Cardinality(signing')
    BY SameCount
  <2>5. signing' \in SUBSET (others \union {comes})
    BY <1>1
  <2> QED  BY <1>3, <1>4, <2>3, <2>4, <2>5
<1>6. /\ built' \in [Limit!Limiters -> LimitNumbers \union {0}] /\ hits' \in [Limit!Limiters -> 0..MaxHits]
      /\ until' \in [Limit!Limiters -> 0..MaxMinutes + Window]
  BY <1>1, CountFacts, LimitFacts
<1>7. failed' \in Nat /\ late' \in Nat
  <2> HIDE DEF again, passed
  <2>1. failed \in Nat /\ late \in Nat
    BY LimitFacts
  <2>2. (IF again THEN 0 ELSE failed) \in Nat /\ (IF passed THEN 0 ELSE 1) \in Nat
    BY <2>1
  <2> QED  BY <1>1, <2>1, <2>2
<1>8. Limit!TypeOK'
  BY <1>1, <1>5, <1>6, <1>7 DEF LimitInv, Limit!TypeOK
<1>9. built'["signin"] # 0 => Counted(hits'["signin"], failed', late', signing')
  <2>1. Cardinality(NowOnes(others)) \in Nat /\ IsFiniteSet(NowOnes(others))
    BY <1>3, NowOnesFacts
  <2>2. NowOnes(others \union {comes}) = IF limiting THEN NowOnes(others) \union {comes} ELSE NowOnes(others)
    BY <1>4 DEF NowOnes
  <2>3. Cardinality(NowOnes(others \union {comes})) = Cardinality(NowOnes(others)) + (IF limiting THEN 1 ELSE 0)
    <3>1. comes \notin NowOnes(others)
      BY <1>4 DEF NowOnes
    <3>2. Cardinality(NowOnes(others) \union {comes}) = Cardinality(NowOnes(others)) + 1
      BY <2>1, <3>1, FS_AddElement
    <3>3. limiting \in BOOLEAN
      BY LimitFacts
    <3> HIDE DEF again, passed
    <3> QED  BY <2>1, <2>2, <3>2, <3>3
  <2>4. CASE again
    <3>1. Limit!Before("signin") = 0 /\ passed /\ limiting
      BY <2>4, LimitFacts, LimitConstants DEF Limit!Within, Limit!Before
    <3>2. hits'["signin"] = 1
      BY <1>1, <3>1, CountFacts, LimitFacts
    <3>3. Cardinality(NowOnes(signing')) = 1
      BY <1>1, <1>3, <2>3, <2>4, <3>1, FS_EmptySet
    <3>4. failed' = 0 /\ late' = 0
      BY <1>1, <2>4, <3>1
    <3> HIDE DEF again, passed
    <3> QED  BY <3>2, <3>3, <3>4 DEF Counted
  <2>5. CASE ~again /\ limiting
    <3>1. Limit!Before("signin") = hits["signin"] /\ built["signin"] # 0
      BY <2>5, LimitFacts, LimitConstants DEF Limit!Before, Limit!Starts, Limit!Rebuilt
    <3>2. hits'["signin"] = hits["signin"] + 1 /\ Counted(hits["signin"], failed, late, signing)
      BY <1>1, <2>5, <3>1, CountFacts, LimitFacts DEF LimitInv
    <3>3. others = signing /\ late' = late /\ failed' = failed + (IF passed THEN 0 ELSE 1)
      BY <1>1, <1>3, <2>5, LimitFacts
    <3>4. Cardinality(NowOnes(signing')) = Cardinality(NowOnes(signing)) + (IF passed THEN 1 ELSE 0)
      BY <1>1, <2>1, <2>3, <2>5, <3>3
    <3>5. failed \in Nat /\ late \in Nat /\ hits["signin"] \in Nat /\ Cardinality(NowOnes(signing)) \in Nat
      BY <2>1, <3>3, LimitFacts
    <3> HIDE DEF again, passed
    <3> QED  BY <3>2, <3>3, <3>4, <3>5 DEF Counted
  <2>6. CASE ~limiting
    <3>1. UNCHANGED <<built, hits>> /\ others = signing /\ passed /\ failed' = failed /\ late' = late
      BY <1>1, <1>3, <2>6, LimitFacts
    <3>2. Cardinality(NowOnes(signing')) = Cardinality(NowOnes(signing))
      BY <1>1, <2>1, <2>3, <2>6, <3>1
    <3> HIDE DEF again, passed
    <3> QED  BY <3>1, <3>2 DEF Counted, LimitInv
  <2> QED  BY <2>4, <2>5, <2>6
<1>10. (built["signin"] # 0 => Counted(hits["signin"], failed, late, signing))'
  BY <1>9 DEF Counted, NowOnes
<1> QED  BY <1>1, <1>5, <1>8, <1>10 DEF LimitInv

LEMMA LimitSteps == ASSUME LimitInv, Limit!Next PROVE LimitInv'
<1>1. ASSUME Limit!Configure PROVE LimitInv'
  <2>1. Limit!TypeOK' /\ ~held' /\ UNCHANGED <<signing, failed, late, built, hits>>
    BY <1>1 DEF Limit!Configure, Limit!counts, LimitInv, Limit!TypeOK
  <2> QED  BY <2>1, CountStays
<1>2. ASSUME Limit!Tick PROVE LimitInv'
  <2>1. minute' \in 0..MaxMinutes
    BY <1>2, LimitFacts, LimitConstants DEF Limit!Tick
  <2>2. Limit!TypeOK' /\ ~held' /\ UNCHANGED <<signing, failed, late, built, hits>>
    BY <1>2, <2>1 DEF Limit!Tick, Limit!counts, LimitInv, Limit!TypeOK
  <2> QED  BY <2>2, CountStays
<1> QED  BY <1>1, <1>2, RequestKeeps, SignInKeeps, SignInSucceedsKeeps, SignInFailsKeeps DEF Limit!Next

\* Only failures are counted for good, and no stop is held back.
LEMMA LimitHolds == ASSUME LimitInv PROVE Limit!TypeOK /\ Limit!OnlyFailuresCount /\ Limit!StopsGoThrough
<1>1. Limit!Mine = failed + Cardinality(NowOnes(signing))
  BY SameCount DEF NowOnes, Limit!Mine
<1>2. Limit!OnlyFailuresCount
  <2>1. failed \in Nat /\ late \in Nat /\ hits["signin"] \in Nat /\ Cardinality(NowOnes(signing)) \in Nat
    BY LimitFacts, NowOnesFacts DEF LimitInv
  <2>2. built["signin"] # 0 => Counted(hits["signin"], failed, late, signing)
    BY DEF LimitInv
  <2> QED  BY <1>1, <2>1, <2>2 DEF Counted, Limit!OnlyFailuresCount
<1> QED  BY <1>2 DEF LimitInv, Limit!StopsGoThrough

LEMMA LimitStays == ASSUME LimitInv, UNCHANGED limitVars PROVE LimitInv'
<1>1. Limit!TypeOK' /\ ~held' /\ UNCHANGED <<signing, failed, late, built, hits>>
  BY DEF limitVars, LimitInv, Limit!TypeOK
<1> QED  BY <1>1, CountStays

-----------------------------------------------------------------------------
(* The tickets *)

TicketInv ==
  /\ Limit!TicketTypeOK
  /\ \A t \in tickets : t.at <= now /\ t.until = t.at \div 2 + t.life
  /\ opened # None =>
       (opened.with # None => opened.with.kind = opened.kind /\ now <= opened.with.at + 2 * opened.with.life)

LEMMA TicketConstants ==
  /\ MediaLife \in Nat /\ InfoLife \in Nat /\ MinLife \in Nat /\ LongestLife \in Nat
  /\ MaxHalfSeconds \in Nat /\ MaxTickets \in Nat /\ MaxSecrets \in Nat
  /\ MinLife <= InfoLife /\ InfoLife <= LongestLife /\ MinLife <= MediaLife
  /\ Configured \in SUBSET (Nat \union {None}) /\ Requested \in SUBSET (Nat \union {None}) /\ None \notin Nat
BY AccessAssumption DEF AccessAssumption

\* A half is rounded down.
LEMMA Halves == ASSUME NEW n \in Nat PROVE n \div 2 \in Nat /\ 2 * (n \div 2) <= n /\ n <= 2 * (n \div 2) + 1
OBVIOUS

LEMMA ClampIsBounded ==
  ASSUME NEW value \in Nat \union {None}
  PROVE  /\ Limit!Clamp(value) \in MinLife..LongestLife
         /\ value # None => Limit!Clamp(value) <= Limit!Most(value, MinLife)
         /\ value = None => Limit!Clamp(value) = InfoLife
BY TicketConstants DEF Limit!Clamp, Limit!Least, Limit!Most

\* What is asked for is held within what is configured, and that within the bounds of the program.
LEMMA LifeIsBounded ==
  ASSUME NEW limits \in Limit!Lives, NEW asked \in Requested, NEW admin \in BOOLEAN
  PROVE  /\ Limit!InfoSeconds(limits, asked, admin) \in MinLife..LongestLife
         /\ limits.max # None => Limit!InfoSeconds(limits, asked, admin) <= Limit!Most(limits.max, MinLife)
         /\ ~admin \/ limits.max = None => Limit!InfoSeconds(limits, asked, admin) <= InfoLife
<1> DEFINE own == Limit!InfoTicketSeconds(limits, asked)
           usual == Limit!InfoTicketSeconds([ttl |-> None, max |-> None], None)
<1>1. limits.max \in Nat \union {None} /\ limits.ttl \in Nat \union {None} /\ asked \in Nat \union {None}
  BY TicketConstants DEF Limit!Lives
<1>2. /\ Limit!Clamp(limits.max) \in MinLife..LongestLife /\ Limit!Clamp(limits.ttl) \in MinLife..LongestLife
      /\ limits.max # None => Limit!Clamp(limits.max) <= Limit!Most(limits.max, MinLife)
      /\ limits.max = None => Limit!Clamp(limits.max) = InfoLife
      /\ Limit!Clamp(None) = InfoLife
  BY <1>1, ClampIsBounded
<1>3. own \in MinLife..LongestLife /\ own <= Limit!Clamp(limits.max)
  BY <1>1, <1>2, TicketConstants DEF Limit!InfoTicketSeconds, Limit!Least, Limit!Most
<1>4. usual = InfoLife
  BY <1>2, TicketConstants DEF Limit!InfoTicketSeconds, Limit!Least
<1>5. Limit!InfoSeconds(limits, asked, admin) = IF admin THEN own ELSE Limit!Least(own, usual)
  BY DEF Limit!InfoSeconds
<1>6. limits.max # None => Limit!Most(limits.max, MinLife) \in Nat
  BY <1>1, TicketConstants DEF Limit!Most
<1> HIDE DEF own, usual
<1>7. CASE admin
  BY <1>2, <1>3, <1>5, <1>6, <1>7, TicketConstants
<1>8. CASE ~admin
  BY <1>2, <1>3, <1>4, <1>5, <1>6, <1>8, TicketConstants DEF Limit!Least
<1> QED  BY <1>7, <1>8

LEMMA TicketStarts == ASSUME Limit!TicketInit PROVE TicketInv
BY TicketConstants DEF Limit!TicketInit, TicketInv, Limit!TicketTypeOK, Limit!Options

\* A ticket that is issued.
LEMMA NewTicket ==
  ASSUME TicketInv, NEW kind \in {"media", "info"},
         NEW life \in MinLife..Limit!Most(MediaLife, LongestLife)
  PROVE  /\ Limit!Ticket(kind, life) \in Limit!Tickets
         /\ Limit!Ticket(kind, life).at = now
         /\ Limit!Ticket(kind, life).until = now \div 2 + life /\ Limit!Ticket(kind, life).life = life
<1>1. now \in 0..MaxHalfSeconds /\ now \in Nat /\ secret \in 0..MaxSecrets
  BY TicketConstants DEF TicketInv, Limit!TicketTypeOK
<1>2. life \in Nat
  BY TicketConstants
<1>3. now \div 2 + life \in Nat
  BY <1>1, <1>2, Halves
<1> QED  BY <1>1, <1>3 DEF Limit!Ticket, Limit!Tickets

LEMMA TicketFacts ==
  ASSUME TicketInv, NEW t \in tickets
  PROVE  /\ t.kind \in {"media", "info"} /\ t.until \in Nat /\ t.at \in Nat /\ t.life \in Nat /\ now \in Nat
         /\ 2 * t.until <= t.at + 2 * t.life /\ t.at + 2 * t.life <= 2 * t.until + 1
<1>1. t \in Limit!Tickets /\ now \in 0..MaxHalfSeconds
  BY DEF TicketInv, Limit!TicketTypeOK
<1>2. t.kind \in {"media", "info"} /\ t.until \in Nat /\ t.at \in Nat /\ t.life \in Nat /\ now \in Nat
  BY <1>1, TicketConstants DEF Limit!Tickets
<1>3. t.at \div 2 \in Nat /\ 2 * (t.at \div 2) <= t.at /\ t.at <= 2 * (t.at \div 2) + 1
  BY <1>2, Halves
<1>4. t.until = t.at \div 2 + t.life
  BY DEF TicketInv
<1> QED  BY <1>2, <1>3, <1>4

LEMMA TicketSteps == ASSUME TicketInv, Limit!TicketNext PROVE TicketInv'
<1>t. /\ now \in 0..MaxHalfSeconds /\ secret \in 0..MaxSecrets /\ options \in Limit!Options
      /\ tickets \in SUBSET Limit!Tickets
      /\ opened # None => opened \in [kind : {"media", "info"}, with : tickets \union {None}]
  BY DEF TicketInv, Limit!TicketTypeOK
<1>1. ASSUME Limit!Issue PROVE TicketInv'
  <2>1. PICK kind \in {"media", "info"}, life \in MinLife..Limit!Most(MediaLife, LongestLife) :
          tickets' = tickets \union {Limit!Ticket(kind, life)}
    <3>1. MediaLife \in MinLife..Limit!Most(MediaLife, LongestLife)
      BY TicketConstants DEF Limit!Most
    <3>2. \A life \in MinLife..LongestLife : life \in MinLife..Limit!Most(MediaLife, LongestLife)
      BY TicketConstants DEF Limit!Most
    <3>3. CASE tickets' = tickets \union {Limit!Ticket("media", MediaLife)}
      BY <3>1, <3>3
    <3>4. CASE \E asked \in Requested, admin \in BOOLEAN :
                 tickets' = tickets \union {Limit!Ticket("info", Limit!InfoSeconds(options.limits, asked, admin))}
      <4>1. options.limits \in Limit!Lives
        BY <1>t DEF Limit!Options
      <4>2. \A asked \in Requested, admin \in BOOLEAN :
              Limit!InfoSeconds(options.limits, asked, admin) \in MinLife..LongestLife
        BY <4>1, LifeIsBounded
      <4> QED  BY <3>2, <3>4, <4>2
    <3> QED  BY <1>1, <3>3, <3>4 DEF Limit!Issue
  <2> DEFINE new == Limit!Ticket(kind, life)
  <2>2. new \in Limit!Tickets /\ new.at = now /\ new.until = now \div 2 + life /\ new.life = life
    BY NewTicket
  <2>3. UNCHANGED <<now, secret, options, opened>>
    BY <1>1 DEF Limit!Issue
  <2> HIDE DEF new
  <2>4. tickets' \in SUBSET Limit!Tickets /\ tickets' = tickets \union {new}
    BY <1>t, <2>1, <2>2 DEF new
  <2>5. now <= now
    BY <1>t
  <2> QED  BY <1>t, <2>2, <2>3, <2>4, <2>5 DEF TicketInv, Limit!TicketTypeOK
<1>2. ASSUME Limit!Ask PROVE TicketInv'
  <2>1. PICK kind \in {"media", "info"}, ticket \in tickets \union {None} :
          \/ opened' = None \/ opened' = [kind |-> kind, with |-> None]
          \/ opened' = [kind |-> kind, with |-> ticket] /\ ticket # None /\ Limit!Verifies(kind, ticket)
    BY <1>2 DEF Limit!Ask
  <2>2. UNCHANGED <<now, secret, options, tickets>>
    BY <1>2 DEF Limit!Ask
  <2>3. opened' = None \/ opened' \in [kind : {"media", "info"}, with : tickets \union {None}]
    BY <2>1
  <2>4. ASSUME opened' # None, opened'.with # None
        PROVE  opened'.with.kind = opened'.kind /\ now <= opened'.with.at + 2 * opened'.with.life
    <3>1. opened' = [kind |-> kind, with |-> ticket] /\ ticket \in tickets /\ Limit!Verifies(kind, ticket)
      BY <2>1, <2>4
    <3>2. ticket.kind = kind /\ ticket.until * 2 >= now
      BY <3>1 DEF Limit!Verifies
    <3>3. now <= ticket.at + 2 * ticket.life
      BY <3>1, <3>2, TicketFacts
    <3> QED  BY <3>1, <3>2, <3>3
  <2> QED  BY <1>t, <2>2, <2>3, <2>4 DEF TicketInv, Limit!TicketTypeOK
<1>3. ASSUME Limit!Change PROVE TicketInv'
  <2>1. options' \in Limit!Options
    BY <1>t, <1>3 DEF Limit!Change, Limit!Options
  <2> QED  BY <1>t, <1>3, <2>1 DEF Limit!Change, TicketInv, Limit!TicketTypeOK
<1>4. ASSUME Limit!TicketTick PROVE TicketInv'
  <2>1. now' \in 0..MaxHalfSeconds /\ now' = now + 1 /\ opened' = None /\ UNCHANGED <<secret, options, tickets>>
    BY <1>4, <1>t, TicketConstants DEF Limit!TicketTick
  <2>2. \A t \in tickets : t.at <= now + 1
    <3> TAKE t \in tickets
    <3>1. t.at \in Nat /\ now \in Nat /\ t.at <= now
      BY TicketFacts DEF TicketInv
    <3> QED  BY <3>1
  <2> QED  BY <1>t, <2>1, <2>2 DEF TicketInv, Limit!TicketTypeOK
<1>5. ASSUME Limit!NewSecret PROVE TicketInv'
  <2>1. secret' \in 0..MaxSecrets
    BY <1>5, <1>t, TicketConstants DEF Limit!NewSecret
  <2> QED  BY <1>t, <1>5, <2>1 DEF Limit!NewSecret, TicketInv, Limit!TicketTypeOK
<1> QED  BY <1>1, <1>2, <1>3, <1>4, <1>5 DEF Limit!TicketNext

\* A ticket opens its own kind for its seconds, and lives no longer than it may.
LEMMA TicketHolds ==
  ASSUME TicketInv PROVE Limit!TicketTypeOK /\ Limit!TicketsOpenTheirOwn /\ Limit!LivesAreBounded
<1>1. ASSUME NEW t \in tickets, t.secret = secret, now < t.at + 2 * t.life PROVE Limit!Verifies(t.kind, t)
  <2>1. t.until * 2 >= now
    BY <1>1, TicketFacts
  <2> QED  BY <1>1, <2>1 DEF Limit!Verifies
<1>2. Limit!LivesAreBounded
  BY LifeIsBounded DEF Limit!LivesAreBounded
<1> QED  BY <1>1, <1>2 DEF TicketInv, Limit!TicketsOpenTheirOwn

LEMMA TicketStays == ASSUME TicketInv, UNCHANGED ticketVars PROVE TicketInv'
BY DEF ticketVars, TicketInv, Limit!TicketTypeOK

-----------------------------------------------------------------------------
(* The commands that are relayed *)

\* Until it is answered nothing was done, and it is asked twice at most.
Relayed(c) ==
  /\ stage[c] \in {"sent", "signing"} => tries[c] = 0
  /\ stage[c] = "again" => tries[c] = 1
  /\ stage[c] = "asked" => tries[c] \in {0, 1}
  /\ stage[c] # "answered" => done[c] = 0 /\ reply[c] = "none"
  /\ done[c] \in {0, 1}
  /\ reply[c] = "ok" => done[c] = 1
  /\ reply[c] \in {"refused", "rate-limited", "rejected", "session-expired"} => done[c] = 0

RelayInv ==
  /\ Relay!TypeOK
  /\ \A c \in Relay!Commands : Relayed(c)

LEMMA RelayStarts == ASSUME Relay!Init PROVE RelayInv
<1>1. Rate \in Nat /\ MaxIssued \in Nat /\ Relay!PhoneToken \in 1..Relay!PhoneToken
  BY AccessAssumption DEF AccessAssumption, Relay!PhoneToken
<1>2. 0 \in 0..Relay!PhoneToken /\ 0 \in 0..MaxIssued /\ 0 \in 0..Rate + 1 /\ 2 * Rate \in 0..2 * Rate
  BY <1>1
<1>3. Relay!TypeOK
  BY <1>1, <1>2 DEF Relay!Init, Relay!TypeOK, Relay!Replies
<1> QED  BY <1>3 DEF Relay!Init, RelayInv, Relayed

LEMMA RelaySteps == ASSUME RelayInv, Relay!Next PROVE RelayInv'
<1>c. Rate \in Nat /\ MaxIssued \in Nat /\ Relay!PhoneToken = MaxIssued + 1
  BY AccessAssumption DEF AccessAssumption, Relay!PhoneToken
<1>t. /\ stage \in [Relay!Commands -> {"sent", "signing", "again", "asked", "answered"}]
      /\ holds \in [Relay!Commands -> 0..Relay!PhoneToken]
      /\ tries \in [Relay!Commands -> 0..2] /\ done \in [Relay!Commands -> 0..2]
      /\ reply \in [Relay!Commands -> Relay!Replies]
      /\ cached \in 0..MaxIssued /\ issued \in 0..MaxIssued /\ alive \subseteq 1..Relay!PhoneToken
      /\ window \in 0..(Rate + 1) /\ bucket \in 0..(2 * Rate)
  BY DEF RelayInv, Relay!TypeOK
<1>0. \A c \in Relay!Commands : Relayed(c)
  BY DEF RelayInv
<1>1. ASSUME NEW c \in Relay!Commands, Relay!MqttArrives(c) PROVE RelayInv'
  <2>1. /\ UNCHANGED <<tries, done, bucket, cached, issued, alive>> /\ stage[c] = "sent"
        /\ \/ Relay!Answer(c, "refused") /\ UNCHANGED <<holds, window>>
           \/ Relay!Answer(c, "rate-limited") /\ UNCHANGED holds /\ window' \in {window, window + 1}
           \/ Relay!Travels(c) /\ UNCHANGED reply /\ window' \in {window, window + 1}
        /\ window' \in 0..(Rate + 1)
    BY <1>1, <1>t, <1>c DEF Relay!MqttArrives, Relay!SameAccount
  <2>2. /\ stage' \in [Relay!Commands -> {"sent", "signing", "again", "asked", "answered"}]
        /\ holds' \in [Relay!Commands -> 0..Relay!PhoneToken] /\ reply' \in [Relay!Commands -> Relay!Replies]
        /\ \A d \in Relay!Commands \ {c} : stage'[d] = stage[d] /\ reply'[d] = reply[d]
        /\ \/ stage'[c] = "answered" /\ reply'[c] \in {"refused", "rate-limited"}
           \/ stage'[c] \in {"asked", "signing"} /\ reply'[c] = reply[c]
    BY <2>1, <1>t, <1>c DEF Relay!Answer, Relay!Travels, Relay!Replies
  <2>3. \A d \in Relay!Commands : Relayed(d)'
    BY <1>0, <2>1, <2>2 DEF Relayed
  <2> QED  BY <1>t, <2>1, <2>2, <2>3 DEF RelayInv, Relay!TypeOK
<1>2. ASSUME NEW c \in Relay!Commands, Relay!PhoneArrives(c) PROVE RelayInv'
  <2>1. /\ UNCHANGED <<tries, done, window, cached, issued, alive>> /\ stage[c] = "sent"
        /\ \/ Relay!Answer(c, "refused") /\ UNCHANGED holds
           \/ Relay!Answer(c, "rate-limited") /\ UNCHANGED holds
           \/ /\ stage' = [stage EXCEPT ![c] = "asked"] /\ holds' = [holds EXCEPT ![c] = Relay!PhoneToken]
              /\ UNCHANGED reply
        /\ bucket' \in 0..(2 * Rate)
    BY <1>2, <1>t, <1>c DEF Relay!PhoneArrives, Relay!SameAccount
  <2>2. /\ stage' \in [Relay!Commands -> {"sent", "signing", "again", "asked", "answered"}]
        /\ holds' \in [Relay!Commands -> 0..Relay!PhoneToken] /\ reply' \in [Relay!Commands -> Relay!Replies]
        /\ \A d \in Relay!Commands \ {c} : stage'[d] = stage[d] /\ reply'[d] = reply[d]
        /\ \/ stage'[c] = "answered" /\ reply'[c] \in {"refused", "rate-limited"}
           \/ stage'[c] = "asked" /\ reply'[c] = reply[c]
    BY <2>1, <1>t, <1>c DEF Relay!Answer, Relay!Replies
  <2>3. \A d \in Relay!Commands : Relayed(d)'
    BY <1>0, <2>1, <2>2 DEF Relayed
  <2> QED  BY <1>t, <2>1, <2>2, <2>3 DEF RelayInv, Relay!TypeOK
<1>3. ASSUME NEW c \in Relay!Commands, Relay!SignedIn(c) PROVE RelayInv'
  <2>1. UNCHANGED <<tries, done, window, bucket>> /\ stage[c] \in {"signing", "again"}
    BY <1>3 DEF Relay!SignedIn
  <2>2. /\ stage' \in [Relay!Commands -> {"sent", "signing", "again", "asked", "answered"}]
        /\ holds' \in [Relay!Commands -> 0..Relay!PhoneToken] /\ reply' \in [Relay!Commands -> Relay!Replies]
        /\ cached' \in 0..MaxIssued /\ issued' \in 0..MaxIssued /\ alive' \subseteq 1..Relay!PhoneToken
        /\ \A d \in Relay!Commands \ {c} : stage'[d] = stage[d] /\ reply'[d] = reply[d]
        /\ \/ stage'[c] = "asked" /\ reply'[c] = reply[c]
           \/ stage'[c] = "answered" /\ reply'[c] = "session-expired"
    <3>1. CASE /\ issued < MaxIssued /\ issued' = issued + 1
               /\ alive' = alive \cup {issued'} /\ cached' = issued'
               /\ stage' = [stage EXCEPT ![c] = "asked"] /\ holds' = [holds EXCEPT ![c] = issued']
               /\ UNCHANGED reply
      <4>1. issued' \in 1..MaxIssued /\ issued' \in 0..MaxIssued /\ issued' \in 1..Relay!PhoneToken /\ issued' \in 0..Relay!PhoneToken
        BY <3>1, <1>t, <1>c
      <4> QED  BY <3>1, <4>1, <1>t
    <3>2. CASE cached' = 0 /\ Relay!Answer(c, "session-expired") /\ UNCHANGED <<issued, alive, holds>>
      BY <3>2, <1>t, <1>c DEF Relay!Answer, Relay!Replies
    <3> QED  BY <1>3, <3>1, <3>2 DEF Relay!SignedIn
  <2>3. \A d \in Relay!Commands : Relayed(d)'
    BY <1>0, <2>1, <2>2 DEF Relayed
  <2> QED  BY <1>t, <2>1, <2>2, <2>3 DEF RelayInv, Relay!TypeOK
<1>4. ASSUME NEW c \in Relay!Commands, Relay!RouteAnswers(c) PROVE RelayInv'
  <2>1. PICK o \in {<<"ok", 1>>, <<"rejected", 0>>, <<"unreachable", 0>>, <<"unreachable", 1>>, <<"session-expired", 0>>} :
          /\ done' = [done EXCEPT ![c] = @ + o[2]] /\ tries' = [tries EXCEPT ![c] = @ + 1]
          /\ IF c \in Mqtt /\ tries[c] = 0 /\ o[1] = "session-expired"
               THEN cached' = 0 /\ stage' = [stage EXCEPT ![c] = "again"] /\ UNCHANGED reply
               ELSE Relay!Answer(c, o[1]) /\ UNCHANGED cached
    BY <1>4 DEF Relay!RouteAnswers, Relay!Outcomes, Relay!MayRetry
  <2>2. UNCHANGED <<holds, issued, alive, window, bucket>> /\ stage[c] = "asked" /\ done[c] = 0 /\ tries[c] \in {0, 1}
        /\ reply[c] = "none"
    BY <1>0, <1>4 DEF Relay!RouteAnswers, Relayed
  <2>3. /\ stage' \in [Relay!Commands -> {"sent", "signing", "again", "asked", "answered"}]
        /\ reply' \in [Relay!Commands -> Relay!Replies] /\ tries' \in [Relay!Commands -> 0..2] /\ done' \in [Relay!Commands -> 0..2]
        /\ cached' \in 0..MaxIssued
        /\ \A d \in Relay!Commands \ {c} : stage'[d] = stage[d] /\ reply'[d] = reply[d] /\ tries'[d] = tries[d] /\ done'[d] = done[d]
        /\ done'[c] = o[2] /\ tries'[c] = tries[c] + 1
        /\ \/ stage'[c] = "again" /\ o[2] = 0 /\ tries[c] = 0 /\ reply'[c] = "none"
           \/ stage'[c] = "answered" /\ reply'[c] = o[1]
    <3>1. /\ tries' \in [Relay!Commands -> 0..2] /\ done' \in [Relay!Commands -> 0..2]
          /\ done'[c] = o[2] /\ tries'[c] = tries[c] + 1
          /\ \A d \in Relay!Commands \ {c} : tries'[d] = tries[d] /\ done'[d] = done[d]
      BY <2>1, <2>2, <1>t
    <3>2. CASE c \in Mqtt /\ tries[c] = 0 /\ o[1] = "session-expired"
      <4>1. o[2] = 0
        BY <2>1, <3>2
      <4>2. cached' = 0 /\ stage' = [stage EXCEPT ![c] = "again"] /\ UNCHANGED reply
        BY <2>1, <3>2
      <4> QED  BY <2>2, <1>t, <1>c, <3>1, <3>2, <4>1, <4>2
    <3>3. CASE ~(c \in Mqtt /\ tries[c] = 0 /\ o[1] = "session-expired")
      <4>1. stage' = [stage EXCEPT ![c] = "answered"] /\ reply' = [reply EXCEPT ![c] = o[1]] /\ UNCHANGED cached
        BY <2>1, <3>3 DEF Relay!Answer
      <4>2. o[1] \in Relay!Replies
        BY <2>1 DEF Relay!Replies
      <4> QED  BY <1>t, <3>1, <4>1, <4>2
    <3> QED  BY <3>2, <3>3
  <2>4. \A d \in Relay!Commands : Relayed(d)'
    BY <1>0, <2>1, <2>3 DEF Relayed
  <2> QED  BY <1>t, <2>2, <2>3, <2>4 DEF RelayInv, Relay!TypeOK
<1>5. ASSUME Relay!SessionEnds PROVE RelayInv'
  BY <1>5, <1>t, <1>0 DEF Relay!SessionEnds, RelayInv, Relay!TypeOK, Relayed
<1>6. ASSUME Relay!Second PROVE RelayInv'
  <2>1. /\ window' \in 0..(Rate + 1) /\ bucket' \in 0..(2 * Rate)
        /\ UNCHANGED <<stage, holds, tries, done, reply, cached, issued, alive>>
    BY <1>6, <1>t, <1>c DEF Relay!Second
  <2> QED  BY <2>1, <1>t, <1>0 DEF RelayInv, Relay!TypeOK, Relayed
<1> QED  BY <1>1, <1>2, <1>3, <1>4, <1>5, <1>6 DEF Relay!Next

LEMMA RelayHolds == ASSUME RelayInv PROVE Relay!TypeOK /\ Relay!RepliesAreTrue
BY DEF RelayInv, Relayed, Relay!RepliesAreTrue

LEMMA RelayStays == ASSUME RelayInv, UNCHANGED relayVars PROVE RelayInv'
BY DEF relayVars, RelayInv, Relay!TypeOK, Relayed

-----------------------------------------------------------------------------
(* The switches of a bridge *)

\* The newest message is the retained one; until the clock is set back the counters say the same as the versions.
SwitchInv ==
  /\ Switches!TypeOK /\ skewed <= switchFaults
  /\ retained.version <= switches + 1 /\ remembered <= retained.version
  /\ applied # 0 => applied = remembered
  /\ \A i \in 1..Len(wire) : wire[i].version \in remembered..retained.version
  /\ \A i, j \in 1..Len(wire) : i < j => wire[i].version <= wire[j].version
  /\ ~setBack =>
       /\ retained.seq <= lastSeq \/ retained.seq <= time
       /\ bridgeSeq <= retained.seq
       /\ \A i \in 1..Len(wire) : wire[i].seq \in bridgeSeq..retained.seq
       /\ \A i, j \in 1..Len(wire) : i < j => wire[i].seq <= wire[j].seq

LEMMA SwitchStarts == ASSUME Switches!Init PROVE SwitchInv
<1>1. MaxSaves \in Nat /\ MaxSwitchFaults \in Nat
  BY AccessAssumption DEF AccessAssumption
<1>2. /\ 0 \in 0..MaxSaves /\ 0 \in 0..MaxSwitchFaults /\ 0 \in 0..MaxSaves + 1 /\ <<>> \in Seq(Switches!Messages)
      /\ Len(<<>>) = 0 /\ 1..0 = {}
  BY <1>1
<1>3. Switches!TypeOK
  BY <1>2 DEF Switches!Init, Switches!TypeOK
<1> QED  BY <1>2, <1>3 DEF Switches!Init, SwitchInv, Switches!Nothing

LEMMA SwitchFacts ==
  ASSUME SwitchInv
  PROVE  /\ MaxSaves \in Nat /\ MaxSwitchFaults \in Nat /\ MaxMoments \in Nat
         /\ switches \in 0..MaxSaves /\ time \in Nat /\ lastSeq \in Nat /\ bridgeSeq \in Nat
         /\ skewed \in 0..MaxSwitchFaults /\ switchFaults \in 0..MaxSwitchFaults
         /\ retained \in Switches!Messages \union {Switches!Nothing} /\ retained.seq \in Nat /\ retained.version \in 0..MaxSaves + 1
         /\ wire \in Seq(Switches!Messages) /\ Len(wire) \in Nat
         /\ \A i \in 1..Len(wire) : wire[i] \in Switches!Messages /\ wire[i].version \in 1..MaxSaves + 1 /\ wire[i].seq \in Nat
         /\ remembered \in 0..MaxSaves + 1
<1>1. MaxSaves \in Nat /\ MaxSwitchFaults \in Nat /\ MaxMoments \in Nat
  BY AccessAssumption DEF AccessAssumption
<1>2. /\ switches \in 0..MaxSaves /\ time \in Nat /\ lastSeq \in Nat /\ bridgeSeq \in Nat
      /\ skewed \in 0..MaxSwitchFaults /\ switchFaults \in 0..MaxSwitchFaults
      /\ retained \in Switches!Messages \union {Switches!Nothing} /\ wire \in Seq(Switches!Messages)
      /\ remembered \in 0..MaxSaves + 1
  BY DEF SwitchInv, Switches!TypeOK
<1>3. Len(wire) \in Nat /\ \A i \in 1..Len(wire) : wire[i] \in Switches!Messages
  BY <1>2
<1>4. \A m \in Switches!Messages : m.version \in 1..MaxSaves + 1 /\ m.seq \in Nat /\ m.issued \in Nat
  BY DEF Switches!Messages
<1>5. retained.seq \in Nat /\ retained.version \in 0..MaxSaves + 1
  BY <1>1, <1>2, <1>4 DEF Switches!Nothing
<1> QED  BY <1>1, <1>2, <1>3, <1>4, <1>5

\* What is announced is newer than all that was, and is put behind it.
LEMMA AnnouncedFacts ==
  ASSUME SwitchInv, NEW version \in switches..MaxSaves, Switches!Announced(version)
  PROVE  /\ key' \in {"missing", "present", "unusable"} /\ lastSeq' \in Nat
         /\ retained' \in Switches!Messages \union {Switches!Nothing} /\ wire' \in Seq(Switches!Messages)
         /\ retained'.version <= version + 1 /\ remembered <= retained'.version
         /\ \A i \in 1..Len(wire') : wire'[i].version \in remembered..retained'.version
         /\ \A i, j \in 1..Len(wire') : i < j => wire'[i].version <= wire'[j].version
         /\ ~setBack =>
              /\ retained'.seq <= lastSeq' \/ retained'.seq <= time
              /\ bridgeSeq <= retained'.seq
              /\ \A i \in 1..Len(wire') : wire'[i].seq \in bridgeSeq..retained'.seq
              /\ \A i, j \in 1..Len(wire') : i < j => wire'[i].seq <= wire'[j].seq
<1> DEFINE new == Switches!Message(version)
<1>t. /\ MaxSaves \in Nat /\ switches \in 0..MaxSaves /\ time \in Nat /\ lastSeq \in Nat /\ bridgeSeq \in Nat
      /\ retained \in Switches!Messages \union {Switches!Nothing} /\ retained.seq \in Nat /\ retained.version \in 0..MaxSaves + 1
      /\ wire \in Seq(Switches!Messages) /\ Len(wire) \in Nat /\ remembered \in 0..MaxSaves + 1
  BY SwitchFacts
<1>v. version \in Int /\ switches \in Int /\ switches <= version /\ version + 1 \in 1..MaxSaves + 1
  BY <1>t
<1>w. \A i \in 1..Len(wire) : wire[i].version \in Int /\ wire[i].seq \in Int
  <2> TAKE i \in 1..Len(wire)
  <2>1. wire[i].version \in 1..MaxSaves + 1 /\ wire[i].seq \in Nat
    BY SwitchFacts
  <2> QED  BY <1>t, <2>1
<1>i. /\ retained.version <= switches + 1 /\ remembered <= retained.version
      /\ \A i \in 1..Len(wire) : wire[i].version \in remembered..retained.version
      /\ \A i, j \in 1..Len(wire) : i < j => wire[i].version <= wire[j].version
  BY DEF SwitchInv
<1>s. ~setBack =>
        /\ retained.seq <= lastSeq \/ retained.seq <= time
        /\ bridgeSeq <= retained.seq
        /\ \A i \in 1..Len(wire) : wire[i].seq \in bridgeSeq..retained.seq
        /\ \A i, j \in 1..Len(wire) : i < j => wire[i].seq <= wire[j].seq
  BY DEF SwitchInv
<1>b. version \in 0..MaxSaves
  BY <1>t
<1>1. key' \in {"missing", "present", "unusable"}
  BY DEF SwitchInv, Switches!TypeOK, Switches!Announced, Switches!UsableKey
<1>2. CASE UNCHANGED <<lastSeq, retained, wire>>
  <2>1. retained.version <= version + 1
    BY <1>t, <1>v, <1>i
  <2>2. lastSeq' = lastSeq /\ retained' = retained /\ wire' = wire
    BY <1>2
  <2> QED  BY <1>1, <1>t, <1>i, <1>s, <2>1, <2>2
<1>3. CASE lastSeq' = Switches!NextSeq /\ retained' = new /\ wire' = Append(wire, new)
  <2>1. /\ Switches!NextSeq \in Nat /\ time <= Switches!NextSeq /\ lastSeq <= Switches!NextSeq
    BY <1>t DEF Switches!NextSeq
  <2>2. /\ new \in Switches!Messages /\ new.version = version + 1 /\ new.seq = Switches!NextSeq
        /\ retained.version <= new.version /\ (~setBack => retained.seq <= new.seq)
    <3>1. retained.version <= version + 1
      BY <1>t, <1>v, <1>i
    <3>2. new = [version |-> version + 1, seq |-> Switches!NextSeq, issued |-> time]
      BY DEF Switches!Message
    <3>3. ~setBack => retained.seq <= Switches!NextSeq
      BY <1>t, <1>s, <2>1
    <3> HIDE DEF new
    <3> QED  BY <1>t, <1>v, <2>1, <3>1, <3>2, <3>3 DEF Switches!Messages
  <2> HIDE DEF new
  <2>3. /\ wire' \in Seq(Switches!Messages) /\ Len(wire') = Len(wire) + 1 /\ wire'[Len(wire) + 1] = new
        /\ \A i \in 1..Len(wire) : wire'[i] = wire[i]
    BY <1>3, <1>t, <2>2
  <2>4. \A i \in 1..Len(wire') : i = Len(wire) + 1 \/ i \in 1..Len(wire)
    BY <1>t, <2>3
  <2>5. remembered <= new.version /\ new.version \in Int /\ new.seq \in Int /\ remembered \in Int /\ bridgeSeq \in Int
    BY <1>t, <1>v, <1>i, <2>1, <2>2
  <2>6. ~setBack => bridgeSeq <= new.seq
    BY <1>t, <1>s, <2>1, <2>2
  <2>7. \A i \in 1..Len(wire) : wire[i].version \in remembered..new.version /\ (~setBack => wire[i].seq \in bridgeSeq..new.seq)
    <3> TAKE i \in 1..Len(wire)
    <3>1. wire[i].version \in Int /\ wire[i].seq \in Int /\ retained.version \in Int /\ retained.seq \in Int
      BY <1>t, <1>w
    <3>2. remembered <= wire[i].version /\ wire[i].version <= retained.version
      BY <1>t, <1>i
    <3>3. ~setBack => bridgeSeq <= wire[i].seq /\ wire[i].seq <= retained.seq
      BY <1>t, <1>s
    <3> QED  BY <2>2, <2>5, <3>1, <3>2, <3>3
  <2>8. \A i \in 1..Len(wire') : wire'[i].version \in remembered..new.version /\ (~setBack => wire'[i].seq \in bridgeSeq..new.seq)
    BY <2>3, <2>4, <2>5, <2>6, <2>7
  <2>9. ASSUME NEW i \in 1..Len(wire'), NEW j \in 1..Len(wire'), i < j
        PROVE  wire'[i].version <= wire'[j].version /\ (~setBack => wire'[i].seq <= wire'[j].seq)
    <3>1. i \in 1..Len(wire)
      BY <1>t, <2>3, <2>9
    <3>2. CASE j \in 1..Len(wire)
      BY <1>i, <1>s, <2>3, <2>9, <3>1, <3>2
    <3>3. CASE j = Len(wire) + 1
      BY <2>3, <2>7, <3>1, <3>3
    <3> QED  BY <2>4, <3>2, <3>3
  <2>10. retained'.version <= version + 1 /\ lastSeq' \in Nat /\ (~setBack => retained'.seq <= lastSeq')
    BY <1>3, <1>v, <2>1, <2>2
  <2> QED  BY <1>1, <1>3, <2>2, <2>3, <2>5, <2>6, <2>8, <2>9, <2>10
<1> QED  BY <1>2, <1>3 DEF Switches!Announced

\* The messages that are still on the way when the first has arrived.
LEMMA TailFacts ==
  ASSUME NEW M, NEW w \in Seq(M), w # <<>>
  PROVE  /\ Tail(w) \in Seq(M) /\ Len(Tail(w)) = Len(w) - 1 /\ Head(w) = w[1] /\ 1 \in 1..Len(w) /\ Len(w) \in Nat
         /\ \A i \in 1..Len(Tail(w)) : Tail(w)[i] = w[i + 1] /\ i + 1 \in 1..Len(w)
<1>1. Len(w) \in Nat /\ Len(w) > 0 /\ Head(w) = w[1]
  BY EmptySeq
<1>2. Tail(w) \in Seq(M) /\ Len(Tail(w)) = Len(w) - 1 /\ \A i \in 1..Len(Tail(w)) : Tail(w)[i] = w[i + 1]
  BY HeadTailProperties
<1> QED  BY <1>1, <1>2

LEMMA SwitchSteps == ASSUME SwitchInv, Switches!Next PROVE SwitchInv'
<1>t. /\ MaxSaves \in Nat /\ MaxSwitchFaults \in Nat /\ MaxMoments \in Nat
      /\ switches \in 0..MaxSaves /\ time \in Nat /\ lastSeq \in Nat /\ bridgeSeq \in Nat
      /\ skewed \in 0..MaxSwitchFaults /\ switchFaults \in 0..MaxSwitchFaults /\ skewed <= switchFaults
      /\ retained \in Switches!Messages \union {Switches!Nothing} /\ retained.seq \in Nat /\ retained.version \in 0..MaxSaves + 1
      /\ wire \in Seq(Switches!Messages) /\ Len(wire) \in Nat /\ remembered \in 0..MaxSaves + 1
      /\ key \in {"missing", "present", "unusable"} /\ connected \in BOOLEAN /\ setBack \in BOOLEAN
      /\ applied \in 0..MaxSaves + 1
  BY SwitchFacts DEF SwitchInv, Switches!TypeOK
<1>a. ASSUME NEW version \in switches..MaxSaves, Switches!Announced(version) \/ UNCHANGED <<key, lastSeq, retained, wire>>,
             switches' = version, time' \in {time, time + 1}, connected' \in BOOLEAN,
             UNCHANGED <<skewed, setBack, switchFaults, applied, bridgeSeq, remembered>>
      PROVE  SwitchInv'
  <2>1. CASE Switches!Announced(version)
    <3>1. /\ key' \in {"missing", "present", "unusable"} /\ lastSeq' \in Nat
          /\ retained' \in Switches!Messages \union {Switches!Nothing} /\ wire' \in Seq(Switches!Messages)
          /\ retained'.version <= version + 1 /\ remembered <= retained'.version
          /\ \A i \in 1..Len(wire') : wire'[i].version \in remembered..retained'.version
          /\ \A i, j \in 1..Len(wire') : i < j => wire'[i].version <= wire'[j].version
          /\ ~setBack =>
               /\ retained'.seq <= lastSeq' \/ retained'.seq <= time
               /\ bridgeSeq <= retained'.seq
               /\ \A i \in 1..Len(wire') : wire'[i].seq \in bridgeSeq..retained'.seq
               /\ \A i, j \in 1..Len(wire') : i < j => wire'[i].seq <= wire'[j].seq
      BY <2>1, AnnouncedFacts
    <3>2. time' \in Nat /\ switches' \in 0..MaxSaves
      BY <1>a, <1>t
    <3>3. retained'.seq \in Nat
      BY <3>1 DEF Switches!Messages, Switches!Nothing
    <3>4. retained'.seq <= time => retained'.seq <= time'
      BY <1>a, <1>t, <3>3
    <3>5. Switches!TypeOK'
      BY <1>a, <1>t, <3>1, <3>2 DEF Switches!TypeOK
    <3> QED  BY <1>a, <1>t, <3>1, <3>4, <3>5 DEF SwitchInv
  <2>2. CASE UNCHANGED <<key, lastSeq, retained, wire>>
    <3>1. time' \in Nat /\ switches' \in 0..MaxSaves
      BY <1>a, <1>t
    <3>2. Switches!TypeOK'
      BY <1>a, <1>t, <2>2, <3>1 DEF Switches!TypeOK
    <3>3. retained.version <= version + 1 /\ (retained.seq <= time => retained.seq <= time')
      <4>1. retained.version <= switches + 1 /\ switches \in Int /\ version \in Int /\ switches <= version
        BY <1>t DEF SwitchInv
      <4> QED  BY <1>a, <1>t, <4>1
    <3> QED  BY <1>a, <1>t, <2>2, <3>2, <3>3 DEF SwitchInv
  <2> QED  BY <1>a, <2>1, <2>2
<1>f. ASSUME Switches!Fault PROVE switchFaults' \in 0..MaxSwitchFaults /\ switchFaults' = switchFaults + 1
  BY <1>f, <1>t DEF Switches!Fault
<1>1. ASSUME Switches!Save PROVE SwitchInv'
  <2>1. switches + 1 \in switches..MaxSaves /\ switches' = switches + 1
    BY <1>1, <1>t DEF Switches!Save
  <2>2. /\ Switches!Announced(switches + 1) \/ UNCHANGED <<key, lastSeq, retained, wire>>
        /\ UNCHANGED <<time, connected, skewed, setBack, switchFaults, applied, bridgeSeq, remembered>>
    BY <1>1 DEF Switches!Save, Switches!Bridge
  <2> QED  BY <1>a, <1>t, <2>1, <2>2
<1>2. ASSUME Switches!Connect PROVE SwitchInv'
  <2>1. /\ Switches!Announced(switches) /\ connected' = TRUE
        /\ UNCHANGED <<switches, time, skewed, setBack, switchFaults, applied, bridgeSeq, remembered>>
    BY <1>2 DEF Switches!Connect, Switches!Bridge
  <2>2. switches \in switches..MaxSaves
    BY <1>t
  <2> QED  BY <1>a, <2>1, <2>2
<1>3. ASSUME Switches!Refresh PROVE SwitchInv'
  <2>1. /\ Switches!Announced(switches) /\ time' = time + 1
        /\ UNCHANGED <<switches, connected, skewed, setBack, switchFaults, applied, bridgeSeq, remembered>>
    BY <1>3 DEF Switches!Refresh, Switches!Bridge
  <2>2. switches \in switches..MaxSaves
    BY <1>t
  <2> QED  BY <1>a, <1>t, <2>1, <2>2
<1>4. ASSUME Switches!AtBridge PROVE SwitchInv'
  <2>1. /\ wire # <<>> /\ wire' = Tail(wire)
        /\ UNCHANGED <<switches, key, time, skewed, connected, lastSeq, retained, setBack, switchFaults>>
    BY <1>4 DEF Switches!AtBridge
  <2>2. /\ Tail(wire) \in Seq(Switches!Messages) /\ Len(Tail(wire)) = Len(wire) - 1 /\ Head(wire) = wire[1]
        /\ \A i \in 1..Len(Tail(wire)) : Tail(wire)[i] = wire[i + 1] /\ i + 1 \in 1..Len(wire)
        /\ 1 \in 1..Len(wire)
    BY <1>t, <2>1, TailFacts
  <2>3. wire[1].version \in 1..MaxSaves + 1 /\ wire[1].seq \in Nat
    BY <2>2, SwitchFacts
  <2>4. \/ applied' = wire[1].version /\ bridgeSeq' = wire[1].seq /\ remembered' = wire[1].version
        \/ UNCHANGED <<applied, bridgeSeq, remembered>>
    BY <1>4, <2>2 DEF Switches!AtBridge, Switches!Bridge
  <2>5. Switches!TypeOK'
    <3>1. applied' \in 0..MaxSaves + 1 /\ remembered' \in 0..MaxSaves + 1 /\ bridgeSeq' \in Nat
      BY <1>t, <2>3, <2>4
    <3> QED  BY <1>t, <2>1, <2>2, <3>1 DEF Switches!TypeOK
  <2>6. \A i \in 1..Len(Tail(wire)) : 1 < i + 1 /\ i \in Int
    OBVIOUS
  <2>7. \A i \in 1..Len(wire) : wire[i].version \in Int /\ wire[i].seq \in Int
    <3> TAKE i \in 1..Len(wire)
    <3>1. wire[i].version \in 1..MaxSaves + 1 /\ wire[i].seq \in Nat
      BY SwitchFacts
    <3> QED  BY <1>t, <3>1
  <2>8. /\ \A i \in 1..Len(wire) : wire[i].version <= retained.version /\ remembered <= wire[i].version
        /\ \A i \in 1..Len(wire) : 1 < i => wire[1].version <= wire[i].version
    BY <1>t, <2>2, <2>7 DEF SwitchInv
  <2>9. /\ remembered' <= retained.version /\ (applied' # 0 => applied' = remembered')
        /\ \A i \in 1..Len(Tail(wire)) : Tail(wire)[i].version \in remembered'..retained.version
    <3>1. remembered' \in Int /\ retained.version \in Int
      BY <1>t, <2>3, <2>4
    <3>2. remembered' <= retained.version /\ (applied' # 0 => applied' = remembered')
      BY <2>2, <2>4, <2>8 DEF SwitchInv
    <3>3. \A i \in 1..Len(wire) : 1 < i => remembered' <= wire[i].version
      BY <2>4, <2>8
    <3> QED  BY <2>2, <2>6, <2>7, <2>8, <3>1, <3>2, <3>3
  <2>10. \A i, j \in 1..Len(Tail(wire)) : i < j => i + 1 < j + 1
    OBVIOUS
  <2>11. \A i, j \in 1..Len(Tail(wire)) : i < j => Tail(wire)[i].version <= Tail(wire)[j].version
    BY <2>2, <2>10 DEF SwitchInv
  <2>12. ASSUME ~setBack
         PROVE  /\ bridgeSeq' <= retained.seq
                /\ \A i \in 1..Len(Tail(wire)) : Tail(wire)[i].seq \in bridgeSeq'..retained.seq
                /\ \A i, j \in 1..Len(Tail(wire)) : i < j => Tail(wire)[i].seq <= Tail(wire)[j].seq
    <3>1. /\ \A i \in 1..Len(wire) : wire[i].seq <= retained.seq /\ bridgeSeq <= wire[i].seq
          /\ \A i \in 1..Len(wire) : 1 < i => wire[1].seq <= wire[i].seq
      BY <1>t, <2>2, <2>7, <2>12 DEF SwitchInv
    <3>2. bridgeSeq' \in Int /\ retained.seq \in Int /\ bridgeSeq' <= retained.seq
      BY <1>t, <2>2, <2>3, <2>4, <2>12, <3>1 DEF SwitchInv
    <3>3. \A i \in 1..Len(wire) : 1 < i => bridgeSeq' <= wire[i].seq
      BY <2>4, <3>1
    <3>4. \A i \in 1..Len(Tail(wire)) : Tail(wire)[i].seq \in bridgeSeq'..retained.seq
      BY <2>2, <2>6, <2>7, <3>1, <3>2, <3>3
    <3>5. \A i, j \in 1..Len(Tail(wire)) : i < j => Tail(wire)[i].seq <= Tail(wire)[j].seq
      BY <2>2, <2>10, <2>12 DEF SwitchInv
    <3> QED  BY <3>2, <3>4, <3>5
  <2> QED  BY <2>1, <2>5, <2>9, <2>11, <2>12 DEF SwitchInv
<1>5. ASSUME Switches!BridgeRestarts PROVE SwitchInv'
  <2>1. /\ applied' = 0 /\ bridgeSeq' = 0 /\ wire' = (IF retained = Switches!Nothing THEN <<>> ELSE <<retained>>)
        /\ UNCHANGED <<switches, key, time, skewed, connected, lastSeq, retained, remembered, setBack>>
        /\ switchFaults' \in 0..MaxSwitchFaults /\ switchFaults' = switchFaults + 1
    BY <1>5, <1>f DEF Switches!BridgeRestarts
  <2>2. /\ wire' \in Seq(Switches!Messages) /\ Len(wire') \in {0, 1}
        /\ \A i \in 1..Len(wire') : i = 1 /\ wire'[i] = retained
    <3>1. CASE retained = Switches!Nothing
      BY <2>1, <3>1
    <3>2. CASE retained # Switches!Nothing
      BY <1>t, <2>1, <3>2
    <3> QED  BY <3>1, <3>2
  <2>3. Switches!TypeOK'
    <3>1. 0 \in 0..MaxSaves + 1 /\ 0 \in Nat
      BY <1>t
    <3> QED  BY <1>t, <2>1, <2>2, <3>1 DEF Switches!TypeOK
  <2>4. retained.version \in remembered..retained.version /\ retained.seq \in 0..retained.seq /\ 0 <= retained.seq
    BY <1>t DEF SwitchInv
  <2>5. skewed <= switchFaults + 1
    BY <1>t
  <2>6. \A i, j \in 1..Len(wire') : ~(i < j)
    BY <2>2
  <2> QED  BY <2>1, <2>2, <2>3, <2>4, <2>5, <2>6 DEF SwitchInv
<1>6. ASSUME Switches!ServerRestarts PROVE SwitchInv'
  <2>1. /\ connected' = FALSE /\ lastSeq' = 0
        /\ time' = (IF setBack \/ lastSeq <= time THEN time ELSE lastSeq)
        /\ UNCHANGED <<switches, key, skewed, retained, wire, setBack, applied, bridgeSeq, remembered>>
        /\ switchFaults' \in 0..MaxSwitchFaults /\ switchFaults' = switchFaults + 1
    BY <1>6, <1>f DEF Switches!ServerRestarts, Switches!Bridge
  <2>2. Switches!TypeOK' /\ skewed <= switchFaults + 1
    <3>1. time' \in Nat /\ 0 \in Nat /\ skewed <= switchFaults + 1
      BY <1>t, <2>1
    <3> QED  BY <1>t, <2>1, <3>1 DEF Switches!TypeOK
  <2>3. ~setBack => retained.seq <= time'
    <3>1. ~setBack => retained.seq <= lastSeq \/ retained.seq <= time
      BY DEF SwitchInv
    <3> QED  BY <1>t, <2>1, <3>1
  <2> QED  BY <2>1, <2>2, <2>3 DEF SwitchInv
<1>7. ASSUME Switches!Break \/ Switches!KeyChanges PROVE SwitchInv'
  <2>1. /\ UNCHANGED <<switches, time, skewed, lastSeq, retained, wire, setBack, applied, bridgeSeq, remembered>>
        /\ key' \in {"missing", "present", "unusable"} /\ connected' \in BOOLEAN
        /\ switchFaults' \in 0..MaxSwitchFaults /\ switchFaults' = switchFaults + 1
    BY <1>7, <1>f, <1>t DEF Switches!Break, Switches!KeyChanges, Switches!Bridge
  <2>2. Switches!TypeOK' /\ skewed <= switchFaults + 1
    <3>1. skewed <= switchFaults + 1
      BY <1>t, <2>1
    <3> QED  BY <1>t, <2>1, <3>1 DEF Switches!TypeOK
  <2> QED  BY <2>1, <2>2 DEF SwitchInv
<1>8. ASSUME Switches!ClockBack PROVE SwitchInv'
  <2>1. /\ UNCHANGED <<switches, key, connected, lastSeq, retained, wire, applied, bridgeSeq, remembered>>
        /\ time' = time - 1 /\ time > 1 /\ skewed' = 0 /\ setBack' = TRUE
        /\ switchFaults' \in 0..MaxSwitchFaults
    BY <1>8, <1>f DEF Switches!ClockBack, Switches!Bridge
  <2>2. Switches!TypeOK' /\ skewed' <= switchFaults'
    <3>1. time - 1 \in Nat /\ 0 \in 0..MaxSwitchFaults
      BY <1>t, <2>1
    <3>2. skewed' <= switchFaults'
      BY <1>t, <2>1
    <3> QED  BY <1>t, <2>1, <3>1, <3>2 DEF Switches!TypeOK
  <2> QED  BY <2>1, <2>2 DEF SwitchInv
<1>9. ASSUME Switches!BridgeBehind PROVE SwitchInv'
  <2>1. /\ UNCHANGED <<switches, key, time, connected, lastSeq, retained, wire, setBack, applied, bridgeSeq, remembered>>
        /\ skewed' = skewed + 1 /\ switchFaults' = switchFaults + 1 /\ switchFaults' \in 0..MaxSwitchFaults
    BY <1>9, <1>f DEF Switches!BridgeBehind, Switches!Bridge
  <2>2. skewed' \in 0..MaxSwitchFaults /\ skewed' <= switchFaults'
    BY <1>t, <2>1
  <2>3. Switches!TypeOK'
    BY <1>t, <2>1, <2>2 DEF Switches!TypeOK
  <2> QED  BY <2>1, <2>2, <2>3 DEF SwitchInv
<1>10. ASSUME Switches!Tick PROVE SwitchInv'
  <2>1. /\ UNCHANGED <<key, lastSeq, retained, wire, switches, connected, skewed, setBack, switchFaults, applied, bridgeSeq, remembered>>
        /\ time' = time + 1
    BY <1>10 DEF Switches!Tick, Switches!Bridge
  <2>2. switches \in switches..MaxSaves
    BY <1>t
  <2> QED  BY <1>a, <1>t, <2>1, <2>2
<1> QED  BY <1>1, <1>2, <1>3, <1>4, <1>5, <1>6, <1>7, <1>8, <1>9, <1>10 DEF Switches!Next

LEMMA SwitchHolds == ASSUME SwitchInv PROVE Switches!TypeOK /\ Switches!SwitchesGoForward
<1>1. DOMAIN wire = 1..Len(wire) /\ remembered \in Int /\ bridgeSeq \in Int
  BY SwitchFacts
<1>2. \A i \in 1..Len(wire) : wire[i].version >= remembered /\ (~setBack => wire[i].seq >= bridgeSeq)
  BY <1>1 DEF SwitchInv
<1> QED  BY <1>1, <1>2 DEF SwitchInv, Switches!SwitchesGoForward

LEMMA SwitchStays == ASSUME SwitchInv, UNCHANGED switchVars PROVE SwitchInv'
BY DEF switchVars, SwitchInv, Switches!TypeOK

-----------------------------------------------------------------------------
(* Side by side *)

Inv == FactorInv /\ KeyInv /\ LimitInv /\ TicketInv /\ RelayInv /\ SwitchInv

LEMMA Starts == AccessInit => Inv
BY FactorStarts, KeyStarts, LimitStarts, TicketStarts, RelayStarts, SwitchStarts DEF AccessInit, Inv

LEMMA Steps == Inv /\ [AccessNext]_accessVars => Inv'
<1> SUFFICES ASSUME Inv, [AccessNext]_accessVars PROVE Inv'
  OBVIOUS
<1>1. CASE AccessNext
  <2>1. PICK part \in together : Step(part)
    BY <1>1 DEF AccessNext
  <2>2. FactorInv'
    BY <2>1, FactorSteps, FactorStays DEF Inv, Step
  <2>3. KeyInv'
    BY <2>1, KeySteps, KeyStays DEF Inv, Step
  <2>4. LimitInv'
    BY <2>1, LimitSteps, LimitStays DEF Inv, Step
  <2>5. TicketInv'
    BY <2>1, TicketSteps, TicketStays DEF Inv, Step
  <2>6. RelayInv'
    BY <2>1, RelaySteps, RelayStays DEF Inv, Step
  <2>7. SwitchInv'
    BY <2>1, SwitchSteps, SwitchStays DEF Inv, Step
  <2> QED  BY <2>2, <2>3, <2>4, <2>5, <2>6, <2>7 DEF Inv
<1>2. CASE UNCHANGED accessVars
  BY <1>2, FactorStays, KeyStays, LimitStays, TicketStays, RelayStays, SwitchStays DEF Inv, accessVars
<1> QED  BY <1>1, <1>2

LEMMA Holds == Inv => AccessTypeOK /\ SignInsAreTrue /\ CommandsComeOnce
BY FactorHolds, KeyHolds, LimitHolds, TicketHolds, RelayHolds, SwitchHolds DEF Inv, AccessTypeOK, SignInsAreTrue, CommandsComeOnce

\* The types of all six, with the counts of keys, sign-ins, tickets and messages within their limits.
THEOREM TypeCorrect == AccessSpec => []AccessTypeOK
<1>1. Inv => AccessTypeOK
  BY Holds
<1> QED  BY Starts, Steps, <1>1, PTL DEF AccessSpec

\* A code lets somebody in once and the file knows it; one key signs, and a token verifies until it expires through rotations,
\* failed writes and restarts; only failed sign-ins are counted for good and no stop is held back; a ticket opens what it was
\* issued for while it lives (totp.ts, jwtKeys.ts, auth.ts, mediaTickets.ts, infoTickets.ts).
THEOREM SignInsCorrect == AccessSpec => []SignInsAreTrue
<1>1. Inv => SignInsAreTrue
  BY Holds
<1> QED  BY Starts, Steps, <1>1, PTL DEF AccessSpec

\* A relayed command is carried out once at most and its reply says what happened; the switches of a bridge never go back
\* (mqttBridge.ts, ble/bleGateway.ts, bridgeSettingsSigning.ts).
THEOREM CommandsCorrect == AccessSpec => []CommandsComeOnce
<1>1. Inv => CommandsComeOnce
  BY Holds
<1> QED  BY Starts, Steps, <1>1, PTL DEF AccessSpec
=============================================================================
