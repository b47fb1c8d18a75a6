------------------------------ MODULE JwtKeys ------------------------------
(***************************************************************************)
(* The keys that sign the login tokens under EdDSA: a file that holds one  *)
(* active key and those that were retired and are still accepted, the copy *)
(* of it in memory, rotations, and the policy that says which algorithm    *)
(* signs and which ones are accepted. A signature is only good with its    *)
(* key; the shared secret of HS256 never changes.                          *)
(***************************************************************************)
EXTENDS Naturals, FiniteSets, FiniteSetsExt

CONSTANTS None, Lifetime,
          Overlap,   \* auth.keyOverlapSeconds, not shorter than the lifetime of a token
          MaxTime, MaxMade, MaxTokens, MaxFaults \* bounds

VARIABLES
  keys,   \* in memory (JwtKeyStore.keys), or None: the file has not been read
  file,   \* the keys of the file
  policy, \* jwtPolicy(), saved
  up, clock,
  tokens, \* the tokens that were issued; sound: the file had its key as active
  made, faults

vars == <<keys, file, policy, up, clock, tokens, made, faults>>

-----------------------------------------------------------------------------
\* What a read finds: the file is read once.
Load == IF keys = None THEN file ELSE keys

Active(ks) == {k \in ks : k.retired = None}

\* Variant: a retired key is dropped at once.
LiveWithoutOverlap(ks) == Active(ks)

Live(ks) == {k \in ks : k.retired = None \/ clock < k.retired + Overlap}

\* The newest of the active keys (activeOf): the greatest createdAt, which two keys never share.
ActiveOf(ks) == CHOOSE k \in Active(ks) : \A l \in Active(ks) : l.created <= k.created

Newest(ks) == Max({0} \cup {k.created : k \in ks})

\* A new key: later than all the others also when the clock has not moved.
Fresh(ks) == [kid |-> made + 1, created |-> Max({clock, Newest(ks) + 1}), retired |-> None]

\* persist(): the temporary file and the rename, then the mode of the file, and only then the memory.
Persisted(ks) ==
  \/ keys' = ks /\ file' = ks /\ faults' = faults
  \/ faults < MaxFaults /\ faults' = faults + 1 /\ keys' = Load /\ file' \in {file, ks}

\* ensureActive(): what is kept, and a first key when none is active.
Kept == IF Active(Live(Load)) # {} THEN Live(Load) ELSE Live(Load) \cup {[Fresh({}) EXCEPT !.created = clock]}

EnsureActive ==
  /\ Active(Live(Load)) = {} => made < MaxMade
  /\ made' = IF Active(Live(Load)) = {} THEN made + 1 ELSE made
  /\ IF Kept = Load THEN keys' = Load /\ UNCHANGED <<file, faults>> ELSE Persisted(Kept)

-----------------------------------------------------------------------------
\* PUT of auth.jwtAlgorithm and auth.acceptHs256. The key of EdDSA is made first: when that fails nothing is saved.
ChoosePolicy ==
  /\ up
  /\ \E a \in {"HS256", "EdDSA"}, accept \in BOOLEAN :
       /\ policy # [algorithm |-> a, acceptHs256 |-> accept]
       /\ IF a = "EdDSA" THEN EnsureActive ELSE UNCHANGED <<keys, file, made, faults>>
       /\ policy' = IF faults' > faults THEN policy ELSE [algorithm |-> a, acceptHs256 |-> accept]
  /\ UNCHANGED <<up, clock, tokens>>

\* Variant: the key that was active is thrown away.
RotateAway ==
  /\ up /\ policy.algorithm = "EdDSA" /\ made < MaxMade
  /\ made' = made + 1
  /\ Persisted((Live(Load) \ Active(Load)) \cup {Fresh(Load)})
  /\ UNCHANGED <<policy, up, clock, tokens>>

\* POST /api/admin/jwt-keys/rotate
Rotate ==
  /\ up /\ policy.algorithm = "EdDSA" /\ made < MaxMade
  /\ made' = made + 1
  /\ LET retired == {IF k.retired = None THEN [k EXCEPT !.retired = clock] ELSE k : k \in Live(Load)}
     IN Persisted(retired \cup {Fresh(retired)})
  /\ UNCHANGED <<policy, up, clock, tokens>>

\* GET /api/admin/jwt-keys, the JWKS and every check of a token read the file when nobody has.
Read ==
  /\ up /\ keys = None
  /\ keys' = file
  /\ UNCHANGED <<file, policy, up, clock, tokens, made, faults>>

\* signAccessToken: a key that cannot be made signs nobody in.
Sign ==
  /\ up /\ Cardinality(tokens) < MaxTokens
  /\ IF policy.algorithm = "HS256"
     THEN /\ tokens' = tokens \cup {[alg |-> "HS256", kid |-> 0, exp |-> clock + Lifetime, sound |-> TRUE]}
          /\ UNCHANGED <<keys, file, made, faults>>
     ELSE /\ EnsureActive
          /\ tokens' = IF faults' > faults THEN tokens
                       ELSE tokens \cup {[alg |-> "EdDSA", kid |-> ActiveOf(keys').kid, exp |-> clock + Lifetime,
                                          sound |-> ActiveOf(keys') \in file']}
  /\ UNCHANGED <<policy, up, clock>>

\* The server starts: under EdDSA with a key, or not at all.
Start ==
  /\ ~up
  /\ IF policy.algorithm = "EdDSA" THEN EnsureActive ELSE UNCHANGED <<keys, file, made, faults>>
  /\ up' = (faults' = faults)
  /\ UNCHANGED <<policy, clock, tokens>>

Stop ==
  /\ up
  /\ up' = FALSE
  /\ keys' = None
  /\ UNCHANGED <<file, policy, clock, tokens, made, faults>>

Tick ==
  /\ clock < MaxTime
  /\ clock' = clock + 1
  /\ UNCHANGED <<keys, file, policy, up, tokens, made, faults>>

\* verifyAccessToken: the policy chooses the algorithm, the header only names it.
Verifies(t) ==
  \/ t.alg = "HS256" /\ (policy.algorithm = "HS256" \/ policy.acceptHs256) /\ clock < t.exp
  \/ t.alg = "EdDSA" /\ policy.algorithm = "EdDSA" /\ clock < t.exp /\ \E k \in Live(Load) : k.kid = t.kid

Init ==
  /\ keys = None /\ file = {} /\ policy = [algorithm |-> "HS256", acceptHs256 |-> TRUE]
  /\ up = TRUE /\ clock = 1 /\ tokens = {} /\ made = 0 /\ faults = 0

Next == ChoosePolicy \/ Rotate \/ Read \/ Sign \/ Start \/ Stop \/ Tick

Spec == Init /\ [][Next]_vars

-----------------------------------------------------------------------------
Keys == [kid : 1..MaxMade, created : 0..MaxTime + MaxMade, retired : 0..MaxTime \cup {None}]

TypeOK ==
  /\ keys = None \/ keys \in SUBSET Keys
  /\ file \in SUBSET Keys
  /\ policy \in [algorithm : {"HS256", "EdDSA"}, acceptHs256 : BOOLEAN]
  /\ up \in BOOLEAN /\ clock \in 0..MaxTime
  /\ tokens \in SUBSET [alg : {"HS256", "EdDSA"}, kid : 0..MaxMade, exp : Nat, sound : BOOLEAN]
  /\ made \in 0..MaxMade /\ faults \in 0..MaxFaults

\* At most one key signs, in memory and in the file, whatever failed (jwtKeys.ts).
OneKeySigns == Cardinality(Active(Load)) <= 1 /\ Cardinality(Active(file)) <= 1

\* A token lives as long as it says through rotations, failed rotations and restarts: while the policy still takes its
\* algorithm, a token whose key the file had as active when it was signed verifies until it expires (jwtKeys.ts).
TokensLive ==
  up => \A t \in tokens :
    t.sound /\ clock < t.exp /\ (IF t.alg = "EdDSA" THEN policy.algorithm = "EdDSA" ELSE policy.acceptHs256) => Verifies(t)
=============================================================================
