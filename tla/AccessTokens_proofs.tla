------------------------- MODULE AccessTokens_proofs --------------------------
(***************************************************************************)
(* Proofs about access tokens for any number of instances, rotations and   *)
(* tokens, and any lifetimes.                                              *)
(***************************************************************************)
EXTENDS AccessTokens, TLAPS

-----------------------------------------------------------------------------
(* The inductive invariant.                                                *)

\* What an instance may run with: what the rollout under way deploys, and what
\* the one before has left.
Deployed ==
    LET old == rollout.key
        new == rollout.key + 1
    IN  CASE rollout.phase = "add" -> {Provider(old, {}), Provider(old, {new})}
          [] rollout.phase = "switch" -> {Provider(old, {new}), Provider(new, {old})}
          [] rollout.phase = "drop" -> {Provider(new, {old}), Provider(new, {})}

\* A token names the key it was signed with, or none.
KidOK(t) == t.kid \in {NoKid, IdOf(t.secret)}

\* The secrets of the tokens that are alive, and of the instances that sign: the
\* new one comes with the second rollout, and at its end the tokens of the old
\* one live no longer than the operator waits before dropping it.
SecretOK(t) ==
    LET old == rollout.key
        new == rollout.key + 1
    IN  /\ rollout.phase = "add" => t.secret = old
        /\ rollout.phase = "switch" => t.secret \in {old, new}
        /\ rollout.phase = "drop" => t.secret = new
        /\ (rollout.phase = "switch" /\ \A i \in Instance : keys[i] = Target)
              => (t.secret = old => t.life <= AccessTTL - settled)

\* The types, without the shape of the keys.
BasicTypeOK ==
    /\ rollout \in [key : 0..Rotations - 1, phase : {"add", "switch", "drop"}]
    /\ settled \in 0..AccessTTL
    /\ role \in Role
    /\ lastHeld \in [Role -> 0..Bound]
    /\ signing \in [Instance -> Signing]
    /\ tokens \subseteq Token

KeysOK ==
    /\ keys \in [Instance -> Deployed]
    /\ \A t \in tokens : KidOK(t)
    /\ Instance # {} => \A t \in tokens : t.life > 0 => SecretOK(t)

\* The role a login or refresh has read was the user's not longer ago than it
\* began, and a token lives no longer than its role may be outlived.
RoleOK ==
    /\ lastHeld[role] = 0
    /\ \A i \in Instance :
          /\ signing[i].role # "none" => lastHeld[signing[i].role] <= signing[i].elapsed
          /\ signing[i].op = "login" => signing[i].elapsed <= LoginTime
    /\ \A t \in tokens : t.life > 0 => lastHeld[t.role] + t.life <= Bound

IInv == BasicTypeOK /\ KeysOK /\ RoleOK

-----------------------------------------------------------------------------
(* Lemmas about the key provider.                                          *)

\* Consecutive keys have different IDs, and an ID is never the missing kid.
LEMMA IdsDiffer ==
    ASSUME NEW k \in Nat
    PROVE  /\ IdOf(k) # IdOf(k + 1)
           /\ IdOf(k) \in KeyID /\ IdOf(k) # NoKid
<1>1. k % 2 = 0 <=> (k + 1) % 2 # 0
    OBVIOUS
<1>2. QED
    BY <1>1 DEF IdOf, KeyID, NoKid

\* A provider with one legacy key finds both by their IDs.
LEMMA ProviderOfTwo ==
    ASSUME NEW active, NEW other
    PROVE  LET p == Provider(active, {other})
           IN  /\ p.active = IdOf(active) /\ p.secret = active
               /\ p.legacy = [id \in {IdOf(other)} |-> other]
<1>1. [id \in {IdOf(k) : k \in {other}} |-> CHOOSE k \in {other} : IdOf(k) = id]
      = [id \in {IdOf(other)} |-> other]
  <2>1. (CHOOSE k \in {other} : IdOf(k) = IdOf(other)) = other
      OBVIOUS
  <2>2. {IdOf(k) : k \in {other}} = {IdOf(other)}
      OBVIOUS
  <2>3. \A id \in {IdOf(other)} : (CHOOSE k \in {other} : IdOf(k) = id) = other
      BY <2>1
  <2>4. QED
      BY <2>2, <2>3
<1>2. QED
    BY <1>1 DEF Provider

\* A provider without legacy keys has its active one.
LEMMA ProviderOfOne ==
    ASSUME NEW active
    PROVE  LET p == Provider(active, {})
           IN  /\ p.active = IdOf(active) /\ p.secret = active
               /\ DOMAIN p.legacy = {}
    BY DEF Provider

\* An active key is accepted by its ID and without one.
LEMMA AcceptsActive ==
    ASSUME NEW p, NEW t, KidOK(t), t.life > 0, p.active = IdOf(t.secret), p.secret = t.secret
    PROVE  Authenticate(p, t)
    BY DEF Authenticate, Tried, GetKey, AllKeys, KidOK

\* So is a legacy key.
LEMMA AcceptsLegacy ==
    ASSUME NEW p, NEW t, KidOK(t), t.life > 0, p.active # IdOf(t.secret),
           p.legacy = [id \in {IdOf(t.secret)} |-> t.secret]
    PROVE  Authenticate(p, t)
<1>1. DOMAIN p.legacy = {IdOf(t.secret)} /\ p.legacy[IdOf(t.secret)] = t.secret
    OBVIOUS
<1>2. CASE t.kid = NoKid
    BY <1>1, <1>2 DEF Authenticate, Tried, AllKeys
<1>3. CASE t.kid # NoKid
  <2>1. t.kid = IdOf(t.secret)
      BY <1>3 DEF KidOK
  <2>2. GetKey(p, t.kid) = {p.legacy[id] : id \in DOMAIN p.legacy \cap {t.kid}}
      BY <2>1 DEF GetKey
  <2>3. t.secret \in GetKey(p, t.kid)
      BY <1>1, <2>1, <2>2
  <2>4. QED
      BY <1>3, <2>3 DEF Authenticate, Tried
<1>4. QED
    BY <1>2, <1>3

\* What an instance signs with, in each rollout.
LEMMA DeployedKeys ==
    ASSUME BasicTypeOK, NEW p \in Deployed
    PROVE  /\ p.active = IdOf(p.secret)
           /\ rollout.phase = "add" => p.secret = rollout.key
           /\ rollout.phase = "switch" => p.secret \in {rollout.key, rollout.key + 1}
           /\ rollout.phase = "switch" /\ p = Target => p.secret = rollout.key + 1
           /\ rollout.phase = "drop" => p.secret = rollout.key + 1
<1>1. rollout.phase \in {"add", "switch", "drop"}
    BY DEF BasicTypeOK
<1> DEFINE old == rollout.key
           new == rollout.key + 1
<1>2. ASSUME NEW a
      PROVE  /\ Provider(a, {}).active = IdOf(a) /\ Provider(a, {}).secret = a
             /\ \A b : Provider(a, {b}).active = IdOf(a) /\ Provider(a, {b}).secret = a
    BY ProviderOfOne, ProviderOfTwo
<1>3. CASE rollout.phase = "add"
  <2>1. p = Provider(old, {}) \/ p = Provider(old, {new})
      BY <1>3 DEF Deployed
  <2> HIDE DEF old, new
  <2>2. p.active = IdOf(old) /\ p.secret = old
      BY <1>2, <2>1
  <2>3. QED
      BY <1>3, <2>2 DEF old, new
<1>4. CASE rollout.phase = "switch"
  <2>1. (p = Provider(old, {new}) \/ p = Provider(new, {old})) /\ Target = Provider(new, {old})
      BY <1>4 DEF Deployed, Target
  <2> HIDE DEF old, new
  <2>2. CASE p = Target
    <3>1. p.active = IdOf(new) /\ p.secret = new
        BY <1>2, <2>1, <2>2
    <3>2. QED
        BY <1>4, <3>1 DEF new
  <2>3. CASE p = Provider(old, {new}) /\ p # Target
    <3>1. p.active = IdOf(old) /\ p.secret = old
        BY <1>2, <2>3
    <3>2. QED
        BY <1>4, <2>3, <3>1 DEF old
  <2>4. QED
      BY <2>1, <2>2, <2>3
<1>5. CASE rollout.phase = "drop"
  <2>1. p = Provider(new, {old}) \/ p = Provider(new, {})
      BY <1>5 DEF Deployed
  <2> HIDE DEF old, new
  <2>2. p.active = IdOf(new) /\ p.secret = new
      BY <1>2, <2>1
  <2>3. QED
      BY <1>5, <2>2 DEF old, new
<1>6. QED
    BY <1>1, <1>3, <1>4, <1>5

\* The types of an instance's keys.
LEMMA DeployedTypes ==
    ASSUME BasicTypeOK, NEW p \in Deployed
    PROVE  /\ p.active \in KeyID /\ p.secret \in Secret
           /\ DOMAIN p.legacy \subseteq KeyID \ {p.active}
           /\ \A id \in DOMAIN p.legacy : p.legacy[id] \in Secret
<1> DEFINE old == rollout.key
           new == rollout.key + 1
<1>1. /\ rollout.phase \in {"add", "switch", "drop"}
      /\ old \in Nat /\ new \in Nat /\ old \in Secret /\ new \in Secret
    BY TokenConfiguration DEF BasicTypeOK, Secret
<1>2. /\ IdOf(old) \in KeyID /\ IdOf(new) \in KeyID /\ IdOf(old) # IdOf(new)
    BY <1>1, IdsDiffer
<1> HIDE DEF old, new
<1>3. p \in {Provider(old, {}), Provider(old, {new}), Provider(new, {old}), Provider(new, {})}
    BY <1>1 DEF Deployed, old, new
<1>4. CASE p = Provider(old, {}) \/ p = Provider(new, {})
    BY <1>1, <1>2, <1>4, ProviderOfOne
<1>5. ASSUME NEW a \in {old, new}, NEW b \in {old, new}, IdOf(a) # IdOf(b), p = Provider(a, {b})
      PROVE  /\ p.active \in KeyID /\ p.secret \in Secret
             /\ DOMAIN p.legacy \subseteq KeyID \ {p.active}
             /\ \A id \in DOMAIN p.legacy : p.legacy[id] \in Secret
  <2>1. p.active = IdOf(a) /\ p.secret = a /\ p.legacy = [id \in {IdOf(b)} |-> b]
      BY <1>5, ProviderOfTwo
  <2>2. DOMAIN p.legacy = {IdOf(b)} /\ \A id \in DOMAIN p.legacy : p.legacy[id] = b
      BY <2>1
  <2>3. QED
      BY <1>1, <1>2, <1>5, <2>1, <2>2
<1>6. QED
    BY <1>2, <1>3, <1>4, <1>5

\* Every instance accepts every live token: the heart of the rotation's order.
LEMMA Accepted ==
    ASSUME IInv, NEW i \in Instance, NEW t \in tokens, t.life > 0
    PROVE  Authenticate(keys[i], t)
<1> DEFINE old == rollout.key
           new == rollout.key + 1
           p == keys[i]
<1>1. BasicTypeOK /\ p \in Deployed /\ KidOK(t) /\ SecretOK(t)
    BY DEF IInv, KeysOK
<1>2. rollout.phase \in {"add", "switch", "drop"} /\ old \in Nat /\ new \in Nat
    BY <1>1, TokenConfiguration DEF BasicTypeOK
<1>3. IdOf(old) # IdOf(new)
    BY <1>2, IdsDiffer
<1>4. \/ t.secret = old /\ p \in {Provider(old, {}), Provider(old, {new}), Provider(new, {old})}
      \/ t.secret = new /\ p \in {Provider(old, {new}), Provider(new, {old}), Provider(new, {})}
    BY <1>1, <1>2 DEF Deployed, SecretOK
<1> HIDE DEF old, new, p
<1>5. CASE p \in {Provider(t.secret, {}), Provider(t.secret, {old}), Provider(t.secret, {new})}
  <2>0. \A a, b : /\ Provider(a, {b}).active = IdOf(a) /\ Provider(a, {b}).secret = a
                 /\ Provider(a, {}).active = IdOf(a) /\ Provider(a, {}).secret = a
      BY ProviderOfOne, ProviderOfTwo
  <2>1. p.active = IdOf(t.secret) /\ p.secret = t.secret
      BY <1>5, <2>0
  <2>2. QED
      BY <1>1, <2>1, AcceptsActive DEF p
<1>6. CASE \E a : p = Provider(a, {t.secret}) /\ IdOf(a) # IdOf(t.secret)
  <2>1. p.active # IdOf(t.secret) /\ p.legacy = [id \in {IdOf(t.secret)} |-> t.secret]
      BY <1>6, ProviderOfTwo
  <2>2. QED
      BY <1>1, <2>1, AcceptsLegacy DEF p
<1>7. QED
    BY <1>3, <1>4, <1>5, <1>6

-----------------------------------------------------------------------------
(* One lemma per conjunct of the inductive invariant, one step per action. *)

\* A new token is a token, from the instance's active key.
LEMMA SignedToken ==
    ASSUME IInv, NEW i \in Instance, signing[i].role # "none"
    PROVE  LET t == generateAccessToken(i)
           IN  /\ t \in Token
               /\ t.kid = keys[i].active /\ t.secret = keys[i].secret
               /\ t.role = signing[i].role
               /\ t.life = IF signing[i].op = "login" THEN AccessTTL
                           ELSE IF signing[i].elapsed < AccessTTL
                                THEN AccessTTL - signing[i].elapsed ELSE 0
<1>1. keys[i].active \in KeyID /\ keys[i].secret \in Secret
    BY DeployedTypes DEF IInv, KeysOK
<1>2. signing[i].role \in Role /\ signing[i].elapsed \in Nat
  <2>1. signing[i] \in Signing /\ Bound \in Nat
      BY TokenConfiguration DEF IInv, BasicTypeOK, Bound
  <2>2. QED
      BY <2>1 DEF Signing
<1> DEFINE life == IF signing[i].op = "login" THEN AccessTTL
                   ELSE IF signing[i].elapsed < AccessTTL
                        THEN AccessTTL - signing[i].elapsed ELSE 0
<1>3. life \in 0..AccessTTL
    BY <1>2, TokenConfiguration
<1>4. generateAccessToken(i) =
         [kid |-> keys[i].active, secret |-> keys[i].secret, role |-> signing[i].role, life |-> life]
    BY DEF generateAccessToken, TokenOf
<1> HIDE DEF life
<1>5. QED
    BY <1>1, <1>2, <1>3, <1>4 DEF Token, life

\* A token ages without changing its key or its role.
LEMMA AgedToken ==
    ASSUME NEW t \in Token
    PROVE  LET u == [t EXCEPT !.life = IF @ > 0 THEN @ - 1 ELSE 0]
           IN  /\ u \in Token
               /\ u.kid = t.kid /\ u.secret = t.secret /\ u.role = t.role
               /\ u.life = IF t.life > 0 THEN t.life - 1 ELSE 0
               /\ t.life \in Nat
<1>1. t.life \in 0..AccessTTL
    BY DEF Token
<1>2. (IF t.life > 0 THEN t.life - 1 ELSE 0) \in 0..AccessTTL
    BY <1>1, TokenConfiguration
<1>3. QED
    BY <1>1, <1>2 DEF Token

\* Every step keeps the variables within their types.
LEMMA TypeStep ==
    ASSUME IInv, [Next]_vars
    PROVE  BasicTypeOK'
<1> USE TokenConfiguration
<1>0. BasicTypeOK /\ Bound \in Nat
    BY DEF IInv, Bound
<1>1. /\ Idle \in Signing
      /\ \A r \in Role : [op |-> "login", role |-> r, elapsed |-> 0] \in Signing
    BY <1>0 DEF Idle, Signing
<1>2. CASE UNCHANGED vars
    BY <1>0, <1>2 DEF vars, BasicTypeOK
<1>3. ASSUME NEW i \in Instance, BeginLogin(i)
      PROVE  BasicTypeOK'
    BY <1>0, <1>1, <1>3 DEF BeginLogin, BasicTypeOK
<1>4. ASSUME NEW i \in Instance, BeginRefresh(i) \/ RefreshFindsUser(i)
      PROVE  BasicTypeOK'
  <2>1. signing[i] \in Signing /\ role \in Role
      BY <1>0 DEF BasicTypeOK
  <2>2. [signing[i] EXCEPT !.op = "refresh"] \in Signing /\ [signing[i] EXCEPT !.role = role] \in Signing
      BY <2>1 DEF Signing
  <2>3. signing' \in [Instance -> Signing]
      BY <1>0, <1>4, <2>2 DEF BeginRefresh, RefreshFindsUser, BasicTypeOK
  <2>4. QED
      BY <1>0, <1>4, <2>3 DEF BeginRefresh, RefreshFindsUser, BasicTypeOK
<1>5. ASSUME NEW i \in Instance, Sign(i)
      PROVE  BasicTypeOK'
  <2>1. generateAccessToken(i) \in Token
      BY <1>5, SignedToken DEF Sign
  <2>2. QED
      BY <1>0, <1>1, <1>5, <2>1 DEF Sign, BasicTypeOK
<1>6. ASSUME NEW i \in Instance, Refuse(i) \/ Deploy(i)
      PROVE  BasicTypeOK'
    BY <1>0, <1>1, <1>6 DEF Refuse, Deploy, BasicTypeOK
<1>7. ASSUME NEW t \in tokens, Discard(t)
      PROVE  BasicTypeOK'
    BY <1>0, <1>7 DEF Discard, BasicTypeOK
<1>8. ASSUME NEW r \in UserRole, ChangeRole(r)
      PROVE  BasicTypeOK'
    BY <1>0, <1>8, UserRoles DEF ChangeRole, BasicTypeOK, Role
<1>9. CASE NextRollout
  <2>1. rollout' \in [key : 0..Rotations - 1, phase : {"add", "switch", "drop"}]
      BY <1>0, <1>9 DEF NextRollout, BasicTypeOK
  <2>2. QED
      BY <1>0, <1>9, <2>1 DEF NextRollout, BasicTypeOK
<1>10. CASE Tick
  <2>1. tokens' \subseteq Token
      BY <1>0, <1>10, AgedToken DEF Tick, BasicTypeOK
  <2>2. signing' \in [Instance -> Signing]
    <3>1. ASSUME NEW x \in Signing
          PROVE  [x EXCEPT !.elapsed = Older(@, Bound)] \in Signing
      <4>1. Older(x.elapsed, Bound) \in 0..Bound
          BY <1>0 DEF Older, Signing
      <4>2. QED
          BY <4>1 DEF Signing
    <3>2. QED
        BY <1>0, <1>1, <1>10, <3>1 DEF Tick, BasicTypeOK
  <2>3. settled' \in 0..AccessTTL /\ lastHeld' \in [Role -> 0..Bound]
      BY <1>0, <1>10 DEF Tick, BasicTypeOK, Older
  <2>4. QED
      BY <1>0, <1>10, <2>1, <2>2, <2>3 DEF Tick, BasicTypeOK
<1>11. QED
    BY <1>2, <1>3, <1>4, <1>5, <1>6, <1>7, <1>8, <1>9, <1>10 DEF Next

\* The keys and the tokens go on fitting each other.
LEMMA KeysStep ==
    ASSUME IInv, [Next]_vars
    PROVE  KeysOK'
<1> USE TokenConfiguration
<1>0. BasicTypeOK /\ KeysOK
    BY DEF IInv
<1>1. CASE UNCHANGED <<rollout, settled, keys>> /\ tokens' \subseteq tokens
  <2>1. Deployed' = Deployed /\ Target' = Target
      BY <1>1 DEF Deployed, Target
  <2>2. \A t \in tokens : SecretOK(t) => SecretOK(t)'
      BY <1>1, <2>1 DEF SecretOK
  <2>3. \A t \in tokens : KidOK(t) => KidOK(t)'
      BY DEF KidOK
  <2>4. QED
      BY <1>0, <1>1, <2>1, <2>2, <2>3 DEF KeysOK
<1>2. ASSUME NEW i \in Instance, Sign(i)
      PROVE  KeysOK'
  <2>1. PICK t : t = generateAccessToken(i)
      OBVIOUS
  <2>2. t.kid = keys[i].active /\ t.secret = keys[i].secret /\ keys[i] \in Deployed
      BY <1>0, <1>2, <2>1, SignedToken DEF Sign, KeysOK
  <2>3. KidOK(t) /\ SecretOK(t)
    <3>1. rollout.key # rollout.key + 1
        BY <1>0 DEF BasicTypeOK
    <3>2. QED
        BY <1>0, <2>2, <3>1, DeployedKeys DEF KidOK, SecretOK
  <2>4. tokens' = tokens \cup {t} /\ UNCHANGED <<rollout, settled, keys>>
      BY <1>2, <2>1 DEF Sign
  <2>5. Deployed' = Deployed /\ Target' = Target
      BY <2>4 DEF Deployed, Target
  <2>6. \A u \in tokens' : SecretOK(u) => SecretOK(u)'
      BY <2>4, <2>5 DEF SecretOK
  <2>7. \A u \in tokens' : KidOK(u) => KidOK(u)'
      BY DEF KidOK
  <2>8. QED
      BY <1>0, <2>3, <2>4, <2>5, <2>6, <2>7 DEF KeysOK
<1>3. ASSUME NEW i \in Instance, Deploy(i)
      PROVE  KeysOK'
  <2>1. Deployed' = Deployed /\ Target' = Target /\ UNCHANGED <<rollout, tokens>> /\ settled' = 0
      BY <1>3 DEF Deploy, Deployed, Target
  <2>2. Target \in Deployed
      BY <1>0 DEF Deployed, Target, BasicTypeOK
  <2>3. keys' \in [Instance -> Deployed]
      BY <1>0, <1>3, <2>2 DEF Deploy, KeysOK
  <2>4. \A t \in tokens : t.life <= AccessTTL - 0
      BY <1>0 DEF BasicTypeOK, Token
  <2>5. \A t \in tokens : SecretOK(t) => SecretOK(t)'
      BY <2>1, <2>4 DEF SecretOK
  <2>6. \A t \in tokens : KidOK(t) => KidOK(t)'
      BY DEF KidOK
  <2>7. QED
      BY <1>0, <2>1, <2>3, <2>5, <2>6 DEF KeysOK
<1>4. CASE Tick
  <2>1. Deployed' = Deployed /\ Target' = Target /\ UNCHANGED <<rollout, keys>>
      BY <1>4 DEF Tick, Deployed, Target
  <2>2. ASSUME NEW u \in tokens'
        PROVE  KidOK(u)' /\ (Instance # {} /\ u.life > 0 => SecretOK(u)')
    <3>1. PICK t \in tokens : u = [t EXCEPT !.life = IF @ > 0 THEN @ - 1 ELSE 0]
        BY <1>4, <2>2 DEF Tick
    <3>2. /\ u.kid = t.kid /\ u.secret = t.secret /\ t.life \in Nat
          /\ u.life = IF t.life > 0 THEN t.life - 1 ELSE 0
        BY <1>0, <3>1, AgedToken DEF BasicTypeOK
    <3>3. KidOK(u)'
        BY <1>0, <3>2 DEF KeysOK, KidOK
    <3>4. ASSUME Instance # {}, u.life > 0
          PROVE  SecretOK(u)'
      <4>1. SecretOK(t) /\ u.life = t.life - 1 /\ t.life > 0
          BY <1>0, <3>2, <3>4 DEF KeysOK
      <4>2. settled \in 0..AccessTTL /\ settled' = Older(settled, AccessTTL)
          BY <1>0, <1>4 DEF Tick, BasicTypeOK
      <4>3. t.life <= AccessTTL - settled => u.life <= AccessTTL - settled'
          BY <3>2, <4>1, <4>2 DEF Older
      <4>4. QED
          BY <2>1, <3>2, <4>1, <4>3 DEF SecretOK
    <3>5. QED
        BY <3>3, <3>4
  <2>3. QED
      BY <1>0, <2>1, <2>2 DEF KeysOK
<1>5. CASE NextRollout
  <2> DEFINE old == rollout.key
             new == rollout.key + 1
  <2>0. /\ UNCHANGED <<settled, keys, tokens>> /\ keys \in [Instance -> Deployed]
        /\ \A i \in Instance : keys[i] = Target
        /\ \A t \in tokens : KidOK(t)'
        /\ old # new
      BY <1>0, <1>5 DEF NextRollout, KeysOK, KidOK, BasicTypeOK
  <2>1. CASE rollout.phase = "add" /\ rollout' = [rollout EXCEPT !.phase = "switch"]
    <3>1. rollout'.phase = "switch" /\ rollout'.key = old
        BY <1>0, <2>1 DEF BasicTypeOK
    <3>2. Target = Provider(old, {new}) /\ Target' = Provider(new, {old})
        BY <2>1, <3>1 DEF Target
    <3>3. Deployed' = {Provider(old, {new}), Provider(new, {old})}
        BY <3>1 DEF Deployed
    <3>4. keys' \in [Instance -> Deployed']
        BY <2>0, <3>2, <3>3
    <3>5. Target # Target'
      <4>1. Provider(old, {new}).secret = old /\ Provider(new, {old}).secret = new
          BY ProviderOfTwo
      <4>2. QED
          BY <2>0, <3>2, <4>1
    <3>6. ASSUME NEW t \in tokens, t.life > 0, Instance # {}
          PROVE  SecretOK(t)'
        BY <1>0, <2>0, <2>1, <3>1, <3>5, <3>6 DEF KeysOK, SecretOK
    <3>7. QED
        BY <2>0, <3>4, <3>6 DEF KeysOK
  <2>2. CASE /\ rollout.phase = "switch" /\ settled = AccessTTL
             /\ rollout' = [rollout EXCEPT !.phase = "drop"]
    <3>1. rollout'.phase = "drop" /\ rollout'.key = old
        BY <1>0, <2>2 DEF BasicTypeOK
    <3>2. Target = Provider(new, {old})
        BY <2>2 DEF Target
    <3>3. Deployed' = {Provider(new, {old}), Provider(new, {})}
        BY <3>1 DEF Deployed
    <3>4. keys' \in [Instance -> Deployed']
        BY <2>0, <3>2, <3>3
    <3>5. ASSUME NEW t \in tokens, t.life > 0, Instance # {}
          PROVE  SecretOK(t)'
      <4>1. SecretOK(t) /\ t.life \in Nat
          BY <1>0, <3>5 DEF KeysOK, BasicTypeOK, Token
      <4>2. t.secret = new
          BY <2>0, <2>2, <3>5, <4>1 DEF SecretOK
      <4>3. QED
          BY <3>1, <4>2 DEF SecretOK
    <3>6. QED
        BY <2>0, <3>4, <3>5 DEF KeysOK
  <2>3. CASE rollout.phase = "drop" /\ rollout' = [key |-> new, phase |-> "add"]
    <3>1. rollout'.phase = "add" /\ rollout'.key = new
        BY <2>3
    <3>2. Target = Provider(new, {})
        BY <2>3 DEF Target
    <3>3. Deployed' = {Provider(new, {}), Provider(new, {new + 1})}
        BY <3>1 DEF Deployed
    <3>4. keys' \in [Instance -> Deployed']
        BY <2>0, <3>2, <3>3
    <3>5. ASSUME NEW t \in tokens, t.life > 0, Instance # {}
          PROVE  SecretOK(t)'
      <4>1. t.secret = new
          BY <1>0, <2>3, <3>5 DEF KeysOK, SecretOK
      <4>2. QED
          BY <3>1, <4>1 DEF SecretOK
    <3>6. QED
        BY <2>0, <3>4, <3>5 DEF KeysOK
  <2>4. QED
      BY <1>5, <2>1, <2>2, <2>3 DEF NextRollout
<1>6. \/ UNCHANGED <<rollout, settled, keys>> /\ tokens' \subseteq tokens
      \/ \E i \in Instance : Sign(i) \/ Deploy(i)
      \/ NextRollout \/ Tick
    BY DEF Next, vars, BeginLogin, BeginRefresh, RefreshFindsUser, Refuse, Discard, ChangeRole
<1>7. QED
    BY <1>1, <1>2, <1>3, <1>4, <1>5, <1>6

\* A role goes on being outlived by no more than Bound.
LEMMA RoleStep ==
    ASSUME IInv, [Next]_vars
    PROVE  RoleOK'
<1> USE TokenConfiguration
<1>0. BasicTypeOK /\ RoleOK /\ Bound \in Nat /\ Bound = AccessTTL + LoginTime
    BY DEF IInv, Bound
<1>1. /\ Idle.role = "none" /\ Idle.op = "none"
      /\ \A i \in Instance : signing[i] \in Signing
      /\ \A i \in Instance : signing[i].elapsed \in 0..Bound
      /\ \A r \in Role : lastHeld[r] \in 0..Bound
      /\ role \in Role /\ "none" \notin Role
      /\ \A t \in tokens : t.role \in Role /\ t.life \in Nat
    BY <1>0 DEF BasicTypeOK, Idle, Signing, Token, Role
<1>2. CASE UNCHANGED <<role, lastHeld, signing>> /\ tokens' \subseteq tokens
    BY <1>0, <1>2 DEF RoleOK
<1>3. ASSUME NEW i \in Instance, BeginLogin(i)
      PROVE  RoleOK'
    BY <1>0, <1>1, <1>3 DEF BeginLogin, RoleOK, BasicTypeOK
<1>4. ASSUME NEW i \in Instance, BeginRefresh(i)
      PROVE  RoleOK'
  <2>1. signing'[i].role = "none" /\ signing'[i].op = "refresh"
        /\ \A j \in Instance \ {i} : signing'[j] = signing[j]
      BY <1>0, <1>1, <1>4 DEF BeginRefresh, BasicTypeOK, Signing
  <2>2. QED
      BY <1>0, <1>4, <2>1 DEF BeginRefresh, RoleOK
<1>5. ASSUME NEW i \in Instance, RefreshFindsUser(i)
      PROVE  RoleOK'
  <2>1. signing'[i].role = role /\ signing'[i].op = "refresh"
        /\ signing'[i].elapsed = signing[i].elapsed
        /\ \A j \in Instance \ {i} : signing'[j] = signing[j]
      BY <1>0, <1>1, <1>5 DEF RefreshFindsUser, BasicTypeOK, Signing
  <2>2. QED
      BY <1>0, <1>1, <1>5, <2>1 DEF RefreshFindsUser, RoleOK
<1>6. ASSUME NEW i \in Instance, Refuse(i) \/ Deploy(i)
      PROVE  RoleOK'
    BY <1>0, <1>1, <1>6 DEF Refuse, Deploy, RoleOK, BasicTypeOK
<1>7. ASSUME NEW i \in Instance, Sign(i)
      PROVE  RoleOK'
  <2>1. PICK t : t = generateAccessToken(i)
      OBVIOUS
  <2>2. /\ t.role = signing[i].role /\ signing[i].role # "none" /\ t.role \in Role
        /\ t.life = IF signing[i].op = "login" THEN AccessTTL
                    ELSE IF signing[i].elapsed < AccessTTL
                         THEN AccessTTL - signing[i].elapsed ELSE 0
      BY <1>7, <2>1, SignedToken DEF Sign, Token
  <2>3. /\ lastHeld[t.role] <= signing[i].elapsed
        /\ signing[i].op = "login" => signing[i].elapsed <= LoginTime
      BY <1>0, <2>2 DEF RoleOK
  <2>4. t.life > 0 => lastHeld[t.role] + t.life <= Bound
      BY <1>0, <1>1, <2>2, <2>3
  <2>5. tokens' = tokens \cup {t} /\ UNCHANGED <<role, lastHeld>>
        /\ signing' = [signing EXCEPT ![i] = Idle]
      BY <1>7, <2>1 DEF Sign
  <2>6. QED
      BY <1>0, <1>1, <2>4, <2>5 DEF RoleOK, BasicTypeOK
<1>8. ASSUME NEW r \in UserRole, ChangeRole(r)
      PROVE  RoleOK'
  <2>1. /\ r \in Role /\ lastHeld'[r] = 0 /\ role' = r
        /\ \A q \in Role : lastHeld'[q] <= lastHeld[q]
        /\ \A q \in Role : lastHeld'[q] \in Nat
      BY <1>0, <1>1, <1>8, UserRoles DEF ChangeRole, BasicTypeOK, Role
  <2>2. UNCHANGED <<signing, tokens>>
      BY <1>8 DEF ChangeRole
  <2>3. ASSUME NEW i \in Instance, signing[i].role # "none"
        PROVE  lastHeld'[signing[i].role] <= signing[i].elapsed
    <3>1. signing[i].role \in Role
        BY <1>1, <2>3 DEF Signing
    <3>2. QED
        BY <1>0, <1>1, <2>1, <2>3, <3>1 DEF RoleOK
  <2>4. ASSUME NEW t \in tokens, t.life > 0
        PROVE  lastHeld'[t.role] + t.life <= Bound
      BY <1>0, <1>1, <2>1, <2>4 DEF RoleOK
  <2>5. QED
      BY <1>0, <2>1, <2>2, <2>3, <2>4 DEF RoleOK
<1>9. CASE Tick
  <2>1. \A r \in Role : lastHeld'[r] = IF r = role THEN 0 ELSE Older(lastHeld[r], Bound)
      BY <1>9 DEF Tick
  <2>2. lastHeld'[role'] = 0
      BY <1>1, <1>9, <2>1 DEF Tick
  <2>3. ASSUME NEW i \in Instance
        PROVE  /\ signing'[i].role # "none" => lastHeld'[signing'[i].role] <= signing'[i].elapsed
               /\ signing'[i].op = "login" => signing'[i].elapsed <= LoginTime
    <3>1. CASE signing[i] = Idle
        BY <1>1, <1>9, <3>1 DEF Tick
    <3>2. CASE signing[i] # Idle
      <4>1. signing'[i] = [signing[i] EXCEPT !.elapsed = Older(@, Bound)]
          BY <1>9, <3>2 DEF Tick
      <4>2. /\ signing'[i].role = signing[i].role /\ signing'[i].op = signing[i].op
            /\ signing'[i].elapsed = Older(signing[i].elapsed, Bound)
          BY <1>1, <4>1 DEF Signing
      <4>3. signing[i].op = "login" => signing[i].elapsed < LoginTime
          BY <1>9 DEF Tick
      <4>4. signing[i].op = "login" => Older(signing[i].elapsed, Bound) <= LoginTime
          BY <1>1, <4>3 DEF Older
      <4>5. ASSUME signing[i].role # "none"
            PROVE  lastHeld'[signing[i].role] <= Older(signing[i].elapsed, Bound)
        <5>1. signing[i].role \in Role
            BY <1>1, <4>5 DEF Signing
        <5>2. lastHeld[signing[i].role] <= signing[i].elapsed
            BY <1>0, <4>5 DEF RoleOK
        <5>3. QED
            BY <1>0, <1>1, <2>1, <5>1, <5>2 DEF Older
      <4>6. QED
          BY <4>2, <4>4, <4>5
    <3>3. QED
        BY <3>1, <3>2
  <2>4. ASSUME NEW u \in tokens', u.life > 0
        PROVE  lastHeld'[u.role] + u.life <= Bound
    <3>1. PICK t \in tokens : u = [t EXCEPT !.life = IF @ > 0 THEN @ - 1 ELSE 0]
        BY <1>9, <2>4 DEF Tick
    <3>2. u.role = t.role /\ u.life = (IF t.life > 0 THEN t.life - 1 ELSE 0)
        BY <1>0, <3>1, AgedToken DEF BasicTypeOK
    <3>3. t.role \in Role /\ t.life \in Nat /\ t.life > 0 /\ u.life = t.life - 1
        BY <1>1, <2>4, <3>2
    <3>4. lastHeld[t.role] + t.life <= Bound
        BY <1>0, <3>3 DEF RoleOK
    <3>5. QED
        BY <1>0, <1>1, <2>1, <3>2, <3>3, <3>4 DEF Older
  <2>5. QED
      BY <2>2, <2>3, <2>4 DEF RoleOK
<1>10. \/ UNCHANGED <<role, lastHeld, signing>> /\ tokens' \subseteq tokens
       \/ \E i \in Instance : \/ BeginLogin(i) \/ BeginRefresh(i) \/ RefreshFindsUser(i)
                             \/ Sign(i) \/ Refuse(i) \/ Deploy(i)
       \/ \E r \in UserRole : ChangeRole(r)
       \/ Tick
    BY DEF Next, vars, Discard, NextRollout
<1>11. QED
    BY <1>2, <1>3, <1>4, <1>5, <1>6, <1>7, <1>8, <1>9, <1>10

\* The inductive invariant holds before the first rotation.
LEMMA IInvInit ==
    ASSUME Init
    PROVE  IInv
<1> USE TokenConfiguration
<1>0. Bound \in Nat /\ Bound = AccessTTL + LoginTime /\ role \in Role
    BY UserRoles DEF Init, Bound, Role
<1>1. ASSUME NEW t \in tokens
      PROVE  /\ t = [kid |-> NoKid, secret |-> 0, role |-> role, life |-> AccessTTL]
             /\ t \in Token
    BY <1>0, <1>1 DEF Init, Token, Secret
<1>2. BasicTypeOK
  <2>1. Idle \in Signing
      BY <1>0 DEF Idle, Signing
  <2>2. QED
      BY <1>0, <1>1, <2>1 DEF Init, BasicTypeOK
<1>3. KeysOK
  <2>1. rollout.key = 0 /\ rollout.phase = "add" /\ Provider(0, {}) \in Deployed
      BY DEF Init, Deployed
  <2>2. \A t \in tokens : KidOK(t) /\ SecretOK(t)
      BY <1>1, <2>1 DEF KidOK, SecretOK
  <2>3. QED
      BY <2>1, <2>2 DEF Init, KeysOK
<1>4. RoleOK
    BY <1>0, <1>1 DEF Init, RoleOK, Idle
<1>5. QED
    BY <1>2, <1>3, <1>4 DEF IInv

-----------------------------------------------------------------------------
(* The theorems.                                                           *)

\* The inductive invariant holds in every state.
THEOREM Invariance == Spec => []IInv
<1>1. Init => IInv
    BY IInvInit
<1>2. IInv /\ [Next]_vars => IInv'
    BY TypeStep, KeysStep, RoleStep DEF IInv
<1>3. QED
    BY <1>1, <1>2, PTL DEF Spec

\* At every point of every rotation every instance accepts every live token.
THEOREM RotationCostsNoRequest == Spec => []KeyInvariant
<1>1. ASSUME IInv
      PROVE  KeyInvariant
  <2>1. TypeOK
    <3>1. BasicTypeOK /\ \A i \in Instance : keys[i] \in Deployed
        BY <1>1 DEF IInv, KeysOK
    <3>2. QED
        BY <3>1, DeployedTypes DEF BasicTypeOK, TypeOK
  <2>2. LiveTokensAccepted
      BY <1>1, Accepted DEF LiveTokensAccepted
  <2>3. QED
      BY <2>1, <2>2 DEF KeyInvariant
<1>2. QED
    BY <1>1, Invariance, PTL

\* A role that was taken away counts for no route once AccessTTL and the longest
\* login have passed.
THEOREM RemovedRolesExpire == Spec => []AuthorityExpires
<1>1. ASSUME IInv
      PROVE  AuthorityExpires
  <2>1. ASSUME NEW i \in Instance, NEW t \in tokens, NEW route \in Route, Serves(i, t, route)
        PROVE  \E r \in Allowed(route) : lastHeld[r] < Bound
    <3>1. t.life > 0 /\ t.role \in Allowed(route)
        BY <2>1 DEF Serves, Authenticate
    <3>2. t.role \in Role /\ t.life \in Nat /\ lastHeld[t.role] \in Nat /\ Bound \in Nat
        BY <1>1, <2>1, TokenConfiguration DEF IInv, BasicTypeOK, Token, Bound
    <3>3. lastHeld[t.role] + t.life <= Bound
        BY <1>1, <2>1, <3>1 DEF IInv, RoleOK
    <3>4. QED
        BY <3>1, <3>2, <3>3
  <2>2. QED
      BY <2>1 DEF AuthorityExpires
<1>2. QED
    BY <1>1, Invariance, PTL

=============================================================================
