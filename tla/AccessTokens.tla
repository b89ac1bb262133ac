---------------------------- MODULE AccessTokens ----------------------------
(***************************************************************************)
(* Access tokens: how instances sign them (generateAccessToken) and verify *)
(* them (AuthenticateWithKeyProvider, RequireRole) while the signing key   *)
(* is being rotated instance by instance and the user's role changes.      *)
(*                                                                         *)
(* An instance's keys are its configuration and change only when it is     *)
(* deployed again.  The operator rotates in three rollouts, each of which  *)
(* reaches all instances before the next: the new key is added to          *)
(* JWT_LEGACY_KEYS; it becomes the active key and the old one a legacy     *)
(* key; the old one is dropped, one token lifetime after the second        *)
(* rollout has ended.  Two key IDs take turns and every secret is new.     *)
(* A signature is the secret it was made with.  Time is relative: a token  *)
(* has a life left, 0 once it has expired.                                 *)
(***************************************************************************)
EXTENDS Naturals, FiniteSets

CONSTANTS
    Instance,       \* the API instances
    UserRole,       \* the roles the user is given
    AccessTTL,      \* ACCESS_TOKEN_TTL
    RefreshTTL,     \* REFRESH_TOKEN_TTL
    LoginTime,      \* the longest a login takes from reading the user to signing
    Rotations,      \* how many rotations there are
    MaxTokens       \* how many tokens clients keep

ASSUME TokenConfiguration ==
    /\ {AccessTTL, RefreshTTL, Rotations} \subseteq Nat \ {0}
    /\ {MaxTokens, LoginTime} \subseteq Nat

ASSUME UserRoles == UserRole \subseteq {"OPERATOR", "ADMIN", "SUPERADMIN"}

Role == {"OPERATOR", "ADMIN", "SUPERADMIN"}
KeyID == {"v0", "v1"}
NoKid == "no kid"
Secret == 0..Rotations

\* A token of a user.  Releases before key rotation sent no kid.
Token == [kid : KeyID \cup {NoKid}, secret : Secret, role : Role, life : 0..AccessTTL]

VARIABLES
    rollout,    \* [key, phase]: the rollout under way
    settled,    \* how long ago the last instance was deployed for it, up to AccessTTL
    keys,       \* the key provider of each instance
    role,       \* the user's role in the users table
    lastHeld,   \* history: how long ago the user last had each role, up to Bound
    signing,    \* the login or refresh under way at each instance
    tokens      \* the tokens clients keep

vars == <<rollout, settled, keys, role, lastHeld, signing, tokens>>

\* How long a role may outlive its removal.
Bound == AccessTTL + LoginTime

\* A login or refresh: the role it has read, and how long ago it began.
Signing == [op : {"none", "login", "refresh"}, role : Role \cup {"none"},
            elapsed : 0..Bound]
Idle == [op |-> "none", role |-> "none", elapsed |-> 0]

-----------------------------------------------------------------------------
(* StaticKeyProvider.                                                      *)

IdOf(k) == IF k % 2 = 0 THEN "v0" ELSE "v1"

\* NewStaticKeyProvider, from an active key and legacy keys with other IDs.
Provider(active, legacy) ==
    [active |-> IdOf(active), secret |-> active,
     legacy |-> [id \in {IdOf(k) : k \in legacy} |-> CHOOSE k \in legacy : IdOf(k) = id]]

\* Mutant: only the active key is looked up.
GetKey_ActiveOnly(p, kid) == IF kid = p.active THEN {p.secret} ELSE {}

\* The secret for an ID, as a set that is empty if there is none.
GetKey(p, kid) ==
    IF kid = p.active THEN {p.secret}
    ELSE {p.legacy[id] : id \in DOMAIN p.legacy \cap {kid}}

AllKeys(p) == {p.secret} \cup {p.legacy[id] : id \in DOMAIN p.legacy}

-----------------------------------------------------------------------------
(* The middleware.                                                         *)

\* The secrets tried: the one its kid names, or all for a token without one.
Tried(p, t) == IF t.kid = NoKid THEN AllKeys(p) ELSE GetKey(p, t.kid)

\* Mutant: the expiry is not looked at.
Authenticate_NoExpiry(p, t) == t.secret \in Tried(p, t)

\* AuthenticateWithKeyProvider: signature and expiry.
Authenticate(p, t) == t.secret \in Tried(p, t) /\ t.life > 0

\* The roles of each route (registerDisbursementRoutes, RequireRole).
Route == {"POST", "GET", "PATCH", "DELETE"}

Allowed(route) ==
    CASE route \in {"POST", "GET"} -> Role
      [] route = "PATCH" -> {"ADMIN", "SUPERADMIN"}
      [] route = "DELETE" -> {"SUPERADMIN"}

Serves(i, t, route) == Authenticate(keys[i], t) /\ t.role \in Allowed(route)

-----------------------------------------------------------------------------

TokenOf(p, r, life) == [kid |-> p.active, secret |-> p.secret, role |-> r, life |-> life]

\* Mutant: the lifetime of the refresh token is used.
generateAccessToken_ForRefresh(i) ==
    TokenOf(keys[i], signing[i].role,
           IF signing[i].op = "login" THEN RefreshTTL ELSE RefreshTTL - signing[i].elapsed)

\* generateAccessToken, with the active key of the instance.  A login reads the
\* clock for it, a refresh has read the clock when it began.
generateAccessToken(i) ==
    TokenOf(keys[i], signing[i].role,
           IF signing[i].op = "login" THEN AccessTTL
           ELSE IF signing[i].elapsed < AccessTTL THEN AccessTTL - signing[i].elapsed ELSE 0)

\* Login reads the user, then checks the password.
BeginLogin(i) ==
    /\ signing[i] = Idle
    /\ signing' = [signing EXCEPT ![i] = [op |-> "login", role |-> role, elapsed |-> 0]]
    /\ UNCHANGED <<rollout, settled, keys, role, lastHeld, tokens>>

\* Refresh reads the clock, then waits for its transaction.
BeginRefresh(i) ==
    /\ signing[i] = Idle
    /\ signing' = [signing EXCEPT ![i].op = "refresh"]
    /\ UNCHANGED <<rollout, settled, keys, role, lastHeld, tokens>>

\* UserStore.FindByID.
RefreshFindsUser(i) ==
    /\ signing[i].op = "refresh" /\ signing[i].role = "none"
    /\ signing' = [signing EXCEPT ![i].role = role]
    /\ UNCHANGED <<rollout, settled, keys, role, lastHeld, tokens>>

Sign(i) ==
    /\ signing[i].role # "none"
    /\ Cardinality(tokens) < MaxTokens
    /\ tokens' = tokens \cup {generateAccessToken(i)}
    /\ signing' = [signing EXCEPT ![i] = Idle]
    /\ UNCHANGED <<rollout, settled, keys, role, lastHeld>>

\* The password is wrong, the session is not usable, or a statement fails.
Refuse(i) ==
    /\ signing[i] # Idle
    /\ signing' = [signing EXCEPT ![i] = Idle]
    /\ UNCHANGED <<rollout, settled, keys, role, lastHeld, tokens>>

Discard(t) ==
    /\ t \in tokens /\ t.life = 0
    /\ tokens' = tokens \ {t}
    /\ UNCHANGED <<rollout, settled, keys, role, lastHeld, signing>>

\* The user's role is changed in the database.
ChangeRole(r) ==
    /\ r # role
    /\ role' = r
    /\ lastHeld' = [lastHeld EXCEPT ![r] = 0]
    /\ UNCHANGED <<rollout, settled, keys, signing, tokens>>

\* The configuration that a rollout deploys.
Target ==
    CASE rollout.phase = "add" -> Provider(rollout.key, {rollout.key + 1})
      [] rollout.phase = "switch" -> Provider(rollout.key + 1, {rollout.key})
      [] rollout.phase = "drop" -> Provider(rollout.key + 1, {})

\* An instance is started again with the new configuration; what it was doing is lost.
Deploy(i) ==
    /\ keys[i] # Target
    /\ keys' = [keys EXCEPT ![i] = Target]
    /\ settled' = 0
    /\ signing' = [signing EXCEPT ![i] = Idle]
    /\ UNCHANGED <<rollout, role, lastHeld, tokens>>

\* The operator begins the next rollout.
NextRollout ==
    /\ \A i \in Instance : keys[i] = Target
    /\ \/ /\ rollout.phase = "add"
          /\ rollout' = [rollout EXCEPT !.phase = "switch"]
       \/ /\ rollout.phase = "switch"
          /\ settled = AccessTTL
          /\ rollout' = [rollout EXCEPT !.phase = "drop"]
       \/ /\ rollout.phase = "drop"
          /\ rollout.key + 1 < Rotations
          /\ rollout' = [key |-> rollout.key + 1, phase |-> "add"]
    /\ UNCHANGED <<settled, keys, role, lastHeld, signing, tokens>>

Older(n, bound) == IF n < bound THEN n + 1 ELSE n

Tick ==
    /\ \A i \in Instance : signing[i].op = "login" => signing[i].elapsed < LoginTime
    /\ tokens' = {[t EXCEPT !.life = IF @ > 0 THEN @ - 1 ELSE 0] : t \in tokens}
    /\ settled' = Older(settled, AccessTTL)
    /\ lastHeld' = [r \in Role |-> IF r = role THEN 0 ELSE Older(lastHeld[r], Bound)]
    /\ signing' = [i \in Instance |->
                     IF signing[i] = Idle THEN Idle
                     ELSE [signing[i] EXCEPT !.elapsed = Older(@, Bound)]]
    /\ UNCHANGED <<rollout, keys, role>>

-----------------------------------------------------------------------------

\* The release before has signed at most one token, with the secret in use.
Init ==
    /\ rollout = [key |-> 0, phase |-> "add"]
    /\ settled = 0
    /\ keys = [i \in Instance |-> Provider(0, {})]
    /\ role \in UserRole
    /\ lastHeld = [r \in Role |-> IF r = role THEN 0 ELSE Bound]
    /\ signing = [i \in Instance |-> Idle]
    /\ tokens \in {{}, {[kid |-> NoKid, secret |-> 0, role |-> role, life |-> AccessTTL]}}

Next ==
    \/ \E i \in Instance : \/ BeginLogin(i) \/ BeginRefresh(i) \/ RefreshFindsUser(i)
                         \/ Sign(i) \/ Refuse(i) \/ Deploy(i)
    \/ \E t \in tokens : Discard(t)
    \/ \E r \in UserRole : ChangeRole(r)
    \/ NextRollout
    \/ Tick

Spec == Init /\ [][Next]_vars

-----------------------------------------------------------------------------

\* The variables stay within their types, and no instance has its active ID
\* among its legacy keys, which config.Load refuses.
TypeOK ==
    /\ rollout \in [key : 0..Rotations - 1, phase : {"add", "switch", "drop"}]
    /\ settled \in 0..AccessTTL
    /\ \A i \in Instance :
          /\ keys[i].active \in KeyID /\ keys[i].secret \in Secret
          /\ DOMAIN keys[i].legacy \subseteq KeyID \ {keys[i].active}
          /\ \A id \in DOMAIN keys[i].legacy : keys[i].legacy[id] \in Secret
    /\ role \in Role
    /\ lastHeld \in [Role -> 0..Bound]
    /\ signing \in [Instance -> Signing]
    /\ tokens \subseteq Token

\* Every instance accepts every token that has not expired, whichever instance
\* signed it, with or without a kid, at any point of a rotation: the rotation
\* costs no client a request.
LiveTokensAccepted ==
    \A i \in Instance : \A t \in tokens : t.life > 0 => Authenticate(keys[i], t)

\* The keys of all instances are sound for the tokens there are: types, and no
\* live token refused.
KeyInvariant == TypeOK /\ LiveTokensAccepted

\* A role that was taken away stops counting on every instance once an access
\* token's lifetime has passed, and the time a login may take: Login reads the
\* role before it reads the clock.
AuthorityExpires ==
    \A i \in Instance : \A t \in tokens : \A route \in Route :
       Serves(i, t, route) => \E r \in Allowed(route) : lastHeld[r] < Bound

=============================================================================
