------------------------------ MODULE Accounts ------------------------------
(***************************************************************************)
(* Accounts and their sessions: registration, login, the rotation of       *)
(* refresh tokens, logging out, passwords, what administrators change, and *)
(* the merchants a user keeps as favourites.                               *)
(*                                                                         *)
(* As in OrderPayments a request reads, and writes over what is stored by  *)
(* then when it commits; req[r] is what it has read.  Refreshing is the    *)
(* one handler that commits twice: the old token is revoked, and only then *)
(* is the new one stored.  Handlers that decide on nothing they read       *)
(* before their one UPDATE are a single step.                              *)
(*                                                                         *)
(* A token that expired is refused like one that is revoked, but changes   *)
(* nothing: expiry is a refresh that does not happen.  The fields parent   *)
(* and old and the variable raced are history, for the properties only.    *)
(***************************************************************************)
EXTENDS Naturals, Sequences, OrderTypes

CONSTANTS
  Users,       \* accounts, by e-mail address
  Tokens,      \* refresh tokens that may come to exist
  Passwords,
  Slugs,       \* name of a shop, then the same with -1, -2 and so on
  Merchants,   \* shops that can be favourites
  Requests,
  Operations,  \* for each user, the endpoints called for the account
  Grants,      \* role and flags administrators give in this instance
  None         \* no row

ASSUME GrantsAssumption ==
  Grants \subseteq [role : Roles, active : BOOLEAN, verified : BOOLEAN]

ASSUME SlugsAssumption ==
  \A i, j \in DOMAIN Slugs : Slugs[i] = Slugs[j] => i = j

VARIABLES
  user,     \* users
  profile,  \* merchants.slug of the shop registered with an account
  tokens,   \* refresh_tokens
  mailed,   \* links in mails that were sent
  favs,     \* user_favorite_merchants: how many rows, and is one active
  req,
  raced     \* a session was being made when the user last logged out everywhere

vars == <<user, profile, tokens, mailed, favs, req, raced>>
accounts == <<user, profile, mailed>>

SlugNames == {Slugs[i] : i \in DOMAIN Slugs}
UserRow == [role : Roles, active : BOOLEAN, verified : BOOLEAN, password : Passwords]
TokenRow == [user : Users, role : Roles, revoked : BOOLEAN,
             parent : Tokens \cup {None}, old : BOOLEAN]
FavouriteRow == [rows : {0, 1}, kept : BOOLEAN]
Links == {"verify", "reset"} \X Users

ASSUME NoneAssumption == None \notin UserRow \cup TokenRow \cup Tokens \cup SlugNames

Idle == [op |-> "idle"]

Request ==
  {Idle}
  \cup [op : {"register"}, user : Users, role : {"USER", "MERCHANT"},
        slug : SlugNames \cup {None}, password : Passwords]
  \cup [op : {"login"}, user : Users, role : Roles, old : BOOLEAN]
  \cup [op : {"refresh", "refreshing"}, token : Tokens, old : BOOLEAN]
  \cup [op : {"logout"}, token : Tokens]
  \cup [op : {"password"}, user : Users, new : Passwords]
  \cup [op : {"like", "relike", "unlike"}, user : Users, merchant : Merchants]

TypeOK ==
  /\ user \in [Users -> UserRow \cup {None}]
  /\ profile \in [Users -> SlugNames \cup {None}]
  /\ tokens \in [Tokens -> TokenRow \cup {None}]
  /\ mailed \subseteq Links
  /\ favs \in [Users \X Merchants -> FavouriteRow]
  /\ req \in [Requests -> Request]
  /\ raced \in [Users -> BOOLEAN]

Init ==
  /\ user = [u \in Users |-> None]
  /\ profile = [u \in Users |-> None]
  /\ tokens = [t \in Tokens |-> None]
  /\ mailed = {}
  /\ favs = [f \in Users \X Merchants |-> [rows |-> 0, kept |-> FALSE]]
  /\ req = [r \in Requests |-> Idle]
  /\ raced = [u \in Users |-> FALSE]

-----------------------------------------------------------------------------
Registered(u) == user[u] # None
Issued(t) == tokens[t] # None
Live(t) == Issued(t) /\ ~tokens[t].revoked
TokensOf(u) == {t \in Tokens : Issued(t) /\ tokens[t].user = u}

(* get_current_user: whoever ever logged in has an access token, and it is *)
(* not looked up anywhere.                                                 *)
Authenticated(u) == TokensOf(u) # {}

Starts(r, u, op, local) ==
  /\ op \in Operations[u]
  /\ req[r] = Idle
  /\ req' = [req EXCEPT ![r] = local]

Ends(r) == req' = [req EXCEPT ![r] = Idle]

-----------------------------------------------------------------------------
(* POST /auth/register and /auth/register/merchant.  A shop gets the first *)
(* name nobody has.                                                        *)
FreeSlug ==
  LET taken == {profile[u] : u \in Users}
      free == {i \in DOMAIN Slugs : Slugs[i] \notin taken}
  IN {Slugs[i] : i \in {j \in free : \A k \in free : j <= k}}

Registers(role) == IF role = "MERCHANT" THEN "registerMerchant" ELSE "register"

ReadForRegister(r, u, role, p) ==
  /\ ~Registered(u)
  /\ \E slug \in IF role = "MERCHANT" THEN FreeSlug ELSE {None} :
       Starts(r, u, Registers(role), [op |-> "register", user |-> u, role |-> role,
                              slug |-> slug, password |-> p])
  /\ UNCHANGED <<accounts, tokens, favs, raced>>

SlugFreeMutant(s) == TRUE  \* no unique constraint

(* The unique index of the shop's name.                                    *)
SlugFree(s) == s = None \/ \A u \in Users : profile[u] # s

(* The unique index of the address is what decides, for both inserts.      *)
CommitRegister(r) ==
  /\ req[r].op = "register"
  /\ LET u == req[r].user
     IN /\ ~Registered(u) /\ SlugFree(req[r].slug)
        /\ user' = [user EXCEPT ![u] =
             [role |-> req[r].role, active |-> TRUE,
              verified |-> req[r].role = "MERCHANT", password |-> req[r].password]]
        /\ profile' = [profile EXCEPT ![u] = req[r].slug]
        /\ mailed' = IF req[r].role = "USER" THEN mailed \cup {<<"verify", u>>} ELSE mailed
  /\ Ends(r)
  /\ UNCHANGED <<tokens, favs, raced>>

(* GET /auth/verify/{token}.  A link works until it expires.               *)
VerifyEmail(u) ==
  /\ <<"verify", u>> \in mailed /\ Registered(u)
  /\ user' = [user EXCEPT ![u].verified = TRUE]
  /\ UNCHANGED <<profile, tokens, mailed, favs, req, raced>>

-----------------------------------------------------------------------------
(* POST /auth/login.                                                       *)
ReadForLogin(r, u) ==
  /\ Registered(u) /\ user[u].active /\ user[u].verified
  /\ Starts(r, u, "login", [op |-> "login", user |-> u, role |-> user[u].role, old |-> FALSE])
  /\ UNCHANGED <<accounts, tokens, favs, raced>>

(* _create_refresh_token_record.                                           *)
Stores(t, u, role, parent, old) ==
  /\ ~Issued(t)
  /\ tokens' = [tokens EXCEPT ![t] = [user |-> u, role |-> role, revoked |-> FALSE,
                                     parent |-> parent, old |-> old]]

CommitLogin(r, t) ==
  /\ req[r].op = "login"
  /\ Stores(t, req[r].user, req[r].role, None, req[r].old)
  /\ Ends(r)
  /\ UNCHANGED <<accounts, favs, raced>>

UsableMutant(t) == Issued(t)  \* revocation not looked at

(* Is the token of a refresh good?                                         *)
Usable(t) == Issued(t) /\ ~tokens[t].revoked

(* POST /auth/refresh.                                                     *)
ReadForRefresh(r, t) ==
  /\ Usable(t)
  /\ Starts(r, tokens[t].user, "refresh", [op |-> "refresh", token |-> t, old |-> tokens[t].old])
  /\ UNCHANGED <<accounts, tokens, favs, raced>>

RevokeOldMutant(r) ==  \* the revocation is left to the end
  /\ req[r].op = "refresh"
  /\ req' = [req EXCEPT ![r].op = "refreshing"]
  /\ UNCHANGED <<accounts, tokens, favs, raced>>

(* The first commit.                                                       *)
RevokeOld(r) ==
  /\ req[r].op = "refresh"
  /\ tokens' = [tokens EXCEPT ![req[r].token].revoked = TRUE]
  /\ req' = [req EXCEPT ![r].op = "refreshing"]
  /\ UNCHANGED <<accounts, favs, raced>>

(* The second: user and role come from the old token.                      *)
StoreNew(r, t) ==
  /\ req[r].op = "refreshing"
  /\ LET old == req[r].token
     IN Stores(t, tokens[old].user, tokens[old].role, old, req[r].old)
  /\ Ends(r)
  /\ UNCHANGED <<accounts, favs, raced>>

-----------------------------------------------------------------------------
(* POST /auth/logout, by the user the token belongs to.                    *)
ReadForLogout(r, t) ==
  /\ Live(t)
  /\ Starts(r, tokens[t].user, "logout", [op |-> "logout", token |-> t])
  /\ UNCHANGED <<accounts, tokens, favs, raced>>

CommitLogout(r) ==
  /\ req[r].op = "logout"
  /\ tokens' = [tokens EXCEPT ![req[r].token].revoked = TRUE]
  /\ Ends(r)
  /\ UNCHANGED <<accounts, favs, raced>>

(* A handler that will store a session of user u.                          *)
MakesSession(r, u) ==
  \/ req[r].op = "login" /\ req[r].user = u
  \/ req[r].op \in {"refresh", "refreshing"} /\ tokens[req[r].token].user = u

(* logout_all: every session of the user ends; whatever is there by now is *)
(* old from now on, sessions in the making included.                       *)
LogsOutAll(u) ==
  /\ tokens' = [t \in Tokens |->
       IF t \in TokensOf(u)
         THEN [tokens[t] EXCEPT !.revoked = TRUE, !.old = TRUE]
         ELSE tokens[t]]
  /\ req' = [r \in Requests |->
       IF MakesSession(r, u) THEN [req[r] EXCEPT !.old = TRUE] ELSE req[r]]
  /\ raced' = [raced EXCEPT ![u] = \E r \in Requests : MakesSession(r, u)]

(* POST /auth/logout/all.                                                  *)
LogoutAll(u) ==
  /\ "logoutAll" \in Operations[u] /\ Authenticated(u)
  /\ LogsOutAll(u)
  /\ UNCHANGED <<accounts, favs>>

-----------------------------------------------------------------------------
(* POST /auth/password/reset mails a link to an address that is known.     *)
RequestReset(u) ==
  /\ "reset" \in Operations[u] /\ Registered(u)
  /\ mailed' = mailed \cup {<<"reset", u>>}
  /\ UNCHANGED <<user, profile, tokens, favs, req, raced>>

(* POST /auth/password/reset/confirm; the link can be used again.          *)
ResetPassword(u, p) ==
  /\ <<"reset", u>> \in mailed /\ Registered(u)
  /\ user' = [user EXCEPT ![u].password = p]
  /\ LogsOutAll(u)
  /\ UNCHANGED <<profile, mailed, favs>>

(* POST /auth/password/change checks the current password, as it was read. *)
ReadForPassword(r, u, current, new) ==
  /\ Registered(u) /\ Authenticated(u) /\ user[u].password = current
  /\ Starts(r, u, "password", [op |-> "password", user |-> u, new |-> new])
  /\ UNCHANGED <<accounts, tokens, favs, raced>>

CommitPassword(r) ==
  /\ req[r].op = "password"
  /\ user' = [user EXCEPT ![req[r].user].password = req[r].new]
  /\ Ends(r)
  /\ UNCHANGED <<profile, mailed, tokens, favs, raced>>

(* PATCH /users/admin/{id}, and activate and deactivate: any of the three  *)
(* columns, and no session is touched.                                     *)
AdminUpdate(u, grant) ==
  /\ "admin" \in Operations[u] /\ Registered(u)
  /\ user' = [user EXCEPT ![u].role = grant.role, ![u].active = grant.active,
                          ![u].verified = grant.verified]
  /\ UNCHANGED <<profile, mailed, tokens, favs, req, raced>>

-----------------------------------------------------------------------------
(* POST /users/profile/favorites/{id}: nothing, a row that was removed     *)
(* comes back, or a new row.  Two rows would raise.                        *)
ReadForLike(r, u, m) ==
  LET f == favs[<<u, m>>]
      op == IF f.rows = 0 THEN "like" ELSE "relike"
  IN /\ Authenticated(u) /\ f.rows <= 1 /\ ~f.kept
     /\ Starts(r, u, "favourite", [op |-> op, user |-> u, merchant |-> m])
     /\ UNCHANGED <<accounts, tokens, favs, raced>>

PairFreeMutant(f) == TRUE  \* no unique constraint

(* UniqueConstraint("user_id", "merchant_id").                             *)
PairFree(f) == favs[f].rows = 0

CommitLike(r) ==
  /\ req[r].op = "like"
  /\ LET f == <<req[r].user, req[r].merchant>>
     IN /\ PairFree(f)
        /\ favs' = [favs EXCEPT ![f] = [rows |-> @.rows + 1, kept |-> TRUE]]
  /\ Ends(r)
  /\ UNCHANGED <<accounts, tokens, raced>>

(* restore.                                                                *)
CommitRelike(r) ==
  /\ req[r].op = "relike"
  /\ favs' = [favs EXCEPT ![<<req[r].user, req[r].merchant>>].kept = TRUE]
  /\ Ends(r)
  /\ UNCHANGED <<accounts, tokens, raced>>

(* DELETE /users/profile/favorites/{id}.                                   *)
ReadForUnlike(r, u, m) ==
  /\ Authenticated(u) /\ favs[<<u, m>>].kept
  /\ Starts(r, u, "favourite", [op |-> "unlike", user |-> u, merchant |-> m])
  /\ UNCHANGED <<accounts, tokens, favs, raced>>

(* soft_delete.                                                            *)
CommitUnlike(r) ==
  /\ req[r].op = "unlike"
  /\ favs' = [favs EXCEPT ![<<req[r].user, req[r].merchant>>].kept = FALSE]
  /\ Ends(r)
  /\ UNCHANGED <<accounts, tokens, raced>>

-----------------------------------------------------------------------------
(* The current transaction rolls back; what was committed stays.           *)
Rollback(r) ==
  /\ req[r] # Idle
  /\ Ends(r)
  /\ UNCHANGED <<accounts, tokens, favs, raced>>

SessionRequest(r) ==
  \/ \E u \in Users : ReadForLogin(r, u)
  \/ RevokeOld(r)
  \/ CommitLogout(r)
  \/ \E t \in Tokens :
       ReadForRefresh(r, t) \/ ReadForLogout(r, t) \/ CommitLogin(r, t) \/ StoreNew(r, t)

AccountRequest(r) ==
  \/ \E u \in Users, p \in Passwords :
       \/ \E role \in {"USER", "MERCHANT"} : ReadForRegister(r, u, role, p)
       \/ \E new \in Passwords : ReadForPassword(r, u, p, new)
  \/ CommitRegister(r)
  \/ CommitPassword(r)

FavouriteRequest(r) ==
  \/ \E u \in Users, m \in Merchants : ReadForLike(r, u, m) \/ ReadForUnlike(r, u, m)
  \/ CommitLike(r)
  \/ CommitRelike(r)
  \/ CommitUnlike(r)

Next ==
  \/ \E r \in Requests :
       SessionRequest(r) \/ AccountRequest(r) \/ FavouriteRequest(r) \/ Rollback(r)
  \/ \E u \in Users :
       \/ VerifyEmail(u) \/ LogoutAll(u) \/ RequestReset(u)
       \/ \E p \in Passwords : ResetPassword(u, p)
       \/ \E grant \in Grants : AdminUpdate(u, grant)

Spec == Init /\ [][Next]_vars

-----------------------------------------------------------------------------
(* A refresh never leaves the token it started from usable beside the one  *)
(* it made, even when it stops between its commits or overlaps another:    *)
(* the old one is revoked before the next one exists, and stays so.  (Two  *)
(* refreshes that overlap make two successors of one token.)               *)
RotationRevokes ==
  \A t \in Tokens : Issued(t) /\ tokens[t].parent # None =>
    Issued(tokens[t].parent) /\ tokens[tokens[t].parent].revoked

(* After logging out everywhere, or a reset of the password, no session    *)
(* from before is usable, nor one refreshed from it: unless a login or a   *)
(* refresh of the user was under way at that very moment.                  *)
LogoutAllEndsSessions ==
  \A t \in Tokens : Live(t) /\ tokens[t].old => raced[tokens[t].user]

(* Names of shops and pairs of user and favourite are unique, also when    *)
(* two requests found the same one free; no shop without its account.      *)
KeysUnique ==
  /\ \A u, v \in Users : profile[u] = profile[v] /\ profile[u] # None => u = v
  /\ \A u \in Users : profile[u] # None => Registered(u)
  /\ \A f \in Users \X Merchants : favs[f].rows <= 1
=============================================================================
