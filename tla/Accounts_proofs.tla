--------------------------- MODULE Accounts_proofs ---------------------------
(***************************************************************************)
(* Proofs about accounts and sessions, for any users, tokens, requests and *)
(* any operations they call.                                               *)
(*                                                                         *)
(* A handler under way acts later on what it has read.  What stays true of *)
(* that is QOK: the token it works on exists, the old token of a refresh   *)
(* between its commits is revoked, and what is marked old belongs to a     *)
(* user who left everywhere while a session was being made.                *)
(***************************************************************************)
EXTENDS Accounts, TLAPS

(* The user a session in the making is for.                                *)
For(q) == IF q.op = "login" THEN q.user ELSE tokens[q.token].user

Making(q) == q.op \in {"login", "refresh", "refreshing"}

QOK(q) ==
  /\ q.op \in {"refresh", "refreshing", "logout"} => Issued(q.token)
  /\ q.op = "refreshing" => tokens[q.token].revoked
  /\ q.op = "password" => Registered(q.user)
  /\ Making(q) /\ q.old => raced[For(q)]

Inv ==
  /\ TypeOK
  /\ \A r \in Requests : QOK(req[r])
  /\ RotationRevokes
  /\ LogoutAllEndsSessions
  /\ KeysUnique

-----------------------------------------------------------------------------
(* The fields of a request, by its operation.                              *)
LEMMA Fields ==
  ASSUME NEW q \in Request
  PROVE  /\ q.op = "register" => /\ q.user \in Users /\ q.password \in Passwords
                                 /\ q.role \in {"USER", "MERCHANT"}
                                 /\ q.slug \in SlugNames \cup {None}
         /\ q.op = "login" => q.user \in Users /\ q.role \in Roles /\ q.old \in BOOLEAN
         /\ q.op \in {"refresh", "refreshing"} => q.token \in Tokens /\ q.old \in BOOLEAN
         /\ q.op = "logout" => q.token \in Tokens
         /\ q.op = "password" => q.user \in Users /\ q.new \in Passwords
         /\ q.op \in {"like", "relike", "unlike"} =>
              q.user \in Users /\ q.merchant \in Merchants
  BY DEF Request, Idle

(* A handler that starts, goes on or ends without writing anything.        *)
LEMMA OnlyReq ==
  ASSUME Inv, NEW r \in Requests, NEW q \in Request, QOK(q),
         req' = [req EXCEPT ![r] = q],
         UNCHANGED <<accounts, tokens, favs, raced>>
  PROVE  Inv'
<1>1. TypeOK'
  BY DEF Inv, TypeOK, accounts
<1>2. \A s \in Requests : QOK(req[s])'
  BY DEF Inv, TypeOK, accounts, QOK, For, Making, Issued, Registered
<1>3. RotationRevokes' /\ LogoutAllEndsSessions' /\ KeysUnique'
  BY DEF Inv, RotationRevokes, LogoutAllEndsSessions, KeysUnique,
         accounts, Issued, Live, Registered
<1>4. QED BY <1>1, <1>2, <1>3 DEF Inv

LEMMA IdleOK == Idle \in Request /\ QOK(Idle)
  BY DEF Idle, Request, QOK, Making

-----------------------------------------------------------------------------
(* The handlers that only read.                                            *)
LEMMA StartsOK ==
  ASSUME Inv, NEW r \in Requests, NEW u, NEW op, NEW q \in Request, QOK(q),
         Starts(r, u, op, q), UNCHANGED <<accounts, tokens, favs, raced>>
  PROVE  Inv'
  BY OnlyReq DEF Starts

LEMMA InvReadForRegister ==
  ASSUME Inv, NEW r \in Requests, NEW u \in Users, NEW role \in {"USER", "MERCHANT"},
         NEW p \in Passwords, ReadForRegister(r, u, role, p)
  PROVE  Inv'
<1>1. PICK slug \in IF role = "MERCHANT" THEN FreeSlug ELSE {None} :
        Starts(r, u, Registers(role), [op |-> "register", user |-> u, role |-> role,
                                       slug |-> slug, password |-> p])
  BY DEF ReadForRegister
<1>2. slug \in SlugNames \cup {None}
  BY DEF FreeSlug, SlugNames
<1> DEFINE q == [op |-> "register", user |-> u, role |-> role, slug |-> slug, password |-> p]
<1>3. q \in Request /\ QOK(q)
  BY <1>2 DEF Request, QOK, Making
<1>4. QED BY <1>1, <1>3, StartsOK DEF ReadForRegister

LEMMA InvReadForLogin ==
  ASSUME Inv, NEW r \in Requests, NEW u \in Users, ReadForLogin(r, u)
  PROVE  Inv'
<1> DEFINE q == [op |-> "login", user |-> u, role |-> user[u].role, old |-> FALSE]
<1>1. user[u].role \in Roles
  BY DEF Inv, TypeOK, UserRow, ReadForLogin, Registered
<1>2. q \in Request /\ QOK(q)
  BY <1>1 DEF Request, QOK, Making
<1>3. QED BY <1>2, StartsOK DEF ReadForLogin

LEMMA InvReadForRefresh ==
  ASSUME Inv, NEW r \in Requests, NEW t \in Tokens, ReadForRefresh(r, t)
  PROVE  Inv'
<1> DEFINE q == [op |-> "refresh", token |-> t, old |-> tokens[t].old]
<1>1. Live(t) /\ tokens[t] \in TokenRow
  BY DEF Inv, TypeOK, ReadForRefresh, Usable, Live, Issued
<1>2. q \in Request
  BY <1>1 DEF Request, TokenRow
<1>3. QOK(q)
  BY <1>1 DEF Inv, LogoutAllEndsSessions, QOK, Making, For, Live
<1>4. QED BY <1>2, <1>3, StartsOK DEF ReadForRefresh

LEMMA InvReadForLogout ==
  ASSUME Inv, NEW r \in Requests, NEW t \in Tokens, ReadForLogout(r, t)
  PROVE  Inv'
<1> DEFINE q == [op |-> "logout", token |-> t]
<1>1. q \in Request /\ QOK(q)
  BY DEF Request, QOK, Making, ReadForLogout, Live
<1>2. QED BY <1>1, StartsOK DEF ReadForLogout

LEMMA InvReadForPassword ==
  ASSUME Inv, NEW r \in Requests, NEW u \in Users, NEW p \in Passwords,
         NEW new \in Passwords, ReadForPassword(r, u, p, new)
  PROVE  Inv'
<1> DEFINE q == [op |-> "password", user |-> u, new |-> new]
<1>1. q \in Request /\ QOK(q)
  BY DEF Request, QOK, Making, ReadForPassword
<1>2. QED BY <1>1, StartsOK DEF ReadForPassword

LEMMA InvReadForLike ==
  ASSUME Inv, NEW r \in Requests, NEW u \in Users, NEW m \in Merchants,
         ReadForLike(r, u, m) \/ ReadForUnlike(r, u, m)
  PROVE  Inv'
<1>1. PICK op \in {"like", "relike", "unlike"} :
        Starts(r, u, "favourite", [op |-> op, user |-> u, merchant |-> m])
  BY DEF ReadForLike, ReadForUnlike
<1> DEFINE q == [op |-> op, user |-> u, merchant |-> m]
<1>2. q \in Request /\ QOK(q)
  BY DEF Request, QOK, Making
<1>3. QED BY <1>1, <1>2, StartsOK DEF ReadForLike, ReadForUnlike

LEMMA InvRollback ==
  ASSUME Inv, NEW r \in Requests, Rollback(r)
  PROVE  Inv'
  BY IdleOK, OnlyReq DEF Rollback, Ends

-----------------------------------------------------------------------------
(* What writes accounts or favourites, and no token: accounts stay.        *)
LEMMA NoToken ==
  ASSUME Inv, TypeOK', KeysUnique', UNCHANGED <<tokens, raced>>,
         \A s \in Requests : req'[s] = req[s] \/ req'[s] = Idle,
         \A u \in Users : Registered(u) => Registered(u)'
  PROVE  Inv'
<1>1. \A s \in Requests : QOK(req[s])'
  <2> SUFFICES ASSUME NEW s \in Requests PROVE QOK(req[s])'
    OBVIOUS
  <2>1. CASE req'[s] = Idle
    BY <2>1 DEF QOK, Making, Idle
  <2>2. CASE req'[s] = req[s]
    <3>1. QOK(req[s]) /\ req[s] \in Request
      BY DEF Inv, TypeOK
    <3>2. req[s].op = "password" => req[s].user \in Users
      BY <3>1, Fields
    <3>3. QED BY <2>2, <3>1, <3>2 DEF QOK, Making, For, Issued
  <2>3. QED BY <2>1, <2>2
<1>2. RotationRevokes' /\ LogoutAllEndsSessions'
  BY DEF Inv, RotationRevokes, LogoutAllEndsSessions, Issued, Live
<1>3. QED BY <1>1, <1>2 DEF Inv

LEMMA InvCommitRegister ==
  ASSUME Inv, NEW r \in Requests, CommitRegister(r)
  PROVE  Inv'
<1> DEFINE u == req[r].user
           row == [role |-> req[r].role, active |-> TRUE,
                   verified |-> req[r].role = "MERCHANT", password |-> req[r].password]
<1>1. /\ u \in Users /\ req[r].password \in Passwords
      /\ req[r].role \in {"USER", "MERCHANT"} /\ req[r].slug \in SlugNames \cup {None}
  BY Fields DEF Inv, TypeOK, CommitRegister
<1>2. row \in UserRow
  BY <1>1 DEF UserRow, Roles
<1>3. /\ ~Registered(u) /\ SlugFree(req[r].slug)
      /\ user' = [user EXCEPT ![u] = row]
      /\ profile' = [profile EXCEPT ![u] = req[r].slug]
      /\ mailed' \in {mailed, mailed \cup {<<"verify", u>>}}
      /\ req' = [req EXCEPT ![r] = Idle]
      /\ UNCHANGED <<tokens, favs, raced>>
  BY DEF CommitRegister, Ends
<1>4. TypeOK'
  BY <1>1, <1>2, <1>3, IdleOK DEF Inv, TypeOK, Links
<1>5. KeysUnique'
  BY <1>1, <1>2, <1>3, NoneAssumption DEF Inv, TypeOK, KeysUnique, SlugFree, Registered
<1>6. \A v \in Users : Registered(v) => Registered(v)'
  BY <1>1, <1>2, <1>3, NoneAssumption DEF Inv, TypeOK, Registered
<1>7. QED BY <1>3, <1>4, <1>5, <1>6, NoToken DEF Inv, TypeOK

(* One column or more of an account changes.                               *)
LEMMA RowChanges ==
  ASSUME Inv, NEW u \in Users, NEW row \in UserRow, Registered(u),
         user' = [user EXCEPT ![u] = row], mailed' = mailed,
         req' \in [Requests -> Request],
         \A s \in Requests : req'[s] = req[s] \/ req'[s] = Idle,
         UNCHANGED <<profile, tokens, favs, raced>>
  PROVE  Inv'
<1>1. TypeOK'
  BY DEF Inv, TypeOK
<1>2. \A v \in Users : Registered(v) => Registered(v)'
  BY NoneAssumption DEF Inv, TypeOK, Registered
<1>3. KeysUnique'
  BY <1>2 DEF Inv, KeysUnique, Registered
<1>4. QED BY <1>1, <1>2, <1>3, NoToken

LEMMA InvVerifyEmail ==
  ASSUME Inv, NEW u \in Users, VerifyEmail(u)
  PROVE  Inv'
<1> DEFINE row == [user[u] EXCEPT !.verified = TRUE]
<1>1. row \in UserRow
  BY DEF Inv, TypeOK, UserRow, VerifyEmail, Registered
<1>2. QED BY <1>1, RowChanges DEF Inv, TypeOK, VerifyEmail

LEMMA InvAdminUpdate ==
  ASSUME Inv, NEW u \in Users, NEW grant \in Grants, AdminUpdate(u, grant)
  PROVE  Inv'
<1> DEFINE row == [user[u] EXCEPT !.role = grant.role, !.active = grant.active,
                                  !.verified = grant.verified]
<1>1. user[u] \in UserRow /\ grant \in [role : Roles, active : BOOLEAN, verified : BOOLEAN]
  BY GrantsAssumption DEF Inv, TypeOK, AdminUpdate, Registered
<1>2. row \in UserRow
  BY <1>1 DEF UserRow
<1>3. user' = [user EXCEPT ![u] = row]
  BY <1>1 DEF AdminUpdate, UserRow
<1>4. QED BY <1>2, <1>3, RowChanges DEF Inv, TypeOK, AdminUpdate

LEMMA InvCommitPassword ==
  ASSUME Inv, NEW r \in Requests, CommitPassword(r)
  PROVE  Inv'
<1> DEFINE u == req[r].user
           row == [user[u] EXCEPT !.password = req[r].new]
<1>1. u \in Users /\ req[r].new \in Passwords /\ Registered(u)
  BY Fields DEF Inv, TypeOK, QOK, CommitPassword
<1>2. row \in UserRow
  BY <1>1 DEF Inv, TypeOK, UserRow, Registered
<1>3. req' \in [Requests -> Request] /\ \A s \in Requests : req'[s] = req[s] \/ req'[s] = Idle
  BY IdleOK DEF Inv, TypeOK, CommitPassword, Ends
<1>4. QED BY <1>1, <1>2, <1>3, RowChanges DEF CommitPassword

LEMMA InvRequestReset ==
  ASSUME Inv, NEW u \in Users, RequestReset(u)
  PROVE  Inv'
<1>1. TypeOK'
  BY DEF Inv, TypeOK, RequestReset, Links
<1>2. KeysUnique' /\ \A v \in Users : Registered(v) => Registered(v)'
  BY DEF Inv, KeysUnique, RequestReset, Registered
<1>3. QED BY <1>1, <1>2, NoToken DEF RequestReset

(* A favourite is added, comes back or goes.                               *)
LEMMA InvFavourite ==
  ASSUME Inv, NEW r \in Requests, CommitLike(r) \/ CommitRelike(r) \/ CommitUnlike(r)
  PROVE  Inv'
<1> DEFINE f == <<req[r].user, req[r].merchant>>
<1>1. f \in Users \X Merchants
  BY Fields DEF Inv, TypeOK, CommitLike, CommitRelike, CommitUnlike
<1>2. favs[f] \in FavouriteRow
  BY <1>1 DEF Inv, TypeOK
<1>3. PICK row \in FavouriteRow : favs' = [favs EXCEPT ![f] = row]
  <2>1. CASE CommitLike(r)
    <3> DEFINE row == [rows |-> 1, kept |-> TRUE]
    <3>1. favs[f].rows = 0 /\ row \in FavouriteRow
      BY <2>1 DEF CommitLike, PairFree, FavouriteRow
    <3>2. favs' = [favs EXCEPT ![f] = row]
      BY <1>1, <2>1, <3>1 DEF CommitLike, Inv, TypeOK
    <3>3. QED BY <3>1, <3>2
  <2>2. CASE CommitRelike(r)
    BY <1>1, <1>2, <2>2 DEF CommitRelike, FavouriteRow
  <2>3. CASE CommitUnlike(r)
    BY <1>1, <1>2, <2>3 DEF CommitUnlike, FavouriteRow
  <2>4. QED BY <2>1, <2>2, <2>3
<1>4. req' = [req EXCEPT ![r] = Idle] /\ UNCHANGED <<accounts, tokens, raced>>
  BY DEF CommitLike, CommitRelike, CommitUnlike, Ends
<1>5. TypeOK'
  BY <1>1, <1>3, <1>4, IdleOK DEF Inv, TypeOK, accounts
<1>6. KeysUnique'
  BY <1>3, <1>4, <1>5 DEF Inv, KeysUnique, TypeOK, accounts, Registered, FavouriteRow
<1>7. QED BY <1>4, <1>5, <1>6, NoToken DEF Inv, TypeOK, accounts, Registered

-----------------------------------------------------------------------------
(* What writes tokens.  A token keeps its user, its role and its parent,   *)
(* and what is revoked stays so.                                           *)
Kept ==
  \A t \in Tokens : Issued(t) =>
    /\ Issued(t)' /\ tokens'[t].user = tokens[t].user
    /\ tokens'[t].role = tokens[t].role /\ tokens'[t].parent = tokens[t].parent
    /\ tokens[t].revoked => tokens'[t].revoked

(* Requests that do not change, or end, stay sound while tokens are kept   *)
(* and nobody stops being one who left everywhere.                         *)
LEMMA QKept ==
  ASSUME Inv, Kept, UNCHANGED <<user, raced>>, NEW s \in Requests,
         req'[s] = req[s] \/ req'[s] = Idle
  PROVE  QOK(req[s])'
<1>1. CASE req'[s] = Idle
  BY <1>1 DEF QOK, Making, Idle
<1>2. CASE req'[s] = req[s]
  <2>1. QOK(req[s]) /\ req[s] \in Request
    BY DEF Inv, TypeOK
  <2>2. req[s].op \in {"refresh", "refreshing", "logout"} => req[s].token \in Tokens
    BY <2>1, Fields
  <2>3. QED BY <1>2, <2>1, <2>2 DEF QOK, Making, For, Kept, Registered
<1>3. QED BY <1>1, <1>2

(* A new token: of a login, or of a refresh that has revoked the old one.  *)
LEMMA NewToken ==
  ASSUME Inv, NEW r \in Requests, NEW t \in Tokens, NEW u \in Users, NEW role \in Roles,
         NEW parent \in Tokens \cup {None}, NEW old \in BOOLEAN,
         Stores(t, u, role, parent, old), Ends(r), UNCHANGED <<accounts, favs, raced>>,
         old => raced[u],
         parent # None => /\ Issued(parent) /\ tokens[parent].revoked
                          /\ tokens[parent].user = u /\ tokens[parent].role = role
  PROVE  Inv'
<1> DEFINE row == [user |-> u, role |-> role, revoked |-> FALSE, parent |-> parent,
                   old |-> old]
<1>a. row \in TokenRow
  BY DEF TokenRow
<1>1. /\ row \in TokenRow /\ row # None /\ ~Issued(t)
      /\ tokens' = [tokens EXCEPT ![t] = row] /\ req' = [req EXCEPT ![r] = Idle]
  BY <1>a, NoneAssumption DEF Stores, Ends
<1>2. TypeOK'
  BY <1>1, IdleOK DEF Inv, TypeOK, accounts
<1>3. Kept
  BY <1>1 DEF Inv, TypeOK, Kept, Issued
<1>4. \A s \in Requests : QOK(req[s])'
  BY <1>1, <1>3, QKept DEF accounts, Inv, TypeOK
<1>5. \A s \in Tokens : tokens'[s] = IF s = t THEN row ELSE tokens[s]
  BY <1>1 DEF Inv, TypeOK
<1>6. \A s \in Tokens : s # t /\ Issued(s) /\ tokens[s].parent # None =>
        tokens[s].parent \in Tokens /\ tokens[s].parent # t
  BY <1>1 DEF Inv, TypeOK, RotationRevokes, Issued, TokenRow
<1>7. RotationRevokes'
  BY <1>1, <1>5, <1>6 DEF Inv, RotationRevokes, Issued
<1>8. LogoutAllEndsSessions' /\ KeysUnique'
  BY <1>5 DEF Inv, LogoutAllEndsSessions, KeysUnique, accounts, Issued, Live, Registered
<1>9. QED BY <1>2, <1>4, <1>7, <1>8 DEF Inv

LEMMA InvCommitLogin ==
  ASSUME Inv, NEW r \in Requests, NEW t \in Tokens, CommitLogin(r, t)
  PROVE  Inv'
<1>1. /\ req[r].user \in Users /\ req[r].role \in Roles /\ req[r].old \in BOOLEAN
      /\ req[r].old => raced[req[r].user]
  BY Fields DEF Inv, TypeOK, QOK, Making, For, CommitLogin
<1>2. QED BY <1>1, NewToken DEF CommitLogin

LEMMA InvStoreNew ==
  ASSUME Inv, NEW r \in Requests, NEW t \in Tokens, StoreNew(r, t)
  PROVE  Inv'
<1> DEFINE old == req[r].token
<1>1. /\ old \in Tokens /\ req[r].old \in BOOLEAN
      /\ Issued(old) /\ tokens[old].revoked
      /\ req[r].old => raced[tokens[old].user]
  BY Fields DEF Inv, TypeOK, QOK, Making, For, StoreNew
<1>2. tokens[old] \in TokenRow
  BY <1>1 DEF Inv, TypeOK, Issued
<1>3. tokens[old].user \in Users /\ tokens[old].role \in Roles
  BY <1>2 DEF TokenRow
<1>4. QED BY <1>1, <1>3, NewToken DEF StoreNew

(* A token is revoked, by a refresh or by leaving.                         *)
LEMMA Revoking ==
  ASSUME Inv, NEW r \in Requests, NEW t \in Tokens, Issued(t), NEW q \in Request, QOK(q)',
         tokens' = [tokens EXCEPT ![t].revoked = TRUE], req' = [req EXCEPT ![r] = q],
         UNCHANGED <<accounts, favs, raced>>
  PROVE  Inv'
<1> DEFINE row == [tokens[t] EXCEPT !.revoked = TRUE]
<1>1. row \in TokenRow /\ row # None /\ tokens' = [tokens EXCEPT ![t] = row]
  BY NoneAssumption DEF Inv, TypeOK, TokenRow, Issued
<1>2. /\ row.user = tokens[t].user /\ row.role = tokens[t].role
      /\ row.parent = tokens[t].parent /\ row.old = tokens[t].old /\ row.revoked
  BY DEF Inv, TypeOK, TokenRow, Issued
<1>3. TypeOK'
  BY <1>1 DEF Inv, TypeOK, accounts
<1> HIDE DEF row
<1>4. Kept
  BY <1>1, <1>2 DEF Inv, TypeOK, Kept, Issued
<1>5. \A s \in Requests : QOK(req[s])'
  <2> SUFFICES ASSUME NEW s \in Requests PROVE QOK(req[s])'
    OBVIOUS
  <2>1. CASE s = r
    BY <2>1 DEF Inv, TypeOK, QOK, Making, For, Issued, Registered
  <2>2. CASE s # r
    BY <1>4, <2>2, QKept DEF Inv, TypeOK, accounts
  <2>3. QED BY <2>1, <2>2
<1>6. \A s \in Tokens : tokens'[s] = IF s = t THEN row ELSE tokens[s]
  BY <1>1 DEF Inv, TypeOK
<1>7. RotationRevokes'
  <2>1. \A s \in Tokens :
          /\ Issued(s)' => Issued(s)
          /\ Issued(s) => /\ Issued(s)' /\ tokens'[s].user = tokens[s].user
                          /\ tokens'[s].role = tokens[s].role
                          /\ tokens'[s].parent = tokens[s].parent
                          /\ tokens[s].revoked => tokens'[s].revoked
    BY <1>1, <1>2, <1>6 DEF Issued
  <2>2. \A s \in Tokens : Issued(s) /\ tokens[s].parent # None => tokens[s].parent \in Tokens
    BY DEF Inv, TypeOK, TokenRow, Issued
  <2>3. QED BY <2>1, <2>2 DEF Inv, RotationRevokes
<1>8. LogoutAllEndsSessions' /\ KeysUnique'
  BY <1>2, <1>6 DEF Inv, LogoutAllEndsSessions, KeysUnique, accounts, Issued, Live, Registered
<1>9. QED BY <1>3, <1>5, <1>7, <1>8 DEF Inv

LEMMA InvRevokeOld ==
  ASSUME Inv, NEW r \in Requests, RevokeOld(r)
  PROVE  Inv'
<1>1. PICK t \in Tokens, old \in BOOLEAN :
        req[r] = [op |-> "refresh", token |-> t, old |-> old]
  BY DEF Inv, TypeOK, Request, Idle, RevokeOld
<1>2. PICK q \in Request : q = [op |-> "refreshing", token |-> t, old |-> old]
  BY <1>1 DEF Request
<1>3. /\ tokens' = [tokens EXCEPT ![t].revoked = TRUE]
      /\ req' = [req EXCEPT ![r] = q] /\ UNCHANGED <<accounts, favs, raced>>
  <2>1. [req[r] EXCEPT !.op = "refreshing"] = q
    BY <1>1, <1>2
  <2>2. req[r].token = t
    BY <1>1
  <2>3. QED BY <2>1, <2>2 DEF RevokeOld
<1>4. QOK(req[r])
  BY DEF Inv
<1>5. Issued(t) /\ tokens[t] \in TokenRow /\ (old => raced[tokens[t].user])
  BY <1>1, <1>4 DEF QOK, Making, For, Inv, TypeOK, Issued
<1>6. QOK(q)'
  <2> DEFINE row == [tokens[t] EXCEPT !.revoked = TRUE]
  <2>1. row \in TokenRow /\ row.revoked /\ row.user = tokens[t].user
    BY <1>5 DEF TokenRow
  <2>2. row # None
    BY <2>1, NoneAssumption
  <2>3. tokens'[t] = row /\ raced' = raced
    BY <1>3 DEF Inv, TypeOK
  <2>4. QED BY <1>2, <1>5, <2>1, <2>2, <2>3 DEF QOK, Making, For, Issued
<1>7. QED BY <1>3, <1>5, <1>6, Revoking

LEMMA InvCommitLogout ==
  ASSUME Inv, NEW r \in Requests, CommitLogout(r)
  PROVE  Inv'
<1>1. req[r].token \in Tokens /\ Issued(req[r].token)
  BY Fields DEF Inv, TypeOK, QOK, CommitLogout
<1>2. QOK(Idle)'
  BY DEF QOK, Making, Idle
<1>3. QED BY <1>1, <1>2, IdleOK, Revoking DEF CommitLogout, Ends

-----------------------------------------------------------------------------
(* Leaving everywhere: all tokens of the user are revoked.  Unless one is  *)
(* being made, none that is old will come back.                            *)
LEMMA LeavesEverywhere ==
  ASSUME Inv, NEW u \in Users, LogsOutAll(u), favs' = favs,
         user' \in [Users -> UserRow \cup {None}], profile' = profile, mailed' = mailed,
         \A v \in Users : Registered(v) => Registered(v)'
  PROVE  Inv'
<1> DEFINE new(t) == [tokens[t] EXCEPT !.revoked = TRUE, !.old = TRUE]
           made(r) == [req[r] EXCEPT !.old = TRUE]
<1>1. \A t \in TokensOf(u) :
        /\ t \in Tokens /\ Issued(t) /\ tokens[t].user = u
        /\ new(t) \in TokenRow /\ new(t) # None
        /\ new(t).user = u /\ new(t).role = tokens[t].role
        /\ new(t).parent = tokens[t].parent /\ new(t).revoked
  <2> SUFFICES ASSUME NEW t \in TokensOf(u)
               PROVE  /\ t \in Tokens /\ Issued(t) /\ tokens[t].user = u
                      /\ new(t) \in TokenRow /\ new(t) # None
                      /\ new(t).user = u /\ new(t).role = tokens[t].role
                      /\ new(t).parent = tokens[t].parent /\ new(t).revoked
    OBVIOUS
  <2>1. t \in Tokens /\ Issued(t) /\ tokens[t].user = u
    BY DEF TokensOf
  <2>2. tokens[t] \in TokenRow
    BY <2>1 DEF Inv, TypeOK, Issued
  <2>3. new(t) \in TokenRow /\ new(t).user = u /\ new(t).role = tokens[t].role
        /\ new(t).parent = tokens[t].parent /\ new(t).revoked
    BY <2>1, <2>2 DEF TokenRow
  <2>4. QED BY <2>1, <2>3, NoneAssumption
<1>2. \A t \in Tokens : tokens'[t] = IF t \in TokensOf(u) THEN new(t) ELSE tokens[t]
  BY DEF LogsOutAll
<1>3. \A r \in Requests : MakesSession(r, u) <=> Making(req[r]) /\ For(req[r]) = u
  BY DEF MakesSession, Making, For
<1>4. \A r \in Requests : Making(req[r]) =>
        /\ made(r) \in Request /\ made(r).op = req[r].op
        /\ made(r).op = "login" => made(r).user = req[r].user
        /\ made(r).op # "login" => made(r).token = req[r].token
  <2> SUFFICES ASSUME NEW r \in Requests, Making(req[r])
               PROVE  /\ made(r) \in Request /\ made(r).op = req[r].op
                      /\ made(r).op = "login" => made(r).user = req[r].user
                      /\ made(r).op # "login" => made(r).token = req[r].token
    OBVIOUS
  <2>1. CASE req[r] \in [op : {"login"}, user : Users, role : Roles, old : BOOLEAN]
    BY <2>1 DEF Request
  <2>2. CASE req[r] \in [op : {"refresh", "refreshing"}, token : Tokens, old : BOOLEAN]
    BY <2>2 DEF Request
  <2>3. QED BY <2>1, <2>2 DEF Inv, TypeOK, Request, Making, Idle
<1>5. \A r \in Requests :
        req'[r] = IF Making(req[r]) /\ For(req[r]) = u THEN made(r) ELSE req[r]
  BY <1>3 DEF LogsOutAll
<1>6. \A v \in Users : raced'[v] =
        IF v = u THEN \E r \in Requests : Making(req[r]) /\ For(req[r]) = u ELSE raced[v]
  BY <1>3 DEF LogsOutAll, Inv, TypeOK
<1> HIDE DEF new, made
<1>7. TypeOK'
  <2>1. tokens' \in [Tokens -> TokenRow \cup {None}]
    <3>1. tokens' = [t \in Tokens |-> tokens'[t]]
      BY DEF LogsOutAll
    <3>2. \A t \in Tokens : tokens'[t] \in TokenRow \cup {None}
      BY <1>1, <1>2 DEF Inv, TypeOK
    <3>3. QED BY <3>1, <3>2
  <2>2. req' \in [Requests -> Request]
    <3>1. req' = [r \in Requests |-> req'[r]]
      BY DEF LogsOutAll
    <3>2. \A r \in Requests : req'[r] \in Request
      BY <1>4, <1>5 DEF Inv, TypeOK
    <3>3. QED BY <3>1, <3>2
  <2>3. raced' \in [Users -> BOOLEAN]
    BY DEF LogsOutAll, Inv, TypeOK
  <2>4. QED BY <2>1, <2>2, <2>3 DEF Inv, TypeOK
<1>8. Kept
  BY <1>1, <1>2 DEF Kept, Issued
<1>9. \A t \in Tokens : Issued(t)' => Issued(t)
  BY <1>1, <1>2 DEF Issued
<1>10. \A r \in Requests : QOK(req[r])'
  <2> SUFFICES ASSUME NEW r \in Requests PROVE QOK(req[r])'
    OBVIOUS
  <2>1. QOK(req[r]) /\ req[r] \in Request
    BY DEF Inv, TypeOK
  <2>2. /\ req[r].op \in {"refresh", "refreshing", "logout"} => req[r].token \in Tokens
        /\ req[r].op \in {"login", "password"} => req[r].user \in Users
    BY <2>1, Fields
  <2>3. /\ req'[r].op = req[r].op
        /\ req[r].op \in {"refresh", "refreshing", "logout"} => req'[r].token = req[r].token
        /\ req[r].op \in {"login", "password"} => req'[r].user = req[r].user
    BY <1>4, <1>5 DEF Making
  <2>4. req[r].op \in {"refresh", "refreshing", "logout"} => Issued(req[r].token)'
    BY <1>8, <2>1, <2>2, <2>3 DEF QOK, Kept
  <2>5. req[r].op = "refreshing" => tokens'[req'[r].token].revoked
    BY <1>8, <2>1, <2>2, <2>3 DEF QOK, Kept
  <2>6. req[r].op = "password" => Registered(req[r].user)'
    BY <2>1, <2>2, <2>3 DEF QOK
  <2>7. Making(req[r]) => For(req[r])' = For(req[r]) /\ For(req[r]) \in Users
    BY <1>8, <2>1, <2>2, <2>3 DEF Making, For, QOK, Kept, Inv, TypeOK, TokenRow, Issued
  <2>8. Making(req[r]) /\ req'[r].old => raced'[For(req[r])]
    <3>1. CASE Making(req[r]) /\ For(req[r]) = u
      BY <1>6, <2>7, <3>1
    <3>2. CASE Making(req[r]) /\ For(req[r]) # u
      BY <1>5, <1>6, <2>1, <2>7, <3>2 DEF QOK
    <3>3. QED BY <3>1, <3>2
  <2>9. QED BY <2>3, <2>4, <2>5, <2>6, <2>7, <2>8 DEF QOK, Making
<1>11. RotationRevokes'
  <2>1. \A t \in Tokens : Issued(t) /\ tokens[t].parent # None => tokens[t].parent \in Tokens
    BY DEF Inv, TypeOK, TokenRow, Issued
  <2>2. QED BY <1>8, <1>9, <2>1 DEF Inv, Kept, RotationRevokes
<1>12. LogoutAllEndsSessions'
  <2> SUFFICES ASSUME NEW t \in Tokens, Live(t)', tokens'[t].old PROVE raced'[tokens'[t].user]
    BY DEF LogoutAllEndsSessions
  <2>1. t \notin TokensOf(u) /\ tokens'[t] = tokens[t] /\ Issued(t)
    BY <1>1, <1>2, <1>9 DEF Live
  <2>2. tokens[t].user \in Users /\ tokens[t].user # u /\ Live(t)
    BY <2>1 DEF TokensOf, Inv, TypeOK, TokenRow, Issued, Live
  <2>3. QED BY <1>6, <2>1, <2>2 DEF Inv, LogoutAllEndsSessions
<1>13. KeysUnique'
  BY DEF Inv, KeysUnique
<1>14. QED BY <1>7, <1>10, <1>11, <1>12, <1>13 DEF Inv

LEMMA InvLogoutAll ==
  ASSUME Inv, NEW u \in Users, LogoutAll(u)
  PROVE  Inv'
<1>1. LogsOutAll(u) /\ UNCHANGED <<accounts, favs>>
  BY DEF LogoutAll
<1>2. \A v \in Users : Registered(v) => Registered(v)'
  BY <1>1 DEF Registered, accounts
<1>3. QED BY <1>1, <1>2, LeavesEverywhere DEF accounts, Inv, TypeOK

LEMMA InvResetPassword ==
  ASSUME Inv, NEW u \in Users, NEW p \in Passwords, ResetPassword(u, p)
  PROVE  Inv'
<1> DEFINE row == [user[u] EXCEPT !.password = p]
<1>1. row \in UserRow
  BY DEF Inv, TypeOK, UserRow, ResetPassword, Registered
<1>2. user' = [user EXCEPT ![u] = row]
  BY DEF ResetPassword
<1>3. user' \in [Users -> UserRow \cup {None}]
  BY <1>1, <1>2 DEF Inv, TypeOK
<1>4. \A v \in Users : Registered(v) => Registered(v)'
  BY <1>1, <1>2, NoneAssumption DEF Inv, TypeOK, Registered
<1>5. QED BY <1>3, <1>4, LeavesEverywhere DEF ResetPassword

-----------------------------------------------------------------------------
LEMMA InvInit == Init => Inv
<1> SUFFICES ASSUME Init PROVE Inv
  OBVIOUS
<1>1. TypeOK
  BY IdleOK DEF Init, TypeOK, FavouriteRow
<1>2. \A r \in Requests : QOK(req[r])
  BY IdleOK DEF Init
<1>3. RotationRevokes /\ LogoutAllEndsSessions
  BY DEF Init, RotationRevokes, LogoutAllEndsSessions, Issued, Live
<1>4. KeysUnique
  BY DEF Init, KeysUnique
<1>5. QED BY <1>1, <1>2, <1>3, <1>4 DEF Inv

LEMMA InvStutters == Inv /\ UNCHANGED vars => Inv'
<1> SUFFICES ASSUME Inv, UNCHANGED vars PROVE Inv'
  OBVIOUS
<1>1. TypeOK' /\ KeysUnique' /\ \A v \in Users : Registered(v) => Registered(v)'
  BY DEF Inv, TypeOK, KeysUnique, Registered, vars
<1>2. QED BY <1>1, NoToken DEF vars

LEMMA InvNext == Inv /\ Next => Inv'
<1> SUFFICES ASSUME Inv, Next PROVE Inv'
  OBVIOUS
<1>1. CASE \E r \in Requests : SessionRequest(r)
  BY <1>1, InvReadForLogin, InvRevokeOld, InvCommitLogout, InvReadForRefresh,
     InvReadForLogout, InvCommitLogin, InvStoreNew DEF SessionRequest
<1>2. CASE \E r \in Requests : AccountRequest(r)
  BY <1>2, InvReadForRegister, InvReadForPassword, InvCommitRegister, InvCommitPassword
  DEF AccountRequest
<1>3. CASE \E r \in Requests : FavouriteRequest(r)
  BY <1>3, InvReadForLike, InvFavourite DEF FavouriteRequest
<1>4. CASE \E r \in Requests : Rollback(r)
  BY <1>4, InvRollback
<1>5. CASE \E u \in Users : VerifyEmail(u) \/ LogoutAll(u) \/ RequestReset(u)
  BY <1>5, InvVerifyEmail, InvLogoutAll, InvRequestReset
<1>6. CASE \E u \in Users : \E p \in Passwords : ResetPassword(u, p)
  BY <1>6, InvResetPassword
<1>7. CASE \E u \in Users : \E grant \in Grants : AdminUpdate(u, grant)
  BY <1>7, InvAdminUpdate
<1>8. QED BY <1>1, <1>2, <1>3, <1>4, <1>5, <1>6, <1>7 DEF Next

(* The inductive invariant: types, the properties below, and what handlers *)
(* under way may rely on.                                                  *)
THEOREM Invariance == Spec => []Inv
<1>1. Inv /\ [Next]_vars => Inv'
  BY InvNext, InvStutters
<1>2. QED BY <1>1, InvInit, PTL DEF Spec

(* Every variable keeps its type.                                          *)
THEOREM TypeCorrect == Spec => []TypeOK
<1>1. Inv => TypeOK
  BY DEF Inv
<1>2. QED BY <1>1, Invariance, PTL

(* A refresh leaves the token it started from revoked for good, wherever   *)
(* it stops and whatever overlaps.                                         *)
THEOREM RefreshesRevoke == Spec => []RotationRevokes
<1>1. Inv => RotationRevokes
  BY DEF Inv
<1>2. QED BY <1>1, Invariance, PTL

(* Leaving everywhere, or a reset of the password, ends all sessions made  *)
(* by then, unless one was being made at that moment.                      *)
THEOREM SessionsEnd == Spec => []LogoutAllEndsSessions
<1>1. Inv => LogoutAllEndsSessions
  BY DEF Inv
<1>2. QED BY <1>1, Invariance, PTL

(* Names of shops and favourites are unique, and a shop has its account.   *)
THEOREM NamesUnique == Spec => []KeysUnique
<1>1. Inv => KeysUnique
  BY DEF Inv
<1>2. QED BY <1>1, Invariance, PTL
=============================================================================
