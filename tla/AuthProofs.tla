----------------------------- MODULE AuthProofs -----------------------------
(***************************************************************************)
(* What AuthSessions guarantees about refresh tokens, for any number of    *)
(* concurrent requests, tokens, links and password changes.                *)
(***************************************************************************)
EXTENDS AuthSessions, TLAPS

-----------------------------------------------------------------------------
(* The inductive invariant *)

Rotating(r) == tx[r].pc # "idle" /\ tx[r].op = "refresh"
Changing(r) == tx[r].pc = "committing" /\ tx[r].op \in PasswordOps

\* A rotation has a live token to itself.
RotatesLive ==
    /\ \A r \in Reqs : Rotating(r) =>
          tx[r].token \in TokenIds /\ tokens[tx[r].token].state = "live"
    /\ \A r, q \in Reqs : (Rotating(r) /\ Rotating(q) /\ tx[r].token = tx[q].token) => r = q

\* Nothing is rotated while a change of password that has revoked all tokens is
\* being committed.
ChangesAlone == \A r, q \in Reqs : Changing(r) => ~Rotating(q)

\* Only sign-ins and rotations store tokens, only links are mailed.
OpsApart ==
    \A r \in Reqs :
        /\ tx[r].pc \in {"locking", "revoking"} => tx[r].op \notin {"login", "refresh"}
        /\ tx[r].pc = "mailing" => tx[r].op = "issue" /\ tx[r].link \in LinkIds

\* The token a request is going to store is its own and not stored yet.
StoresFresh ==
    /\ \A r \in Reqs : tx[r].pc \in {"loading", "inserting", "committing"} =>
          \/ tx[r].op \in {"login", "refresh"} /\ tx[r].fresh \in TokenIds
          \/ tx[r].op \notin {"login", "refresh"} /\ tx[r].pc = "committing"
    /\ \A r \in Reqs : tx[r].fresh # 0 => tokens[tx[r].fresh].state = "none"
    /\ \A r, q \in Reqs : (tx[r].fresh # 0 /\ tx[r].fresh = tx[q].fresh) => r = q

\* A token with a successor is revoked.
ParentsRevoked ==
    \A t \in TokenIds : tokens[t].parent # 0 => tokens[tokens[t].parent].state = "revoked"

\* A rotation has read the current session version.
RotatesCurrent ==
    \A r \in Reqs : (Rotating(r) /\ tx[r].pc \in {"inserting", "committing"})
        => tx[r].ver = account.version

\* Nothing exists before the account, and no request is under way.
NothingBefore ==
    ~account.exists => /\ account.version = 0
                       /\ \A t \in TokenIds : tokens[t].state = "none"
                       /\ \A l \in LinkIds : links[l].state = "none"
RequestsLater == \A r \in Reqs : tx[r].pc # "idle" => account.exists

SessionInv ==
    /\ SessionTypeOK
    /\ RotatesLive
    /\ ChangesAlone
    /\ OpsApart
    /\ StoresFresh
    /\ NothingBefore
    /\ RequestsLater
    /\ ParentsRevoked
    /\ RotatesCurrent
    /\ RotatedOnce
    /\ OldSessionsEnd

\* What an action that only moves a transaction on must show.
TxInv ==
    /\ tx \in [Reqs -> Tx]
    /\ RotatesLive
    /\ ChangesAlone
    /\ OpsApart
    /\ StoresFresh
    /\ RequestsLater
    /\ RotatesCurrent

-----------------------------------------------------------------------------
(* Types *)

LEMMA OneOfType == ASSUME NEW ids, ids # {} PROVE OneOf(ids) \in ids
  BY DEF OneOf

LEMMA FreshType == \A t \in TokenIds : t \in 0 .. MaxTokens
  BY SessionAssumption DEF TokenIds

LEMMA LinkType == \A l \in LinkIds : l \in 0 .. MaxLinks
  BY SessionAssumption DEF LinkIds

LEMMA NoTxType == NoTx \in Tx
<1>1. AnyPassword \in Passwords
  BY SessionAssumption DEF AnyPassword
<1> QED
  BY <1>1, SessionAssumption DEF NoTx, Tx, Pcs, Ops, Purposes

LEMMA TxOnly ==
    ASSUME SessionInv, TxInv', UNCHANGED <<tokens, jwts>>,
           account' \in Account, account'.version = account.version,
           account.exists => account'.exists, account.exists \/ UNCHANGED links,
           links' \in [LinkIds -> Link], mailed' \subseteq LinkIds
    PROVE  SessionInv'
  BY DEF SessionInv, TxInv, SessionTypeOK, NothingBefore, ParentsRevoked, RotatedOnce,
     OldSessionsEnd

\* A transaction that ends, or owns nothing of tokens, disturbs no other.
LEMMA EndsKeeps ==
    ASSUME SessionInv, NEW r \in Reqs, Ends(r), UNCHANGED tokens,
           account'.version = account.version, account.exists => account'.exists
    PROVE  TxInv'
<1>1. /\ NoTx.pc = "idle" /\ NoTx.fresh = 0
      /\ tx' = [tx EXCEPT ![r] = NoTx] /\ tx \in [Reqs -> Tx]
  BY DEF Ends, NoTx, SessionInv, SessionTypeOK
<1>2. tx' \in [Reqs -> Tx]
  BY <1>1, NoTxType
<1>3. \A q \in Reqs : tx'[q] = IF q = r THEN NoTx ELSE tx[q]
  BY <1>1
<1> QED
  BY <1>1, <1>2, <1>3 DEF SessionInv, TxInv, RotatesLive, ChangesAlone, OpsApart,
     StoresFresh, RequestsLater, RotatesCurrent, Rotating, Changing, PasswordOps


-----------------------------------------------------------------------------
(* Steps that only move a transaction on *)

\* A request that issues or consumes a link, or starts to change the password,
\* touches no refresh token before it revokes them.
LEMMA StartsApart ==
    ASSUME SessionInv, NEW r \in Reqs, tx[r].pc = "idle", NEW s \in Tx,
           account.exists, s.op \notin {"login", "refresh"}, s.fresh = 0, s.pc \in {"locking", "mailing"},
           s.pc = "mailing" => s.op = "issue" /\ s.link \in LinkIds,
           tx' = [tx EXCEPT ![r] = s], UNCHANGED <<account, tokens>>
    PROVE  TxInv'
<1>1. \A q \in Reqs : tx'[q] = IF q = r THEN s ELSE tx[q]
  BY DEF SessionInv, SessionTypeOK
<1>2. tx' \in [Reqs -> Tx]
  BY DEF SessionInv, SessionTypeOK
<1> QED
  BY <1>1, <1>2 DEF SessionInv, TxInv, RotatesLive, ChangesAlone, OpsApart,
     StoresFresh, RequestsLater, RotatesCurrent, Rotating, Changing, PasswordOps

\* A sign-in or a rotation takes an unused token.
LEMMA StartsFresh ==
    ASSUME SessionInv, NEW r \in Reqs, tx[r].pc = "idle", NEW s \in Tx,
           FreshTokens # {}, s.fresh = OneOf(FreshTokens),
           \/ s.op = "login" /\ s.pc = "inserting" /\ account.exists
           \/ /\ s.op = "refresh" /\ s.pc = "loading" /\ s.token \in TokenIds
              /\ tokens[s.token].state = "live" /\ TokenFree(r, s.token),
           tx' = [tx EXCEPT ![r] = s], UNCHANGED <<account, tokens>>
    PROVE  TxInv'
<1>1. \A q \in Reqs : tx'[q] = IF q = r THEN s ELSE tx[q]
  BY DEF SessionInv, SessionTypeOK
<1>2. tx' \in [Reqs -> Tx]
  BY DEF SessionInv, SessionTypeOK
<1>3. /\ s.fresh \in TokenIds /\ tokens[s.fresh].state = "none"
      /\ \A q \in Reqs : tx[q].fresh # s.fresh
  BY OneOfType DEF FreshTokens
<1>0. account.exists
  BY DEF SessionInv, NothingBefore
<1>4. RotatesLive' /\ ChangesAlone'
  BY <1>1, <1>3 DEF SessionInv, RotatesLive, ChangesAlone, Rotating, Changing,
     TokenFree, OwnsToken, PasswordOps
<1>5. StoresFresh' /\ RequestsLater' /\ RotatesCurrent' /\ OpsApart'
  BY <1>0, <1>1, <1>3 DEF SessionInv, OpsApart, StoresFresh, RequestsLater, RotatesCurrent,
     Rotating, TokenIds
<1> QED
  BY <1>2, <1>4, <1>5 DEF TxInv

\* A transaction goes on; one that reaches its commit with all tokens revoked has
\* found none in rotation.
LEMMA GoesOn ==
    ASSUME SessionInv, NEW r \in Reqs, tx[r].pc # "idle", NEW s \in Tx,
           s.pc # "idle", s.op = tx[r].op, s.token = tx[r].token, s.fresh = tx[r].fresh,
           \/ tx[r].op \in {"login", "refresh"} /\ tx[r].pc \in {"loading", "inserting"}
           \/ tx[r].op \notin {"login", "refresh"},
           s.pc \in {"loading", "inserting"} => s.op \in {"login", "refresh"},
           s.pc \in {"revoking", "locking"} => s.op \notin {"login", "refresh"},
           s.pc # "mailing",
           (s.op = "refresh" /\ s.pc \in {"inserting", "committing"}) => s.ver = account.version,
           (s.op \in PasswordOps /\ s.pc = "committing") =>
              \A t \in TokenIds : tokens[t].state = "none" \/ TokenFree(r, t),
           tx' = [tx EXCEPT ![r] = s], UNCHANGED <<account, tokens>>
    PROVE  TxInv'
<1>1. \A q \in Reqs : tx'[q] = IF q = r THEN s ELSE tx[q]
  BY DEF SessionInv, SessionTypeOK
<1>2. tx' \in [Reqs -> Tx]
  BY DEF SessionInv, SessionTypeOK
<1>3. RotatesLive'
  BY <1>1 DEF SessionInv, RotatesLive, Rotating
<1>4. ChangesAlone'
  BY <1>1 DEF SessionInv, RotatesLive, ChangesAlone, Rotating, Changing,
     TokenFree, OwnsToken, PasswordOps
<1>5. StoresFresh' /\ RequestsLater' /\ OpsApart'
  BY <1>1 DEF SessionInv, StoresFresh, RequestsLater, OpsApart
<1>6. RotatesCurrent'
  BY <1>1 DEF SessionInv, RotatesCurrent, Rotating
<1> QED
  BY <1>2, <1>3, <1>4, <1>5, <1>6 DEF TxInv

-----------------------------------------------------------------------------
(* The actions *)

LEMMA Keeps ==
    ASSUME SessionInv, TxInv', UNCHANGED <<account, tokens, links, mailed, jwts>>
    PROVE  SessionInv'
  BY TxOnly DEF SessionInv, SessionTypeOK

LEMMA SignInSteps ==
    ASSUME SessionInv, NEW r \in Reqs,
           \/ \E p \in Passwords : StartLogin(r, p)
           \/ \E t \in TokenIds : LockToken(r, t)
           \/ LoadUser(r) \/ StoreToken(r)
    PROVE  SessionInv'
<1>1. /\ NoTx \in Tx /\ tx[r] \in Tx /\ account.version \in Nat
      /\ tx \in [Reqs -> Tx]
  BY NoTxType DEF SessionInv, SessionTypeOK, Account
<1>2. FreshTokens # {} => OneOf(FreshTokens) \in TokenIds
  BY OneOfType DEF FreshTokens
<1>3. ASSUME NEW p \in Passwords, StartLogin(r, p) PROVE TxInv'
  <2> DEFINE s == [NoTx EXCEPT !.pc = "inserting", !.op = "login",
                      !.ver = account.version, !.fresh = OneOf(FreshTokens)]
  <2>1. /\ s \in Tx /\ s.op = "login" /\ s.pc = "inserting" /\ s.fresh = OneOf(FreshTokens)
    BY <1>1, <1>2, <1>3, FreshType DEF StartLogin, Tx, Ops, Pcs
  <2> QED
    BY <1>3, <2>1, StartsFresh DEF StartLogin, MaySignIn
<1>4. ASSUME NEW t \in TokenIds, LockToken(r, t) PROVE TxInv'
  <2> DEFINE s == [NoTx EXCEPT !.pc = "loading", !.op = "refresh",
                      !.token = t, !.fresh = OneOf(FreshTokens)]
  <2>1. /\ s \in Tx /\ s.op = "refresh" /\ s.pc = "loading" /\ s.token = t
        /\ s.fresh = OneOf(FreshTokens)
    BY <1>1, <1>2, <1>4, FreshType DEF LockToken, Tx, Ops, Pcs
  <2> QED
    BY <1>4, <2>1, StartsFresh DEF LockToken
<1>5. ASSUME LoadUser(r) PROVE TxInv'
  <2>1. CASE Ends(r)
    BY <1>5, <2>1, EndsKeeps DEF LoadUser
  <2>2. CASE tx' = [tx EXCEPT ![r].pc = "inserting", ![r].ver = account.version]
    <3> DEFINE s == [tx[r] EXCEPT !.pc = "inserting", !.ver = account.version]
    <3>1. /\ s \in Tx /\ s.pc = "inserting" /\ s.op = tx[r].op /\ s.token = tx[r].token
          /\ s.fresh = tx[r].fresh /\ s.ver = account.version
          /\ tx' = [tx EXCEPT ![r] = s]
      BY <1>1, <2>2 DEF Tx, Pcs
    <3>2. tx[r].op = "refresh" /\ tx[r].pc = "loading"
      BY <1>5 DEF LoadUser, At
    <3> HIDE DEF s
    <3> QED
      BY <1>5, <3>1, <3>2, GoesOn DEF LoadUser, PasswordOps
  <2> QED
    BY <1>5, <2>1, <2>2 DEF LoadUser
<1>6. ASSUME StoreToken(r) PROVE TxInv'
  <2> DEFINE s == [tx[r] EXCEPT !.pc = "committing"]
  <2>1. /\ s \in Tx /\ s.pc = "committing" /\ s.op = tx[r].op /\ s.token = tx[r].token
        /\ s.fresh = tx[r].fresh /\ s.ver = tx[r].ver
        /\ tx' = [tx EXCEPT ![r] = s]
    BY <1>1, <1>6 DEF StoreToken, Goes, Tx, Pcs
  <2>2. tx[r].op \in {"login", "refresh"} /\ tx[r].pc = "inserting"
    BY <1>6 DEF StoreToken, SessionInv, StoresFresh
  <2>3. tx[r].op = "refresh" => tx[r].ver = account.version
    BY <2>2 DEF SessionInv, RotatesCurrent, Rotating
  <2> HIDE DEF s
  <2> QED
    BY <1>6, <2>1, <2>2, <2>3, GoesOn DEF StoreToken, PasswordOps
<1>7. UNCHANGED <<account, tokens, links, mailed, jwts>>
  BY DEF StartLogin, LockToken, LoadUser, StoreToken
<1> QED
  BY <1>3, <1>4, <1>5, <1>6, <1>7, Keeps

LEMMA ChangeSteps ==
    ASSUME SessionInv, NEW r \in Reqs,
           \/ \E p \in Passwords : StartChange(r, p)
           \/ \E l \in LinkIds, op \in {"reset", "verify"}, p \in Passwords : FindLink(r, l, op, p)
           \/ LockAccount(r) \/ RevokeAll(r)
    PROVE  SessionInv'
<1>1. /\ NoTx \in Tx /\ NoTx.fresh = 0 /\ tx[r] \in Tx
      /\ account.version \in Nat /\ account.password \in Passwords
      /\ tx \in [Reqs -> Tx]
  BY NoTxType DEF SessionInv, SessionTypeOK, Account, NoTx
<1>2. ASSUME NEW p \in Passwords, StartChange(r, p) PROVE TxInv'
  <2> DEFINE s == [NoTx EXCEPT !.pc = "locking", !.op = "change",
                      !.ver = account.version, !.knows = account.password, !.new = p]
  <2>1. s \in Tx /\ s.op = "change" /\ s.pc = "locking" /\ s.fresh = 0
    BY <1>1 DEF Tx, Ops, Pcs
  <2>2. /\ tx[r].pc = "idle" /\ tx' = [tx EXCEPT ![r] = s] /\ UNCHANGED <<account, tokens>>
        /\ account.exists
    BY <1>2 DEF StartChange, MaySignIn
  <2> HIDE DEF s
  <2> QED
    BY <2>1, <2>2, StartsApart
<1>3. ASSUME NEW l \in LinkIds, NEW op \in {"reset", "verify"}, NEW p \in Passwords,
             FindLink(r, l, op, p)
      PROVE  TxInv'
  <2> DEFINE s == [NoTx EXCEPT !.pc = "locking", !.op = op, !.link = l, !.new = p]
  <2>0. op \in Ops /\ l \in 0 .. MaxLinks
    BY LinkType DEF Ops
  <2>1. s \in Tx /\ s.op = op /\ s.pc = "locking" /\ s.fresh = 0
    BY <1>1, <2>0 DEF Tx, Pcs
  <2>2. /\ tx[r].pc = "idle" /\ tx' = [tx EXCEPT ![r] = s] /\ UNCHANGED <<account, tokens>>
        /\ account.exists
    BY <1>3 DEF FindLink, SessionInv, NothingBefore
  <2> HIDE DEF s
  <2> QED
    BY <2>1, <2>2, StartsApart
<1>4. ASSUME LockAccount(r) PROVE TxInv'
  <2>1. tx[r].pc = "locking" /\ tx[r].op \notin {"login", "refresh"}
    BY <1>4 DEF LockAccount, SessionInv, OpsApart
  <2>2. CASE Ends(r)
    BY <1>4, <2>2, EndsKeeps DEF LockAccount
  <2>3. CASE tx' = [tx EXCEPT ![r].pc = IF tx[r].op = "verify" THEN "committing" ELSE "revoking",
                              ![r].ver = account.version]
    <3> DEFINE s == [tx[r] EXCEPT !.pc = IF tx[r].op = "verify" THEN "committing" ELSE "revoking",
                                  !.ver = account.version]
    <3>1. /\ s \in Tx /\ s.op = tx[r].op /\ s.token = tx[r].token
          /\ s.fresh = tx[r].fresh
          /\ s.pc = IF tx[r].op = "verify" THEN "committing" ELSE "revoking"
          /\ tx' = [tx EXCEPT ![r] = s]
      BY <1>1, <2>3 DEF Tx, Pcs
    <3> HIDE DEF s
    <3> QED
      BY <1>4, <2>1, <3>1, GoesOn DEF LockAccount, PasswordOps
  <2> QED
    BY <1>4, <2>2, <2>3 DEF LockAccount
<1>5. ASSUME RevokeAll(r) PROVE TxInv'
  <2> DEFINE s == [tx[r] EXCEPT !.pc = "committing"]
  <2>1. /\ s \in Tx /\ s.pc = "committing" /\ s.op = tx[r].op /\ s.token = tx[r].token
        /\ s.fresh = tx[r].fresh
        /\ tx' = [tx EXCEPT ![r] = s]
    BY <1>1, <1>5 DEF RevokeAll, Goes, Tx, Pcs
  <2>2. tx[r].pc = "revoking" /\ tx[r].op \notin {"login", "refresh"}
    BY <1>5 DEF RevokeAll, SessionInv, OpsApart
  <2> HIDE DEF s
  <2> QED
    BY <1>5, <2>1, <2>2, GoesOn DEF RevokeAll
<1>6. UNCHANGED <<account, tokens, links, mailed, jwts>>
  BY DEF StartChange, FindLink, LockAccount, RevokeAll
<1> QED
  BY <1>2, <1>3, <1>4, <1>5, <1>6, Keeps

LEMMA LinkSteps ==
    ASSUME SessionInv, NEW r \in Reqs,
           \/ \E purpose \in Purposes : StartIssue(r, purpose)
           \/ SendMail(r) \/ CommitLink(r) \/ CommitVerify(r) \/ Abort(r)
           \/ \E q \in Reqs : BreakDeadlock(r, q)
    PROVE  SessionInv'
<1>1. /\ NoTx \in Tx /\ NoTx.fresh = 0 /\ tx[r] \in Tx
      /\ account \in Account /\ account.version \in Nat
      /\ tx \in [Reqs -> Tx] /\ links \in [LinkIds -> Link] /\ mailed \subseteq LinkIds
  BY NoTxType DEF SessionInv, SessionTypeOK, Account, NoTx
<1>2. \A purpose \in Purposes : Consumed(purpose) \in [LinkIds -> Link]
  BY <1>1 DEF Consumed, Link
<1>3. ASSUME NEW purpose \in Purposes, StartIssue(r, purpose) PROVE SessionInv'
  <2> DEFINE s == [NoTx EXCEPT !.pc = "mailing", !.op = "issue", !.purpose = purpose,
                      !.link = OneOf(FreshLinks), !.ver = account.version]
  <2>1. OneOf(FreshLinks) \in LinkIds /\ OneOf(FreshLinks) \in 0 .. MaxLinks
    BY <1>3, OneOfType, LinkType DEF StartIssue, FreshLinks
  <2>2. s \in Tx /\ s.op = "issue" /\ s.pc = "mailing" /\ s.fresh = 0 /\ s.link \in LinkIds
    BY <1>1, <2>1 DEF Tx, Ops, Pcs
  <2>3. /\ tx[r].pc = "idle" /\ tx' = [tx EXCEPT ![r] = s]
        /\ UNCHANGED <<account, tokens, links, mailed, jwts>> /\ account.exists
    BY <1>3 DEF StartIssue
  <2> HIDE DEF s
  <2> QED
    BY <2>2, <2>3, StartsApart, Keeps
<1>4. ASSUME SendMail(r) PROVE SessionInv'
  <2>1. tx[r].pc = "mailing" /\ tx[r].op = "issue" /\ tx[r].link \in LinkIds
    BY <1>4 DEF SendMail, SessionInv, OpsApart
  <2>2. mailed' \subseteq LinkIds /\ UNCHANGED <<account, tokens, links, jwts>>
    BY <1>1, <1>4, <2>1 DEF SendMail
  <2>3. CASE Ends(r)
    BY <1>1, <2>2, <2>3, EndsKeeps, TxOnly
  <2>4. CASE Goes(r, "committing")
    <3> DEFINE s == [tx[r] EXCEPT !.pc = "committing"]
    <3>1. /\ s \in Tx /\ s.pc = "committing" /\ s.op = tx[r].op /\ s.token = tx[r].token
          /\ s.fresh = tx[r].fresh /\ tx' = [tx EXCEPT ![r] = s]
      BY <1>1, <2>4 DEF Goes, Tx, Pcs
    <3> HIDE DEF s
    <3>2. TxInv'
      BY <2>1, <2>2, <3>1, GoesOn DEF PasswordOps
    <3> QED
      BY <1>1, <2>2, <3>2, TxOnly
  <2> QED
    BY <1>4, <2>3, <2>4 DEF SendMail
<1>5. ASSUME CommitLink(r) PROVE SessionInv'
  <2> DEFINE l == [state |-> "open", purpose |-> tx[r].purpose, version |-> tx[r].ver]
  <2>1. l \in Link /\ tx[r].purpose \in Purposes
    BY <1>1 DEF Tx, Link
  <2>2. links' = [Consumed(tx[r].purpose) EXCEPT ![tx[r].link] = l]
    BY <1>5 DEF CommitLink
  <2>3. links' \in [LinkIds -> Link]
    BY <1>2, <2>1, <2>2
  <2>4. account.exists
    BY <1>5 DEF CommitLink, At, SessionInv, RequestsLater
  <2> QED
    BY <1>1, <1>5, <2>3, <2>4, EndsKeeps, TxOnly DEF CommitLink
<1>6. ASSUME CommitVerify(r) PROVE SessionInv'
  <2>1. /\ account' \in Account /\ account'.version = account.version
        /\ account'.exists = account.exists
    BY <1>1, <1>6 DEF CommitVerify, Account
  <2>2. links' \in [LinkIds -> Link]
    BY <1>1, <1>6 DEF CommitVerify, Link
  <2>3. account.exists
    BY <1>6 DEF CommitVerify, At, SessionInv, RequestsLater
  <2> QED
    BY <1>1, <1>6, <2>1, <2>2, <2>3, EndsKeeps, TxOnly DEF CommitVerify
<1>7. ASSUME Abort(r) PROVE SessionInv'
  BY <1>7, EndsKeeps, Keeps DEF Abort
<1>8. ASSUME NEW q \in Reqs, BreakDeadlock(r, q) PROVE SessionInv'
  BY <1>8, EndsKeeps, Keeps DEF BreakDeadlock
<1> QED
  BY <1>3, <1>4, <1>5, <1>6, <1>7, <1>8

\* A request that ends gives its token away, stored or not.
LEMMA StoresEnd ==
    ASSUME SessionInv, NEW r \in Reqs, Ends(r),
           \A t \in TokenIds : tokens[t].state = "none" =>
               tokens'[t].state = "none" \/ t = tx[r].fresh
    PROVE  StoresFresh'
<1>1. /\ NoTx.pc = "idle" /\ NoTx.fresh = 0
      /\ tx \in [Reqs -> Tx] /\ \A q \in Reqs : tx'[q] = IF q = r THEN NoTx ELSE tx[q]
  BY DEF NoTx, Ends, SessionInv, SessionTypeOK
<1>2. \A q \in Reqs : tx[q].fresh # 0 => tx[q].fresh \in TokenIds
  BY <1>1 DEF Tx, TokenIds
<1>3. \A q \in Reqs : tx'[q].fresh # 0 => q # r /\ tx'[q] = tx[q]
  BY <1>1
<1>4. \A q \in Reqs : tx'[q].fresh # 0 => tokens'[tx'[q].fresh].state = "none"
  BY <1>2, <1>3 DEF SessionInv, StoresFresh
<1>5. \A p, q \in Reqs : (tx'[p].fresh # 0 /\ tx'[p].fresh = tx'[q].fresh) => p = q
  BY <1>3 DEF SessionInv, StoresFresh
<1>6. \A q \in Reqs : tx'[q].pc \in {"loading", "inserting", "committing"} =>
          \/ tx'[q].op \in {"login", "refresh"} /\ tx'[q].fresh \in TokenIds
          \/ tx'[q].op \notin {"login", "refresh"} /\ tx'[q].pc = "committing"
  BY <1>1 DEF SessionInv, StoresFresh
<1> QED
  BY <1>4, <1>5, <1>6 DEF StoresFresh, TokenIds

LEMMA LoginCommits ==
    ASSUME SessionInv, NEW r \in Reqs, CommitLogin(r)
    PROVE  SessionInv'
<1> DEFINE f == tx[r].fresh
           n == [state |-> "live", parent |-> 0, from |-> tx[r].ver,
                 late |-> tx[r].ver # account.version]
<1>1. /\ tx \in [Reqs -> Tx] /\ tokens \in [TokenIds -> Token]
      /\ account.version \in Nat /\ tx[r].ver \in Nat /\ jwts \subseteq Nat
  BY DEF SessionInv, SessionTypeOK, Account, Tx
<1>2. /\ tx[r].op = "login" /\ tx[r].pc = "committing"
      /\ f \in TokenIds /\ f # 0 /\ tokens[f].state = "none"
      /\ \A q \in Reqs : tx[q].fresh = f => q = r
  BY DEF CommitLogin, At, SessionInv, StoresFresh, TokenIds
<1>3. /\ n \in Token /\ n.state = "live" /\ n.parent = 0
      /\ n.late = (tx[r].ver # account.version) /\ n.from = tx[r].ver
  BY <1>1, SessionAssumption DEF Token
<1>4. tokens' = [tokens EXCEPT ![f] = n] /\ jwts' \subseteq Nat
      /\ Ends(r) /\ UNCHANGED <<account, links, mailed>>
  BY <1>1 DEF CommitLogin
<1> HIDE DEF f, n
<1>5. \A t \in TokenIds : tokens'[t] = IF t = f THEN n ELSE tokens[t]
  BY <1>1, <1>4
<1>6. \A q \in Reqs : tx'[q] = IF q = r THEN NoTx ELSE tx[q]
  BY <1>1, <1>4 DEF Ends
<1>7. SessionTypeOK'
  BY <1>1, <1>3, <1>4, NoTxType DEF Ends, SessionInv, SessionTypeOK
<1>8. NoTx.pc = "idle" /\ NoTx.fresh = 0
  BY DEF NoTx
<1>9. RotatesLive' /\ ChangesAlone' /\ OpsApart' /\ RotatesCurrent'
  BY <1>2, <1>4, <1>5, <1>6, <1>8 DEF SessionInv, RotatesLive, ChangesAlone, OpsApart,
     RotatesCurrent, Rotating, Changing
<1>10. StoresFresh' /\ RequestsLater'
  BY <1>4, <1>5, <1>6, <1>8, StoresEnd DEF SessionInv, RequestsLater, f
<1>11. ParentsRevoked' /\ RotatedOnce' /\ OldSessionsEnd'
  BY <1>1, <1>2, <1>3, <1>4, <1>5 DEF SessionInv, ParentsRevoked, RotatedOnce, OldSessionsEnd,
     SessionTypeOK, Token, TokenIds
<1>12. NothingBefore'
  BY <1>2, <1>4 DEF SessionInv, RequestsLater, NothingBefore
<1> QED
  BY <1>7, <1>9, <1>10, <1>11, <1>12 DEF SessionInv

LEMMA RefreshCommits ==
    ASSUME SessionInv, NEW r \in Reqs, CommitRefresh(r)
    PROVE  SessionInv'
<1> DEFINE f == tx[r].fresh
           o == tx[r].token
           n == [tokens[o] EXCEPT !.state = "live", !.parent = o]
           d == [tokens[o] EXCEPT !.state = "revoked"]
<1>1. /\ tx \in [Reqs -> Tx] /\ tokens \in [TokenIds -> Token]
      /\ account.version \in Nat /\ tx[r].ver \in Nat /\ jwts \subseteq Nat
  BY DEF SessionInv, SessionTypeOK, Account, Tx
<1>2. /\ tx[r].op = "refresh" /\ tx[r].pc = "committing"
      /\ f \in TokenIds /\ f # 0 /\ tokens[f].state = "none"
      /\ \A q \in Reqs : tx[q].fresh = f => q = r
  BY DEF CommitRefresh, At, SessionInv, StoresFresh, TokenIds
<1>3. /\ o \in TokenIds /\ o \in 0 .. MaxTokens /\ tokens[o].state = "live" /\ o # f
      /\ \A q \in Reqs : (Rotating(q) /\ tx[q].token = o) => q = r
  BY <1>2, FreshType DEF SessionInv, RotatesLive, Rotating
<1>4. /\ n \in Token /\ n.state = "live" /\ n.parent = o
      /\ n.late = tokens[o].late /\ n.from = tokens[o].from
      /\ d \in Token /\ d.state = "revoked" /\ d.parent = tokens[o].parent
  BY <1>1, <1>3 DEF Token
<1>5. tokens' = [tokens EXCEPT ![o].state = "revoked", ![f] = n] /\ jwts' \subseteq Nat
      /\ Ends(r) /\ UNCHANGED <<account, links, mailed>>
  BY <1>1 DEF CommitRefresh
<1>6. \A t \in TokenIds : tokens'[t] = IF t = f THEN n ELSE IF t = o THEN d ELSE tokens[t]
  BY <1>1, <1>3, <1>5
<1>7. tokens' \in [TokenIds -> Token]
  BY <1>1, <1>2, <1>3, <1>4, <1>5, <1>6
<1> HIDE DEF f, o, n, d
<1>8. \A q \in Reqs : tx'[q] = IF q = r THEN NoTx ELSE tx[q]
  BY <1>1, <1>5 DEF Ends
<1>9. SessionTypeOK'
  BY <1>1, <1>5, <1>7, NoTxType DEF Ends, SessionInv, SessionTypeOK
<1>10. NoTx.pc = "idle" /\ NoTx.fresh = 0
  BY DEF NoTx
<1>11. RotatesLive'
  <2>1. \A q \in Reqs : Rotating(q)' => q # r /\ Rotating(q) /\ tx'[q] = tx[q]
    BY <1>8, <1>10 DEF Rotating
  <2>2. \A q \in Reqs : Rotating(q)' =>
           tx[q].token \in TokenIds /\ tokens[tx[q].token].state = "live"
             /\ tx[q].token # o /\ tx[q].token # f
    BY <2>1, <1>2, <1>3 DEF SessionInv, RotatesLive
  <2> QED
    BY <2>1, <2>2, <1>6 DEF SessionInv, RotatesLive
<1>12. ChangesAlone' /\ OpsApart' /\ RotatesCurrent'
  BY <1>5, <1>8, <1>10 DEF SessionInv, ChangesAlone, OpsApart,
     RotatesCurrent, Rotating, Changing
<1>13. StoresFresh' /\ RequestsLater'
  <2>1. \A t \in TokenIds : tokens[t].state = "none" => tokens'[t].state = "none" \/ t = tx[r].fresh
    BY <1>3, <1>6 DEF f
  <2>2. StoresFresh'
    BY <1>5, <2>1, StoresEnd
  <2>3. RequestsLater'
    BY <1>5, <1>8, <1>10 DEF SessionInv, RequestsLater
  <2> QED
    BY <2>2, <2>3
<1>14. \A t \in TokenIds : tokens[t].parent # o
  BY <1>3 DEF SessionInv, ParentsRevoked, TokenIds
<1>15. \A t \in TokenIds : tokens[t].parent = 0 \/ tokens[t].parent \in TokenIds
  BY <1>1 DEF Token, TokenIds
<1>16. RotatedOnce'
  BY <1>2, <1>3, <1>4, <1>6, <1>14 DEF SessionInv, RotatedOnce
<1>17. ParentsRevoked'
  <2>1. \A t \in TokenIds : tokens[t].parent # 0 =>
           /\ tokens[t].parent \in TokenIds /\ tokens[t].parent # f
           /\ tokens[t].parent # o /\ tokens[tokens[t].parent].state = "revoked"
    BY <1>2, <1>14, <1>15 DEF SessionInv, ParentsRevoked
  <2>2. \A t \in TokenIds : tokens'[t].parent = IF t = f THEN o ELSE tokens[t].parent
    BY <1>4, <1>6
  <2>3. \A t \in TokenIds : (t # f /\ tokens[t].state = "revoked") => tokens'[t].state = "revoked"
    BY <1>4, <1>6
  <2>4. tokens'[o].state = "revoked"
    BY <1>3, <1>4, <1>6
  <2>5. ASSUME NEW t \in TokenIds, tokens'[t].parent # 0
        PROVE  tokens'[tokens'[t].parent].state = "revoked"
    <3>1. CASE t = f
      BY <3>1, <2>2, <2>4
    <3>2. CASE t # f
      BY <3>2, <2>1, <2>2, <2>3, <2>5
    <3> QED
      BY <3>1, <3>2
  <2> QED
    BY <2>5 DEF ParentsRevoked
<1>18. OldSessionsEnd'
  BY ZenonT(30), <1>3, <1>4, <1>5, <1>6 DEF SessionInv, OldSessionsEnd
<1>19. NothingBefore'
  BY <1>3, <1>5 DEF SessionInv, NothingBefore
<1> QED
  BY <1>9, <1>11, <1>12, <1>13, <1>16, <1>17, <1>18, <1>19 DEF SessionInv

LEMMA LogoutKeeps ==
    ASSUME SessionInv, NEW t \in TokenIds, Logout(t)
    PROVE  SessionInv'
<1> DEFINE d == [tokens[t] EXCEPT !.state = "revoked"]
<1>1. tx \in [Reqs -> Tx] /\ tokens \in [TokenIds -> Token] /\ tokens[t].state = "live"
  BY DEF SessionInv, SessionTypeOK, Logout
<1>2. d \in Token /\ d.state = "revoked" /\ d.parent = tokens[t].parent
  BY <1>1 DEF Token
<1>3. \A u \in TokenIds : tokens'[u] = IF u = t THEN d ELSE tokens[u]
  BY <1>1 DEF Logout
<1>4. tokens' \in [TokenIds -> Token]
  BY <1>1, <1>2 DEF Logout
<1>5. \A r \in Reqs : Rotating(r) => tx[r].token # t
  BY DEF Logout, OwnsToken, Rotating
<1>6. UNCHANGED <<account, links, mailed, tx, jwts>>
  BY DEF Logout
<1> HIDE DEF d
<1>7. SessionTypeOK' /\ ChangesAlone' /\ OpsApart' /\ RotatesCurrent'
  BY <1>4, <1>6 DEF SessionInv, SessionTypeOK, ChangesAlone, OpsApart, RotatesCurrent,
     Rotating, Changing
<1>8. RotatesLive'
  BY <1>3, <1>5, <1>6 DEF SessionInv, RotatesLive, Rotating
<1>9. StoresFresh' /\ RequestsLater'
  <2>1. \A r \in Reqs : tx[r].fresh # 0 => tx[r].fresh \in TokenIds /\ tx[r].fresh # t
    BY <1>1 DEF Tx, TokenIds, SessionInv, StoresFresh
  <2>2. \A r \in Reqs : tx[r].fresh # 0 => tokens'[tx[r].fresh].state = "none"
    BY <1>3, <2>1 DEF SessionInv, StoresFresh
  <2> QED
    BY <1>6, <2>2 DEF SessionInv, StoresFresh, RequestsLater, TokenIds
<1>10. ParentsRevoked'
  <2>1. \A u \in TokenIds : tokens[u].parent = 0 \/ tokens[u].parent \in TokenIds
    BY <1>1 DEF Token, TokenIds
  <2> QED
    BY <1>2, <1>3, <2>1 DEF SessionInv, ParentsRevoked
<1>11. RotatedOnce' /\ OldSessionsEnd'
  BY <1>2, <1>3, <1>6 DEF SessionInv, RotatedOnce, OldSessionsEnd
<1>12. NothingBefore'
  BY <1>1, <1>6 DEF SessionInv, NothingBefore
<1> QED
  BY <1>7, <1>8, <1>9, <1>10, <1>11, <1>12 DEF SessionInv

\* A change of password revokes every token; none was being rotated.
LEMMA PasswordCommits ==
    ASSUME SessionInv, NEW r \in Reqs, CommitPassword(r)
    PROVE  SessionInv'
<1>1. /\ tx \in [Reqs -> Tx] /\ tokens \in [TokenIds -> Token] /\ links \in [LinkIds -> Link]
      /\ account \in Account /\ tx[r].ver \in Nat /\ tx[r].new \in Passwords
  BY DEF SessionInv, SessionTypeOK, Tx
<1>2. /\ account' = [account EXCEPT !.password = tx[r].new, !.version = tx[r].ver + 1]
      /\ tokens' = [t \in TokenIds |-> Revoked(t)] /\ links' = Consumed("reset")
      /\ Ends(r) /\ UNCHANGED <<mailed, jwts>>
  BY DEF CommitPassword
<1>3. account' \in Account /\ account'.exists = account.exists
  <2> DEFINE v == tx[r].ver + 1
  <2>1. v \in Nat
    BY <1>1
  <2>2. account' = [account EXCEPT !.password = tx[r].new, !.version = v]
    BY <1>2
  <2> HIDE DEF v
  <2> QED
    BY <1>1, <2>1, <2>2 DEF Account
<1>4. \A t \in TokenIds :
        /\ tokens'[t] = Revoked(t) /\ Revoked(t) \in Token /\ tokens'[t].parent = tokens[t].parent
        /\ tokens'[t].state = IF tokens[t].state = "none" THEN "none" ELSE "revoked"
  <2> TAKE t \in TokenIds
  <2>1. tokens'[t] = Revoked(t) /\ tokens[t] \in Token
    BY <1>1, <1>2
  <2>2. CASE tokens[t].state = "none"
    BY <2>1, <2>2 DEF Revoked
  <2>3. CASE tokens[t].state # "none"
    <3>1. Revoked(t) = [tokens[t] EXCEPT !.state = "revoked"]
      BY <2>3 DEF Revoked
    <3>2. /\ Revoked(t) \in Token /\ Revoked(t).parent = tokens[t].parent
          /\ Revoked(t).state = "revoked"
      BY <2>1, <3>1 DEF Token
    <3> QED
      BY <2>1, <2>3, <3>2
  <2> QED
    BY <2>2, <2>3
<1>5. tokens' \in [TokenIds -> Token] /\ links' \in [LinkIds -> Link]
  BY <1>1, <1>2, <1>4 DEF Consumed, Link
<1>6. NoTx.pc = "idle" /\ NoTx.fresh = 0 /\ \A q \in Reqs : tx'[q] = IF q = r THEN NoTx ELSE tx[q]
  BY <1>1, <1>2 DEF Ends, NoTx
<1>7. SessionTypeOK'
  BY <1>1, <1>2, <1>3, <1>5, NoTxType DEF Ends, SessionInv, SessionTypeOK
<1>8. \A q \in Reqs : ~Rotating(q)'
  BY <1>6 DEF SessionInv, ChangesAlone, Rotating, Changing, CommitPassword
<1>9. RotatesLive' /\ ChangesAlone' /\ RotatesCurrent'
  BY <1>8 DEF RotatesLive, ChangesAlone, RotatesCurrent
<1>10. OpsApart' /\ RequestsLater'
  BY <1>3, <1>6 DEF SessionInv, OpsApart, RequestsLater
<1>11. StoresFresh'
  BY <1>2, <1>4, StoresEnd
<1>12. ParentsRevoked'
  <2>1. \A t \in TokenIds : tokens[t].parent = 0 \/ tokens[t].parent \in TokenIds
    BY <1>1 DEF Token, TokenIds
  <2> QED
    BY <1>4, <2>1 DEF SessionInv, ParentsRevoked
<1>13. RotatedOnce' /\ OldSessionsEnd'
  BY <1>4 DEF SessionInv, RotatedOnce, OldSessionsEnd
<1>14. account.exists
  BY DEF SessionInv, RequestsLater, CommitPassword
<1>15. NothingBefore'
  BY <1>3, <1>14 DEF NothingBefore
<1> QED
  BY <1>7, <1>9, <1>10, <1>11, <1>12, <1>13, <1>15 DEF SessionInv


-----------------------------------------------------------------------------
(* The theorems *)

LEMMA SignupKeeps ==
    ASSUME SessionInv, NEW p \in Passwords, Signup(p)
    PROVE  SessionInv'
<1>1. /\ tokens \in [TokenIds -> Token] /\ links \in [LinkIds -> Link] /\ mailed \subseteq LinkIds
      /\ jwts \subseteq Nat /\ ~account.exists /\ account.version = 0
      /\ \A t \in TokenIds : tokens[t].state = "none"
      /\ \A r \in Reqs : tx[r].pc = "idle"
  BY DEF SessionInv, SessionTypeOK, NothingBefore, RequestsLater, Signup
<1>2. account' = [exists |-> TRUE, password |-> p, verified |-> FALSE, version |-> 0]
      /\ UNCHANGED tx
  BY DEF Signup
<1>3. account' \in Account /\ account'.exists /\ account'.version = 0
  BY <1>2 DEF Account
<1>4. RotatesLive' /\ ChangesAlone' /\ OpsApart' /\ RequestsLater' /\ RotatesCurrent'
  BY <1>1, <1>2, <1>3 DEF RotatesLive, ChangesAlone, OpsApart, RequestsLater,
     RotatesCurrent, Rotating, Changing
<1>5. CASE VerificationRequired
  <2>1. OneOf(FreshLinks) \in LinkIds
    BY <1>5, OneOfType DEF Signup, FreshLinks
  <2>2. /\ links' = [links EXCEPT ![OneOf(FreshLinks)] =
                       [state |-> "open", purpose |-> "verify", version |-> 0]]
        /\ mailed' = mailed \cup {OneOf(FreshLinks)} /\ UNCHANGED <<tokens, jwts>>
    BY <1>5 DEF Signup
  <2>3. [state |-> "open", purpose |-> "verify", version |-> 0] \in Link
    BY DEF Link, Purposes
  <2>4. SessionTypeOK'
    BY <1>1, <1>2, <1>3, <2>1, <2>2, <2>3 DEF SessionInv, SessionTypeOK
  <2>5. StoresFresh' /\ ParentsRevoked' /\ RotatedOnce'
    BY <1>2, <2>2 DEF SessionInv, StoresFresh, ParentsRevoked, RotatedOnce
  <2>6. NothingBefore'
    BY <1>3 DEF NothingBefore
  <2>7. OldSessionsEnd'
    BY <1>1, <2>2 DEF OldSessionsEnd
  <2> QED
    BY <1>4, <2>4, <2>5, <2>6, <2>7 DEF SessionInv
<1>6. CASE ~VerificationRequired
  <2> DEFINE f == OneOf(FreshTokens)
             n == [NoToken EXCEPT !.state = "live"]
  <2>1. f \in TokenIds /\ \A q \in Reqs : tx[q].fresh # f
    BY <1>6, OneOfType DEF Signup, FreshTokens
  <2>2. tokens' = [tokens EXCEPT ![f] = n] /\ jwts' = jwts \cup {0} /\ UNCHANGED <<links, mailed>>
    BY <1>6 DEF Signup
  <2>3. n \in Token /\ n.state = "live" /\ n.parent = 0 /\ n.from = 0
    <3>1. NoToken \in Token /\ NoToken.parent = 0 /\ NoToken.from = 0
      BY SessionAssumption DEF NoToken, Token
    <3> HIDE DEF NoToken
    <3> QED
      BY <3>1 DEF Token
  <2> HIDE DEF f, n
  <2>4. \A t \in TokenIds : tokens'[t] = IF t = f THEN n ELSE tokens[t]
    BY <1>1, <2>2
  <2>5. SessionTypeOK'
    BY <1>1, <1>2, <1>3, <2>1, <2>2, <2>3 DEF SessionInv, SessionTypeOK
  <2>6. StoresFresh'
    <3>1. \A q \in Reqs : tx[q].fresh # 0 => tx[q].fresh \in TokenIds
      BY DEF SessionInv, SessionTypeOK, Tx, TokenIds
    <3>2. \A q \in Reqs : tx[q].fresh # 0 => tokens'[tx[q].fresh].state = "none"
      BY <1>1, <2>1, <2>4, <3>1
    <3> QED
      BY <1>1, <1>2, <3>2 DEF SessionInv, StoresFresh
  <2>7. ParentsRevoked' /\ RotatedOnce'
    <3>1. \A t \in TokenIds : tokens'[t].parent = IF t = f THEN 0 ELSE tokens[t].parent
      BY <2>3, <2>4
    <3>2. \A t \in TokenIds : tokens[t].parent = 0
      BY <1>1 DEF SessionInv, SessionTypeOK, ParentsRevoked, Token, TokenIds
    <3> QED
      BY <3>1, <3>2 DEF ParentsRevoked, RotatedOnce
  <2>8. OldSessionsEnd'
    BY <1>1, <1>3, <2>3, <2>4 DEF OldSessionsEnd
  <2>9. NothingBefore'
    BY <1>3 DEF NothingBefore
  <2> QED
    BY <1>4, <2>5, <2>6, <2>7, <2>8, <2>9 DEF SessionInv
<1> QED
  BY <1>5, <1>6

LEMMA SessionInit == Init => SessionInv
<1> SUFFICES ASSUME Init PROVE SessionInv
  OBVIOUS
<1>1. /\ AnyPassword \in Passwords /\ NoTx \in Tx /\ NoTx.pc = "idle" /\ NoTx.fresh = 0
      /\ NoToken \in Token /\ NoToken.state = "none" /\ NoToken.parent = 0
      /\ NoLink \in Link /\ NoLink.state = "none"
  BY NoTxType, SessionAssumption DEF AnyPassword, NoTx, NoToken, Token, NoLink, Link, Purposes
<1>2. /\ account \in Account /\ account.version = 0
      /\ \A t \in TokenIds : tokens[t] = NoToken
      /\ \A l \in LinkIds : links[l] = NoLink
      /\ \A r \in Reqs : tx[r] = NoTx
  BY <1>1 DEF Init, Account
<1>3. SessionTypeOK
  BY <1>1, <1>2 DEF Init, SessionTypeOK
<1> QED
  BY <1>1, <1>2, <1>3 DEF SessionInv, RotatesLive, ChangesAlone, OpsApart, StoresFresh,
     NothingBefore, RequestsLater, ParentsRevoked, RotatesCurrent, RotatedOnce, OldSessionsEnd,
     Rotating, Changing

LEMMA SessionStutters ==
    ASSUME SessionInv, UNCHANGED authVars
    PROVE  SessionInv'
<1>1. TxInv'
  BY DEF SessionInv, SessionTypeOK, TxInv, authVars, RotatesLive, ChangesAlone, OpsApart,
     StoresFresh, RequestsLater, RotatesCurrent, Rotating, Changing
<1> QED
  BY <1>1, Keeps DEF authVars

LEMMA SessionInductive == Spec => []SessionInv
<1>1. SessionInv /\ [Next]_authVars => SessionInv'
  <2> SUFFICES ASSUME SessionInv, Next PROVE SessionInv'
    BY SessionStutters
  <2>1. CASE \E p \in Passwords : Signup(p)
    BY <2>1, SignupKeeps
  <2>2. CASE \E t \in TokenIds : Logout(t)
    BY <2>2, LogoutKeeps
  <2>3. ASSUME NEW r \in Reqs, Continue(r) PROVE SessionInv'
    BY <2>3, SignInSteps, LoginCommits, RefreshCommits, ChangeSteps, PasswordCommits, LinkSteps
       DEF Continue
  <2>4. AnyPassword \in Passwords
    BY SessionAssumption DEF AnyPassword
  <2>5. ASSUME NEW r \in Reqs, ~Continue(r),
               \/ \E p \in Passwords :
                    \/ StartLogin(r, p) \/ StartChange(r, p)
                    \/ \E l \in LinkIds : FindLink(r, l, "reset", p)
               \/ \E l \in LinkIds : FindLink(r, l, "verify", AnyPassword)
               \/ \E t \in TokenIds : LockToken(r, t)
               \/ \E purpose \in Purposes : StartIssue(r, purpose)
               \/ Abort(r)
        PROVE  SessionInv'
    BY <2>4, <2>5, SignInSteps, ChangeSteps, LinkSteps
  <2>6. CASE \E r, q \in Reqs : BreakDeadlock(r, q)
    BY <2>6, LinkSteps
  <2> QED
    BY <2>1, <2>2, <2>3, <2>5, <2>6 DEF Next
<1> QED
  BY <1>1, SessionInit, PTL DEF Spec

\* However many requests rotate refresh tokens, change the password or fail at
\* the same time, no token is ever exchanged for two.
THEOREM RotatesAtMostOnce == Spec => []RotatedOnce
<1>1. SessionInv => RotatedOnce
  BY DEF SessionInv
<1> QED
  BY <1>1, SessionInductive, PTL

\* Every live refresh token goes back to a login under the current password, or
\* to one that had verified the old password before it was changed.
THEOREM SessionsEndWithThePassword == Spec => []OldSessionsEnd
<1>1. SessionInv => OldSessionsEnd
  BY DEF SessionInv
<1> QED
  BY <1>1, SessionInductive, PTL

\* A rotation that commits answers with an access token of the current session
\* version: no change of password passes it by.
THEOREM RefreshesAreCurrent == Spec => []RefreshedIsCurrent
<1>1. SessionInv => RefreshedIsCurrent
  BY DEF SessionInv, RotatesCurrent, Rotating, RefreshedIsCurrent, At
<1> QED
  BY <1>1, SessionInductive, PTL

-----------------------------------------------------------------------------
(* The account's lock, and the links under it *)

\* Who has selected the account FOR UPDATE is alone with it, and the session
\* version it has read is the current one until it commits.
OwnersAlone ==
    \A r, q \in Reqs : OwnsAccount(r) => (OwnsAccount(q) => r = q) /\ ~SharesAccount(q)
OwnersCurrent == \A r \in Reqs : OwnsAccount(r) => tx[r].ver = account.version

\* No session version lies in the future, of an access token neither.
VersionsPast ==
    /\ \A r \in Reqs : tx[r].ver <= account.version
    /\ \A v \in jwts : v <= account.version

Consuming == {"reset", "verify"}

\* Which link a request is about: one that it has found, and that is still open
\* once it has the account; or one that it issues and that nobody has seen.
LinksFound ==
    \A r \in Reqs :
        /\ tx[r].pc = "locking" => tx[r].op \in PasswordOps \cup Consuming
        /\ tx[r].pc = "revoking" => tx[r].op \in PasswordOps
        /\ (tx[r].pc # "idle" /\ tx[r].op \in Consuming) =>
              /\ tx[r].link \in LinkIds
              /\ links[tx[r].link].state # "none" /\ links[tx[r].link].purpose = tx[r].op
        /\ (OwnsAccount(r) /\ tx[r].op \in Consuming) => links[tx[r].link].state = "open"
        /\ (tx[r].pc # "idle" /\ tx[r].op = "issue") =>
              tx[r].link \in LinkIds /\ links[tx[r].link].state = "none"

LinkInv ==
    /\ OwnersAlone
    /\ OwnersCurrent
    /\ VersionsPast
    /\ LinksFound
    /\ LinksDieInTime

LEMMA NoTxParts == NoTx.pc = "idle" /\ NoTx.ver = 0 /\ NoTx.op = "login"
  BY DEF NoTx

LEMMA VersionTypes ==
    ASSUME SessionInv
    PROVE  /\ account.version \in Nat /\ tx \in [Reqs -> Tx] /\ links \in [LinkIds -> Link]
           /\ \A r \in Reqs : /\ tx[r].ver \in Nat /\ tx[r].pc \in Pcs /\ tx[r].op \in Ops
                              /\ tx[r].purpose \in Purposes
           /\ jwts \subseteq Nat
  BY DEF SessionInv, SessionTypeOK, Account, Tx

\* Who issues a link has the account to itself.
LEMMA IssuersOwn ==
    ASSUME SessionInv, LinkInv, NEW r \in Reqs, tx[r].pc # "idle", tx[r].op = "issue"
    PROVE  OwnsAccount(r)
<1>1. tx[r].pc \in Pcs
  BY VersionTypes
<1>2. tx[r].pc \notin {"loading", "inserting"}
  BY DEF SessionInv, StoresFresh
<1>3. tx[r].pc # "locking"
  BY DEF LinkInv, LinksFound, PasswordOps, Consuming
<1> QED
  BY <1>1, <1>2, <1>3 DEF OwnsAccount, Pcs

\* A request that ends without effect on the account's version and its links.
LEMMA LinksEnd ==
    ASSUME SessionInv, LinkInv, NEW r \in Reqs, Ends(r), account'.version = account.version,
           UNCHANGED links, jwts' \subseteq jwts \cup {tx[r].ver}
    PROVE  LinkInv'
<1>1. \A q \in Reqs : tx'[q] = IF q = r THEN NoTx ELSE tx[q]
  BY VersionTypes DEF Ends
<1>2. \A q \in Reqs : OwnsAccount(q)' => q # r /\ OwnsAccount(q)
  BY <1>1, NoTxParts DEF OwnsAccount
<1>3. \A q \in Reqs : SharesAccount(q)' => q # r /\ SharesAccount(q)
  BY <1>1, NoTxParts DEF SharesAccount
<1>4. OwnersAlone' /\ OwnersCurrent'
  BY <1>1, <1>2, <1>3 DEF LinkInv, OwnersAlone, OwnersCurrent
<1>5. VersionsPast'
  BY <1>1, NoTxParts, VersionTypes DEF LinkInv, VersionsPast
<1>6. LinksFound'
  BY <1>1, <1>2, NoTxParts DEF LinkInv, LinksFound
<1>7. LinksDieInTime'
  BY DEF LinkInv, LinksDieInTime
<1> QED
  BY <1>4, <1>5, <1>6, <1>7 DEF LinkInv

\* What a request's next state has to show of the account and of its link.
LinkReady(r, s) ==
    /\ s.ver \in Nat /\ s.ver <= account.version
    /\ s.pc = "locking" => s.op \in PasswordOps \cup Consuming
    /\ s.pc = "revoking" => s.op \in PasswordOps
    /\ (s.pc # "idle" /\ s.op \in Consuming) =>
          /\ s.link \in LinkIds
          /\ links[s.link].state # "none" /\ links[s.link].purpose = s.op
    /\ (s.pc # "idle" /\ s.op = "issue") =>
          s.link \in LinkIds /\ links[s.link].state = "none"

Owning(s) == s.pc \in {"revoking", "mailing"} \/ (s.pc = "committing" /\ s.op \notin {"login", "refresh"})

OwnReady(r, s) ==
    Owning(s) => /\ OwnsAccount(r) \/ AccountLockable(r)
                 /\ s.ver = account.version
                 /\ s.op \in Consuming => links[s.link].state = "open"

\* A request that goes on.
LEMMA LinksGoOn ==
    ASSUME SessionInv, LinkInv, NEW r \in Reqs, NEW s \in Tx, tx' = [tx EXCEPT ![r] = s],
           UNCHANGED <<account, links, jwts>>,
           LinkReady(r, s), OwnReady(r, s),
           (s.pc = "committing" /\ s.op \in {"login", "refresh"}) =>
              \A q \in Reqs \ {r} : ~OwnsAccount(q)
    PROVE  LinkInv'
<1>1. \A q \in Reqs : tx'[q] = IF q = r THEN s ELSE tx[q]
  BY VersionTypes
<1>2. \A q \in Reqs : OwnsAccount(q)' <=> IF q = r THEN Owning(s) ELSE OwnsAccount(q)
  BY <1>1 DEF OwnsAccount, Owning
<1>3. \A q \in Reqs : SharesAccount(q)' <=>
          IF q = r THEN s.pc = "committing" /\ s.op \in {"login", "refresh"} ELSE SharesAccount(q)
  BY <1>1 DEF SharesAccount
<1>4. OwnersAlone'
  <2>1. Owning(s) => \A q \in Reqs \ {r} : ~OwnsAccount(q) /\ ~SharesAccount(q)
    BY DEF OwnReady, AccountLockable, LinkInv, OwnersAlone
  <2>2. ~(Owning(s) /\ s.pc = "committing" /\ s.op \in {"login", "refresh"})
    BY DEF Owning
  <2> QED
    BY <1>2, <1>3, <2>1, <2>2 DEF LinkInv, OwnersAlone
<1>5. OwnersCurrent' /\ VersionsPast'
  BY <1>1, <1>2 DEF LinkInv, OwnersCurrent, VersionsPast, OwnReady, LinkReady
<1>6. LinksFound'
  BY <1>1, <1>2 DEF LinkInv, LinksFound, OwnReady, LinkReady
<1>7. LinksDieInTime'
  BY DEF LinkInv, LinksDieInTime
<1> QED
  BY <1>4, <1>5, <1>6, <1>7 DEF LinkInv

\* The owner's commit may change any link that nobody else is about to issue.
LEMMA OwnerCommits ==
    ASSUME SessionInv, LinkInv, NEW r \in Reqs, Ends(r), OwnsAccount(r),
           account'.version \in {account.version, account.version + 1}, UNCHANGED jwts,
           \A l \in LinkIds : links[l].state # "none" =>
               links'[l].state # "none" /\ links'[l].purpose = links[l].purpose,
           LinksDieInTime'
    PROVE  LinkInv'
<1>1. \A q \in Reqs : tx'[q] = IF q = r THEN NoTx ELSE tx[q]
  BY VersionTypes DEF Ends
<1>2. \A q \in Reqs : ~OwnsAccount(q)'
  BY <1>1, NoTxParts DEF OwnsAccount, LinkInv, OwnersAlone
<1>3. OwnersAlone' /\ OwnersCurrent'
  BY <1>2 DEF OwnersAlone, OwnersCurrent
<1>4. VersionsPast'
  BY <1>1, NoTxParts, VersionTypes DEF LinkInv, VersionsPast
<1>5. \A q \in Reqs : (q # r /\ tx[q].pc # "idle") => tx[q].op # "issue"
  BY IssuersOwn DEF LinkInv, OwnersAlone
<1>6. LinksFound'
  BY <1>1, <1>2, <1>5, NoTxParts DEF LinkInv, LinksFound
<1> QED
  BY <1>3, <1>4, <1>6 DEF LinkInv

-----------------------------------------------------------------------------
(* The steps, as the links see them *)

\* A sign-in or a rotation that goes on wants the account to be free of owners.
LEMMA SignInGoesOn ==
    ASSUME SessionInv, LinkInv, NEW r \in Reqs, NEW s \in Tx, tx' = [tx EXCEPT ![r] = s],
           UNCHANGED <<account, tokens, links, mailed, jwts>>,
           s.op \in {"login", "refresh"}, s.pc \in {"loading", "inserting", "committing"},
           s.ver <= account.version,
           s.pc = "committing" => \A q \in Reqs \ {r} : ~OwnsAccount(q)
    PROVE  LinkInv'
<1>1. LinkReady(r, s) /\ OwnReady(r, s)
  BY DEF LinkReady, OwnReady, Owning, Consuming, Tx
<1> QED
  BY <1>1, LinksGoOn

LEMMA SignInLinks ==
    ASSUME SessionInv, LinkInv, NEW r \in Reqs,
           \/ \E p \in Passwords : StartLogin(r, p)
           \/ \E t \in TokenIds : LockToken(r, t)
           \/ LoadUser(r) \/ StoreToken(r) \/ CommitLogin(r) \/ CommitRefresh(r) \/ Abort(r)
           \/ \E q \in Reqs : BreakDeadlock(r, q)
    PROVE  LinkInv'
<1>1. /\ NoTx \in Tx /\ tx[r] \in Tx /\ account.version \in Nat /\ tx \in [Reqs -> Tx]
      /\ tx[r].ver \in Nat /\ tx[r].ver <= account.version
  BY NoTxType, VersionTypes DEF LinkInv, VersionsPast
<1>2. FreshTokens # {} => OneOf(FreshTokens) \in 0 .. MaxTokens
  BY OneOfType, FreshType DEF FreshTokens
<1>4. ASSUME NEW p \in Passwords, StartLogin(r, p) PROVE LinkInv'
  <2> DEFINE s == [NoTx EXCEPT !.pc = "inserting", !.op = "login",
                      !.ver = account.version, !.fresh = OneOf(FreshTokens)]
  <2>1. s \in Tx /\ s.op = "login" /\ s.pc = "inserting" /\ s.ver = account.version
    BY <1>1, <1>2, <1>4 DEF StartLogin, Tx, Ops, Pcs
  <2>2. tx' = [tx EXCEPT ![r] = s] /\ UNCHANGED <<account, tokens, links, mailed, jwts>>
    BY <1>4 DEF StartLogin
  <2> HIDE DEF s
  <2>3. /\ s.op \in {"login", "refresh"} /\ s.pc \in {"loading", "inserting", "committing"}
        /\ s.ver <= account.version
    BY <1>1, <2>1, <2>2
  <2> QED
    BY <2>1, <2>2, <2>3, SignInGoesOn
<1>5. ASSUME NEW t \in TokenIds, LockToken(r, t) PROVE LinkInv'
  <2> DEFINE s == [NoTx EXCEPT !.pc = "loading", !.op = "refresh",
                      !.token = t, !.fresh = OneOf(FreshTokens)]
  <2>1. s \in Tx /\ s.op = "refresh" /\ s.pc = "loading" /\ s.ver = NoTx.ver
    BY <1>1, <1>2, <1>5, FreshType DEF LockToken, Tx, Ops, Pcs
  <2>2. tx' = [tx EXCEPT ![r] = s] /\ UNCHANGED <<account, tokens, links, mailed, jwts>>
    BY <1>5 DEF LockToken
  <2> HIDE DEF s
  <2>3. /\ s.op \in {"login", "refresh"} /\ s.pc \in {"loading", "inserting", "committing"}
        /\ s.ver <= account.version
    BY <1>1, <2>1, <2>2, NoTxParts
  <2> QED
    BY <2>1, <2>2, <2>3, SignInGoesOn
<1>6. ASSUME LoadUser(r) PROVE LinkInv'
  <2>1. CASE Ends(r)
    BY <1>6, <2>1, LinksEnd DEF LoadUser
  <2>2. CASE tx' = [tx EXCEPT ![r].pc = "inserting", ![r].ver = account.version]
    <3> DEFINE s == [tx[r] EXCEPT !.pc = "inserting", !.ver = account.version]
    <3>1. /\ s \in Tx /\ s.op = tx[r].op /\ s.pc = "inserting" /\ s.ver = account.version
          /\ tx' = [tx EXCEPT ![r] = s]
      BY <1>1, <2>2 DEF Tx, Pcs
    <3>2. tx[r].op = "refresh" /\ UNCHANGED <<account, tokens, links, mailed, jwts>>
      BY <1>6 DEF LoadUser, At
    <3> HIDE DEF s
    <3>3. /\ s.op \in {"login", "refresh"} /\ s.pc \in {"loading", "inserting", "committing"}
          /\ s.ver <= account.version
      BY <1>1, <3>1, <3>2
    <3> QED
      BY <3>1, <3>2, <3>3, SignInGoesOn
  <2> QED
    BY <1>6, <2>1, <2>2 DEF LoadUser
<1>7. ASSUME StoreToken(r) PROVE LinkInv'
  <2> DEFINE s == [tx[r] EXCEPT !.pc = "committing"]
  <2>1. /\ s \in Tx /\ s.op = tx[r].op /\ s.pc = "committing" /\ s.ver = tx[r].ver
        /\ tx' = [tx EXCEPT ![r] = s]
    BY <1>1, <1>7 DEF StoreToken, Goes, Tx, Pcs
  <2>2. /\ tx[r].op \in {"login", "refresh"} /\ UNCHANGED <<account, tokens, links, mailed, jwts>>
        /\ \A q \in Reqs \ {r} : ~OwnsAccount(q)
    BY <1>7 DEF StoreToken, SessionInv, StoresFresh
  <2> HIDE DEF s
  <2>3. /\ s.op \in {"login", "refresh"} /\ s.pc \in {"loading", "inserting", "committing"}
        /\ s.ver <= account.version
    BY <1>1, <2>1, <2>2
  <2> QED
    BY <2>1, <2>2, <2>3, SignInGoesOn
<1>8. CASE CommitLogin(r) \/ CommitRefresh(r)
  BY <1>8, LinksEnd DEF CommitLogin, CommitRefresh
<1>9. CASE Abort(r) \/ \E q \in Reqs : BreakDeadlock(r, q)
  BY <1>9, LinksEnd DEF Abort, BreakDeadlock
<1> QED
  BY <1>4, <1>5, <1>6, <1>7, <1>8, <1>9

LEMMA ChangeLinks ==
    ASSUME SessionInv, LinkInv, NEW r \in Reqs,
           \/ \E p \in Passwords : StartChange(r, p)
           \/ \E l \in LinkIds, op \in {"reset", "verify"}, p \in Passwords : FindLink(r, l, op, p)
           \/ LockAccount(r) \/ RevokeAll(r)
    PROVE  LinkInv'
<1>1. /\ NoTx \in Tx /\ tx[r] \in Tx /\ account.version \in Nat /\ tx \in [Reqs -> Tx]
      /\ tx[r].ver \in Nat /\ tx[r].ver <= account.version /\ account.password \in Passwords
  BY NoTxType, VersionTypes DEF LinkInv, VersionsPast, SessionInv, SessionTypeOK, Account
<1>2. UNCHANGED <<account, tokens, links, mailed, jwts>>
  BY DEF StartChange, FindLink, LockAccount, RevokeAll
<1>3. ASSUME NEW p \in Passwords, StartChange(r, p) PROVE LinkInv'
  <2> DEFINE s == [NoTx EXCEPT !.pc = "locking", !.op = "change",
                      !.ver = account.version, !.knows = account.password, !.new = p]
  <2>1. s \in Tx /\ s.op = "change" /\ s.pc = "locking" /\ s.ver = account.version
    BY <1>1 DEF Tx, Ops, Pcs
  <2>2. tx' = [tx EXCEPT ![r] = s] /\ UNCHANGED <<account, tokens, links, mailed, jwts>>
    BY <1>3 DEF StartChange
  <2> HIDE DEF s
  <2>3. LinkReady(r, s) /\ OwnReady(r, s)
    BY <1>1, <2>1 DEF LinkReady, OwnReady, Owning, Consuming, PasswordOps
  <2> QED
    BY <1>2, <2>1, <2>2, <2>3, LinksGoOn
<1>4. ASSUME NEW l \in LinkIds, NEW op \in {"reset", "verify"}, NEW p \in Passwords,
             FindLink(r, l, op, p)
      PROVE  LinkInv'
  <2> DEFINE s == [NoTx EXCEPT !.pc = "locking", !.op = op, !.link = l, !.new = p]
  <2>0. op \in Ops /\ l \in 0 .. MaxLinks
    BY LinkType DEF Ops
  <2>1. s \in Tx /\ s.op = op /\ s.pc = "locking" /\ s.ver = NoTx.ver /\ s.link = l
    BY <1>1, <2>0 DEF Tx, Pcs
  <2>2. tx' = [tx EXCEPT ![r] = s] /\ links[l].state = "open" /\ links[l].purpose = op
        /\ UNCHANGED <<account, tokens, links, mailed, jwts>>
    BY <1>4 DEF FindLink
  <2> HIDE DEF s
  <2>3. LinkReady(r, s) /\ OwnReady(r, s)
    BY <1>1, <2>1, <2>2, NoTxParts DEF LinkReady, OwnReady, Owning, Consuming, PasswordOps
  <2> QED
    BY <1>2, <2>1, <2>2, <2>3, LinksGoOn
<1>5. ASSUME LockAccount(r) PROVE LinkInv'
  <2>0. /\ tx[r].pc = "locking" /\ AccountLockable(r) /\ tx[r].op \in PasswordOps \cup Consuming
        /\ tx[r].op \in Consuming =>
              /\ tx[r].link \in LinkIds /\ links[tx[r].link].state # "none"
              /\ links[tx[r].link].purpose = tx[r].op
    BY <1>5 DEF LockAccount, LinkInv, LinksFound
  <2>1. CASE Ends(r)
    BY <1>2, <2>1, LinksEnd
  <2>2. CASE /\ StillGood(r)
             /\ tx' = [tx EXCEPT ![r].pc = IF tx[r].op = "verify" THEN "committing" ELSE "revoking",
                              ![r].ver = account.version]
    <3> DEFINE s == [tx[r] EXCEPT !.pc = IF tx[r].op = "verify" THEN "committing" ELSE "revoking",
                                  !.ver = account.version]
    <3>1. /\ s \in Tx /\ s.op = tx[r].op /\ s.link = tx[r].link /\ s.ver = account.version
          /\ s.pc = IF tx[r].op = "verify" THEN "committing" ELSE "revoking"
          /\ tx' = [tx EXCEPT ![r] = s]
      BY <1>1, <2>2 DEF Tx, Pcs
    <3> HIDE DEF s
    <3>2. tx[r].op \in Consuming => links[tx[r].link].state = "open"
      BY <2>2 DEF StillGood, Consuming
    <3>3. LinkReady(r, s) /\ OwnReady(r, s)
      BY <1>1, <2>0, <3>1, <3>2 DEF LinkReady, OwnReady, Owning, Consuming, PasswordOps
    <3>4. ~(s.pc = "committing" /\ s.op \in {"login", "refresh"})
      BY <3>1
    <3> QED
      BY <1>2, <3>1, <3>3, <3>4, LinksGoOn
  <2> QED
    BY <1>5, <2>1, <2>2 DEF LockAccount
<1>6. ASSUME RevokeAll(r) PROVE LinkInv'
  <2> DEFINE s == [tx[r] EXCEPT !.pc = "committing"]
  <2>1. /\ s \in Tx /\ s.op = tx[r].op /\ s.pc = "committing" /\ s.ver = tx[r].ver
        /\ s.link = tx[r].link /\ tx' = [tx EXCEPT ![r] = s]
    BY <1>1, <1>6 DEF RevokeAll, Goes, Tx, Pcs
  <2>2. tx[r].pc = "revoking" /\ tx[r].op \in PasswordOps /\ OwnsAccount(r)
    BY <1>6 DEF RevokeAll, LinkInv, LinksFound, OwnsAccount
  <2> HIDE DEF s
  <2>3. LinkReady(r, s) /\ OwnReady(r, s)
    BY <1>1, <2>1, <2>2 DEF LinkReady, OwnReady, Owning, Consuming, PasswordOps,
       LinkInv, LinksFound, OwnersCurrent
  <2> QED
    BY <1>2, <2>1, <2>2, <2>3, LinksGoOn DEF PasswordOps
<1> QED
  BY <1>3, <1>4, <1>5, <1>6

LEMMA IssueLinks ==
    ASSUME SessionInv, LinkInv, NEW r \in Reqs,
           (\E purpose \in Purposes : StartIssue(r, purpose)) \/ SendMail(r)
    PROVE  LinkInv'
<1>1. /\ NoTx \in Tx /\ tx[r] \in Tx /\ account.version \in Nat /\ tx \in [Reqs -> Tx]
  BY NoTxType, VersionTypes DEF SessionInv, SessionTypeOK
<1>2. ASSUME NEW purpose \in Purposes, StartIssue(r, purpose) PROVE LinkInv'
  <2> DEFINE s == [NoTx EXCEPT !.pc = "mailing", !.op = "issue", !.purpose = purpose,
                      !.link = OneOf(FreshLinks), !.ver = account.version]
  <2>1. /\ OneOf(FreshLinks) \in LinkIds /\ OneOf(FreshLinks) \in 0 .. MaxLinks
        /\ links[OneOf(FreshLinks)].state = "none"
    BY <1>2, OneOfType, LinkType DEF StartIssue, FreshLinks
  <2>2. /\ s \in Tx /\ s.op = "issue" /\ s.pc = "mailing" /\ s.link = OneOf(FreshLinks)
        /\ s.ver = account.version
    BY <1>1, <2>1 DEF Tx, Ops, Pcs
  <2>3. /\ tx' = [tx EXCEPT ![r] = s] /\ AccountLockable(r)
        /\ UNCHANGED <<account, tokens, links, mailed, jwts>>
    BY <1>2 DEF StartIssue
  <2> HIDE DEF s
  <2>4. LinkReady(r, s) /\ OwnReady(r, s)
    BY <1>1, <2>1, <2>2, <2>3 DEF LinkReady, OwnReady, Owning, Consuming
  <2>5. s.pc # "committing"
    BY <2>2
  <2> QED
    BY <2>2, <2>3, <2>4, <2>5, LinksGoOn
<1>3. ASSUME SendMail(r) PROVE LinkInv'
  <2>1. /\ tx[r].pc = "mailing" /\ tx[r].op = "issue" /\ OwnsAccount(r)
        /\ UNCHANGED <<account, tokens, links, jwts>>
    BY <1>3 DEF SendMail, SessionInv, OpsApart, OwnsAccount
  <2>2. CASE Ends(r)
    BY <2>1, <2>2, LinksEnd
  <2>3. CASE Goes(r, "committing")
    <3> DEFINE s == [tx[r] EXCEPT !.pc = "committing"]
    <3>1. /\ s \in Tx /\ s.op = "issue" /\ s.pc = "committing" /\ s.ver = tx[r].ver
          /\ s.link = tx[r].link /\ tx' = [tx EXCEPT ![r] = s]
      BY <1>1, <2>1, <2>3 DEF Goes, Tx, Pcs
    <3> HIDE DEF s
    <3>2. /\ tx[r].ver = account.version
          /\ tx[r].link \in LinkIds /\ links[tx[r].link].state = "none"
      BY <2>1 DEF LinkInv, LinksFound, OwnersCurrent
    <3>3. LinkReady(r, s) /\ OwnReady(r, s)
      BY <1>1, <2>1, <3>1, <3>2 DEF LinkReady, OwnReady, Owning, Consuming
    <3> QED
      BY <2>1, <3>1, <3>3, LinksGoOn
  <2> QED
    BY <1>3, <2>2, <2>3 DEF SendMail
<1> QED
  BY <1>2, <1>3

\* Using links up opens none, and leaves none of the purpose open.
LEMMA ConsumedLinks ==
    ASSUME SessionInv, NEW purpose \in Purposes
    PROVE  /\ Consumed(purpose) \in [LinkIds -> Link]
           /\ \A l \in LinkIds :
                /\ Consumed(purpose)[l].purpose = links[l].purpose
                /\ Consumed(purpose)[l].version = links[l].version
                /\ Consumed(purpose)[l].state = "none" <=> links[l].state = "none"
                /\ Consumed(purpose)[l].state = "open" =>
                      links[l].state = "open" /\ links[l].purpose # purpose
<1>1. links \in [LinkIds -> Link]
  BY VersionTypes
<1>2. ASSUME NEW l \in LinkIds
      PROVE  /\ Consumed(purpose)[l] \in Link
             /\ Consumed(purpose)[l].purpose = links[l].purpose
             /\ Consumed(purpose)[l].version = links[l].version
             /\ Consumed(purpose)[l].state = "none" <=> links[l].state = "none"
             /\ Consumed(purpose)[l].state = "open" =>
                   links[l].state = "open" /\ links[l].purpose # purpose
  <2>1. links[l] \in Link
    BY <1>1
  <2>2. CASE links[l].state = "open" /\ links[l].purpose = purpose
    <3>1. Consumed(purpose)[l] = [links[l] EXCEPT !.state = "used"]
      BY <2>2 DEF Consumed
    <3> QED
      BY <2>1, <2>2, <3>1 DEF Link
  <2>3. CASE ~(links[l].state = "open" /\ links[l].purpose = purpose)
    <3>1. Consumed(purpose)[l] = links[l]
      BY <2>3 DEF Consumed
    <3> QED
      BY <2>1, <2>3, <3>1
  <2> QED
    BY <2>2, <2>3
<1>3. Consumed(purpose) \in [LinkIds -> Link]
  BY <1>2 DEF Consumed
<1> QED
  BY <1>2, <1>3

\* A change of password leaves no reset link open.
LEMMA PasswordLinks ==
    ASSUME SessionInv, LinkInv, NEW r \in Reqs, CommitPassword(r)
    PROVE  LinkInv'
<1>1. /\ tx[r].pc = "committing" /\ tx[r].op \in PasswordOps
      /\ links' = Consumed("reset") /\ Ends(r) /\ UNCHANGED jwts
      /\ account' = [account EXCEPT !.password = tx[r].new, !.version = tx[r].ver + 1]
  BY DEF CommitPassword
<1>2. OwnsAccount(r) /\ tx[r].ver = account.version
  BY <1>1 DEF OwnsAccount, PasswordOps, LinkInv, OwnersCurrent
<1>3. account'.version = account.version + 1
  <2>1. account \in Account
    BY DEF SessionInv, SessionTypeOK
  <2> QED
    BY <1>1, <1>2, <2>1 DEF Account
<1>4. "reset" \in Purposes
  BY DEF Purposes
<1>5. LinksDieInTime'
  <2>1. \A l \in LinkIds : links'[l].state = "open" =>
           links[l].state = "open" /\ links'[l].purpose = links[l].purpose /\ links'[l].purpose # "reset"
    BY <1>1, <1>4, ConsumedLinks
  <2> QED
    BY <2>1 DEF LinkInv, LinksDieInTime
<1>6. \A l \in LinkIds : links[l].state # "none" =>
         links'[l].state # "none" /\ links'[l].purpose = links[l].purpose
  BY <1>1, <1>4, ConsumedLinks
<1>7. account'.version \in {account.version, account.version + 1}
  BY <1>3
<1> QED
  BY <1>1, <1>2, <1>5, <1>6, <1>7, OwnerCommits

LEMMA VerifyLinks ==
    ASSUME SessionInv, LinkInv, NEW r \in Reqs, CommitVerify(r)
    PROVE  LinkInv'
<1>1. /\ tx[r].pc = "committing" /\ tx[r].op = "verify" /\ Ends(r) /\ UNCHANGED jwts
      /\ links' = [links EXCEPT ![tx[r].link].state = "used"]
      /\ account' = [account EXCEPT !.verified = TRUE]
  BY DEF CommitVerify, At
<1>2. OwnsAccount(r) /\ tx[r].link \in LinkIds
  BY <1>1 DEF OwnsAccount, LinkInv, LinksFound, Consuming
<1>3. account'.version = account.version
  BY <1>1 DEF SessionInv, SessionTypeOK, Account
<1>4. \A l \in LinkIds :
         /\ links'[l].purpose = links[l].purpose /\ links'[l].version = links[l].version
         /\ l = tx[r].link => links'[l].state = "used"
         /\ l # tx[r].link => links'[l].state = links[l].state
  BY <1>1, <1>2, VersionTypes DEF Link
<1>5. LinksDieInTime'
  BY <1>3, <1>4 DEF LinkInv, LinksDieInTime
<1>6. \A l \in LinkIds : links[l].state # "none" =>
         links'[l].state # "none" /\ links'[l].purpose = links[l].purpose
  BY <1>4
<1>7. account'.version \in {account.version, account.version + 1}
  BY <1>3
<1> QED
  BY <1>1, <1>2, <1>5, <1>6, <1>7, OwnerCommits

\* A link is issued after the open ones of its purpose are used up.
LEMMA IssuedLinks ==
    ASSUME SessionInv, LinkInv, NEW r \in Reqs, CommitLink(r)
    PROVE  LinkInv'
<1> DEFINE k == tx[r].link
           p == tx[r].purpose
           new == [state |-> "open", purpose |-> p, version |-> tx[r].ver]
<1>1. /\ tx[r].pc = "committing" /\ tx[r].op = "issue" /\ Ends(r)
      /\ UNCHANGED <<account, tokens, mailed, jwts>>
      /\ links' = [Consumed(p) EXCEPT ![k] = new]
  BY DEF CommitLink, At
<1>2. OwnsAccount(r) /\ tx[r].ver = account.version /\ k \in LinkIds /\ links[k].state = "none"
  BY <1>1 DEF OwnsAccount, LinkInv, LinksFound, OwnersCurrent
<1>3. p \in Purposes
  BY VersionTypes
<1>4. \A l \in LinkIds : links'[l] = IF l = k THEN new ELSE Consumed(p)[l]
  BY <1>1, <1>3, ConsumedLinks
<1>5. new.state = "open" /\ new.purpose = p /\ new.version = account'.version
  BY <1>1, <1>2
<1> HIDE DEF k, p, new
<1>6. \A l \in LinkIds : (l # k /\ links'[l].state = "open") =>
         /\ links[l].state = "open" /\ links'[l].purpose = links[l].purpose
         /\ links'[l].purpose # p /\ links'[l].version = links[l].version
  BY <1>3, <1>4, ConsumedLinks
<1>7. LinksDieInTime'
  BY <1>1, <1>4, <1>5, <1>6 DEF LinkInv, LinksDieInTime
<1>8. \A l \in LinkIds : links[l].state # "none" =>
         links'[l].state # "none" /\ links'[l].purpose = links[l].purpose
  BY <1>2, <1>3, <1>4, ConsumedLinks
<1>9. account'.version \in {account.version, account.version + 1}
  BY <1>1
<1> QED
  BY <1>1, <1>2, <1>7, <1>8, <1>9, OwnerCommits

\* No request is under way when the account is created, and no link exists.
LEMMA SignupLinks ==
    ASSUME SessionInv, LinkInv, NEW p \in Passwords, Signup(p)
    PROVE  LinkInv'
<1>1. /\ links \in [LinkIds -> Link] /\ account.version = 0
      /\ \A l \in LinkIds : links[l].state = "none"
      /\ \A r \in Reqs : tx[r].pc = "idle"
  BY DEF SessionInv, SessionTypeOK, NothingBefore, RequestsLater, Signup
<1>2. account'.version = 0 /\ UNCHANGED tx /\ jwts' \subseteq jwts \cup {0}
  BY DEF Signup
<1>3. OwnersAlone' /\ OwnersCurrent' /\ LinksFound'
  BY <1>1, <1>2 DEF OwnersAlone, OwnersCurrent, LinksFound, OwnsAccount
<1>4. VersionsPast'
  BY <1>1, <1>2 DEF LinkInv, VersionsPast
<1>5. \/ UNCHANGED links
      \/ \E l \in LinkIds : links' = [links EXCEPT ![l] =
                               [state |-> "open", purpose |-> "verify", version |-> 0]]
  <2>1. FreshLinks # {} => OneOf(FreshLinks) \in LinkIds
    BY OneOfType DEF FreshLinks
  <2> QED
    BY <2>1 DEF Signup
<1>6. LinksDieInTime'
  BY <1>1, <1>2, <1>5 DEF LinksDieInTime
<1> QED
  BY <1>3, <1>4, <1>6 DEF LinkInv

LEMMA LinkStays ==
    ASSUME SessionInv, LinkInv, UNCHANGED <<account, links, mailed, tx, jwts>>
    PROVE  LinkInv'
  BY DEF LinkInv, OwnersAlone, OwnersCurrent, VersionsPast, LinksFound, LinksDieInTime,
     OwnsAccount, SharesAccount

LEMMA LinkInit == Init => LinkInv
<1> SUFFICES ASSUME Init PROVE LinkInv
  OBVIOUS
<1>1. /\ account.version = 0 /\ jwts = {} /\ \A r \in Reqs : tx[r] = NoTx
      /\ \A l \in LinkIds : links[l].state = "none"
  BY DEF Init, NoLink
<1> QED
  BY <1>1, NoTxParts DEF LinkInv, OwnersAlone, OwnersCurrent, VersionsPast, LinksFound,
     LinksDieInTime, OwnsAccount, SharesAccount

LEMMA LinkInductive == Spec => []LinkInv
<1>1. SessionInv /\ LinkInv /\ [Next]_authVars => LinkInv'
  <2> SUFFICES ASSUME SessionInv, LinkInv, [Next]_authVars PROVE LinkInv'
    OBVIOUS
  <2>1. CASE \E p \in Passwords : Signup(p)
    BY <2>1, SignupLinks
  <2>2. CASE (\E t \in TokenIds : Logout(t)) \/ UNCHANGED authVars
    BY <2>2, LinkStays DEF Logout, authVars
  <2>3. ASSUME NEW r \in Reqs, Continue(r) PROVE LinkInv'
    BY <2>3, SignInLinks, ChangeLinks, PasswordLinks, VerifyLinks, IssueLinks, IssuedLinks
       DEF Continue
  <2>4. AnyPassword \in Passwords
    BY SessionAssumption DEF AnyPassword
  <2>5. ASSUME NEW r \in Reqs, ~Continue(r),
               \/ \E p \in Passwords :
                    \/ StartLogin(r, p) \/ StartChange(r, p)
                    \/ \E l \in LinkIds : FindLink(r, l, "reset", p)
               \/ \E l \in LinkIds : FindLink(r, l, "verify", AnyPassword)
               \/ \E t \in TokenIds : LockToken(r, t)
               \/ \E purpose \in Purposes : StartIssue(r, purpose)
               \/ Abort(r)
        PROVE  LinkInv'
    BY <2>4, <2>5, SignInLinks, ChangeLinks, IssueLinks
  <2>6. CASE \E r, q \in Reqs : BreakDeadlock(r, q)
    BY <2>6, SignInLinks
  <2> QED
    BY <2>1, <2>2, <2>3, <2>5, <2>6 DEF Next
<1> QED
  BY <1>1, LinkInit, SessionInductive, PTL DEF Spec

\* However requests for links, their use and changes of password cross each
\* other, an account has one open link of a purpose, and a reset link is only open
\* while the password is the one it was requested under.
THEOREM LinksDieWithThePassword == Spec => []LinksDieInTime
<1>1. LinkInv => LinksDieInTime
  BY DEF LinkInv
<1> QED
  BY <1>1, LinkInductive, PTL

\* No link takes effect twice, however many requests present it at once.
THEOREM LinksWorkAtMostOnce == Spec => []LinksWorkOnce
<1>1. LinkInv => LinksWorkOnce
  BY DEF LinkInv, LinksFound, LinksWorkOnce, OwnsAccount, Consuming
<1> QED
  BY <1>1, LinkInductive, PTL

\* A change of password moves the session version on to one that no access token
\* has been issued for, whatever logins and rotations are under way.
THEOREM ChangesEndAccess == Spec => EveryChangeEndsAccess
<1>1. SessionInv /\ LinkInv /\ [Next]_authVars =>
         [\A r \in Reqs : CommitPassword(r) => account'.version \notin jwts]_authVars
  <2> SUFFICES ASSUME SessionInv, LinkInv, NEW r \in Reqs, CommitPassword(r)
               PROVE  account'.version \notin jwts
    OBVIOUS
  <2>1. /\ account \in Account /\ tx[r].ver = account.version
        /\ account' = [account EXCEPT !.password = tx[r].new, !.version = tx[r].ver + 1]
    BY DEF SessionInv, SessionTypeOK, CommitPassword, LinkInv, OwnersCurrent, OwnsAccount, PasswordOps
  <2>2. account.version \in Nat /\ account'.version = account.version + 1
    BY <2>1 DEF Account
  <2> QED
    BY <2>2 DEF LinkInv, VersionsPast
<1> QED
  BY <1>1, SessionInductive, LinkInductive, PTL DEF Spec, EveryChangeEndsAccess
=============================================================================
