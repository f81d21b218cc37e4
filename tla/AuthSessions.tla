---------------------------- MODULE AuthSessions ----------------------------
(***************************************************************************)
(* The sessions of one account (auth.py, auth_router.py) and the links     *)
(* mailed to it (account_recovery.py).  Requests of any worker are         *)
(* transactions of the application database under READ COMMITTED: they see *)
(* committed rows, a row written or selected FOR UPDATE is locked until    *)
(* the transaction ends, and an inserted refresh token holds a key share   *)
(* of the account's row.  Nothing is changed before it is committed.       *)
(***************************************************************************)
EXTENDS Integers, FiniteSets

CONSTANTS
    Reqs,                   \* request slots
    Passwords,              \* passwords the user may choose
    VerificationRequired,   \* email_verification_required
    MaxTokens,              \* bound: refresh tokens
    MaxLinks,               \* bound: account links
    MaxVersion              \* bound: no change starts at this session version

ASSUME SessionAssumption ==
    /\ Passwords # {} /\ VerificationRequired \in BOOLEAN
    /\ MaxTokens \in Nat /\ MaxLinks \in Nat /\ MaxVersion \in Nat

VARIABLES
    account,    \* the committed row of users
    tokens,     \* the committed rows of refresh_tokens
    links,      \* the committed rows of account_tokens
    mailed,     \* links that were mailed, committed or not
    tx,         \* each request's transaction
    jwts        \* session versions access tokens were issued for

authVars == <<account, tokens, links, mailed, tx, jwts>>

TokenIds == 1 .. MaxTokens
LinkIds == 1 .. MaxLinks
Purposes == {"verify", "reset"}

Account == [exists : BOOLEAN, password : Passwords, verified : BOOLEAN, version : Nat]

\* parent: history, the token it was rotated from, or 0.  from: history, the
\* session version of the login its line began with.  late: history, that login
\* had verified a password that was changed before its token was stored.
Token == [state : {"none", "live", "revoked"}, parent : 0 .. MaxTokens,
          from : Nat, late : BOOLEAN]
NoToken == [state |-> "none", parent |-> 0, from |-> 0, late |-> FALSE]

\* version: history, the session version it was issued under.
Link == [state : {"none", "open", "used"}, purpose : Purposes, version : Nat]
NoLink == [state |-> "none", purpose |-> "verify", version |-> 0]

Ops == {"login", "refresh", "change", "reset", "verify", "issue"}
Pcs == {"idle", "loading", "inserting", "locking", "revoking", "mailing", "committing"}

\* ver: the session version it has read.  token: the refresh token it rotates;
\* fresh: the one it stores.  link: the link it issues or consumes.  knows, new:
\* the current password it was given, and the one to set.
Tx == [pc : Pcs, op : Ops, ver : Nat, token : 0 .. MaxTokens, fresh : 0 .. MaxTokens,
       link : 0 .. MaxLinks, purpose : Purposes, knows : Passwords, new : Passwords]

AnyPassword == CHOOSE p \in Passwords : TRUE
NoTx == [pc |-> "idle", op |-> "login", ver |-> 0, token |-> 0, fresh |-> 0,
         link |-> 0, purpose |-> "verify", knows |-> AnyPassword, new |-> AnyPassword]

SessionTypeOK ==
    /\ account \in Account
    /\ tokens \in [TokenIds -> Token]
    /\ links \in [LinkIds -> Link]
    /\ mailed \subseteq LinkIds
    /\ tx \in [Reqs -> Tx]
    /\ jwts \subseteq Nat

Init ==
    /\ account = [exists |-> FALSE, password |-> AnyPassword, verified |-> FALSE, version |-> 0]
    /\ tokens = [t \in TokenIds |-> NoToken]
    /\ links = [l \in LinkIds |-> NoLink]
    /\ mailed = {}
    /\ tx = [r \in Reqs |-> NoTx]
    /\ jwts = {}

-----------------------------------------------------------------------------
(* Rows and locks *)

Ends(r) == tx' = [tx EXCEPT ![r] = NoTx]
Goes(r, pc) == tx' = [tx EXCEPT ![r].pc = pc]
At(r, op, pc) == tx[r].op = op /\ tx[r].pc = pc

PasswordOps == {"change", "reset"}
MaySignIn == account.exists /\ (VerificationRequired => account.verified)

\* SELECT ... FOR UPDATE of the account: until the transaction ends.
OwnsAccount(r) ==
    \/ tx[r].pc \in {"revoking", "mailing"}
    \/ tx[r].pc = "committing" /\ tx[r].op \notin {"login", "refresh"}

\* A stored token's foreign key.
SharesAccount(r) == tx[r].pc = "committing" /\ tx[r].op \in {"login", "refresh"}

\* Mutant of OwnsToken: a rotation selects its token without FOR UPDATE and
\* revokes it with the commit.
OwnsTokenAtCommit(r, t) == tx[r].pc = "committing" /\ tx[r].op \in PasswordOps

OwnsToken(r, t) ==
    \/ tx[r].pc # "idle" /\ tx[r].op = "refresh" /\ tx[r].token = t
    \/ tx[r].pc = "committing" /\ tx[r].op \in PasswordOps

TokenFree(r, t) == \A q \in Reqs \ {r} : ~OwnsToken(q, t)

\* Random tokens, never seen before.
FreshTokens == {t \in TokenIds : tokens[t].state = "none" /\ \A q \in Reqs : tx[q].fresh # t}
FreshLinks == {l \in LinkIds \ mailed : links[l].state = "none" /\ \A q \in Reqs : tx[q].link # l}
OneOf(ids) == CHOOSE i \in ids : TRUE

-----------------------------------------------------------------------------
(* /signup: nobody sees the row before it is committed.  With verification   *)
(* its link is mailed first, and the account is not created if that fails.   *)

Signup(p) ==
    /\ ~account.exists
    /\ account' = [exists |-> TRUE, password |-> p, verified |-> FALSE, version |-> 0]
    /\ IF VerificationRequired
       THEN /\ FreshLinks # {}
            /\ LET l == OneOf(FreshLinks) IN
               /\ links' = [links EXCEPT ![l] = [state |-> "open", purpose |-> "verify", version |-> 0]]
               /\ mailed' = mailed \cup {l}
            /\ UNCHANGED <<tokens, jwts>>
       ELSE /\ FreshTokens # {}
            /\ tokens' = [tokens EXCEPT ![OneOf(FreshTokens)] = [NoToken EXCEPT !.state = "live"]]
            /\ jwts' = jwts \cup {0}
            /\ UNCHANGED <<links, mailed>>
    /\ UNCHANGED tx

-----------------------------------------------------------------------------
(* /login and /refresh *)

\* The account is read and its password verified: 401 or 403 without effect.
StartLogin(r, p) ==
    /\ tx[r].pc = "idle" /\ FreshTokens # {}
    /\ MaySignIn /\ p = account.password
    /\ tx' = [tx EXCEPT ![r] = [NoTx EXCEPT !.pc = "inserting", !.op = "login",
                    !.ver = account.version, !.fresh = OneOf(FreshTokens)]]
    /\ UNCHANGED <<account, tokens, links, mailed, jwts>>

\* Mutant of LockToken: a rotation does not wait for another one's token.
LockTokenAnyway(r, t) ==
    /\ tx[r].pc = "idle" /\ FreshTokens # {} /\ tokens[t].state = "live"
    /\ tx' = [tx EXCEPT ![r] = [NoTx EXCEPT !.pc = "loading", !.op = "refresh",
                    !.token = t, !.fresh = OneOf(FreshTokens)]]
    /\ UNCHANGED <<account, tokens, links, mailed, jwts>>

\* The old token is selected FOR UPDATE, waiting for its row and then looking
\* again, and revoked: 401 if it is revoked already, or has expired.
LockToken(r, t) ==
    /\ tx[r].pc = "idle" /\ FreshTokens # {}
    /\ TokenFree(r, t) /\ tokens[t].state = "live"
    /\ tx' = [tx EXCEPT ![r] = [NoTx EXCEPT !.pc = "loading", !.op = "refresh",
                    !.token = t, !.fresh = OneOf(FreshTokens)]]
    /\ UNCHANGED <<account, tokens, links, mailed, jwts>>

LoadUser(r) ==
    /\ At(r, "refresh", "loading")
    /\ IF MaySignIn
       THEN tx' = [tx EXCEPT ![r].pc = "inserting", ![r].ver = account.version]
       ELSE Ends(r)
    /\ UNCHANGED <<account, tokens, links, mailed, jwts>>

\* store_refresh_token: the INSERT waits while somebody owns the account's row.
StoreToken(r) ==
    /\ tx[r].pc = "inserting"
    /\ \A q \in Reqs \ {r} : ~OwnsAccount(q)
    /\ Goes(r, "committing")
    /\ UNCHANGED <<account, tokens, links, mailed, jwts>>

\* The access token is for the session version that was read.
CommitLogin(r) ==
    LET s == tx[r] IN
    /\ At(r, "login", "committing")
    /\ tokens' = [tokens EXCEPT ![s.fresh] =
                    [state |-> "live", parent |-> 0, from |-> s.ver,
                     late |-> s.ver # account.version]]
    /\ jwts' = jwts \cup {s.ver}
    /\ Ends(r)
    /\ UNCHANGED <<account, links, mailed>>

CommitRefresh(r) ==
    LET s == tx[r] IN
    /\ At(r, "refresh", "committing")
    /\ tokens' = [tokens EXCEPT ![s.token].state = "revoked",
                    ![s.fresh] = [tokens[s.token] EXCEPT !.state = "live", !.parent = s.token]]
    /\ jwts' = jwts \cup {s.ver}
    /\ Ends(r)
    /\ UNCHANGED <<account, links, mailed>>

\* /logout: one UPDATE, after whoever owns the token's row.
Logout(t) ==
    /\ tokens[t].state = "live" /\ \A q \in Reqs : ~OwnsToken(q, t)
    /\ tokens' = [tokens EXCEPT ![t].state = "revoked"]
    /\ UNCHANGED <<account, links, mailed, tx, jwts>>

-----------------------------------------------------------------------------
(* /change-password, /reset-password and /verify-email *)

\* get_current_user accepts the access token, and the password is verified.
StartChange(r, new) ==
    /\ tx[r].pc = "idle" /\ account.version < MaxVersion
    /\ account.version \in jwts /\ MaySignIn
    /\ new # account.password
    /\ tx' = [tx EXCEPT ![r] = [NoTx EXCEPT !.pc = "locking", !.op = "change",
                    !.ver = account.version, !.knows = account.password, !.new = new]]
    /\ UNCHANGED <<account, tokens, links, mailed, jwts>>

\* consume_link finds the link: 400 without effect if it is not open, not
\* committed, expired or for another purpose.
FindLink(r, l, op, new) ==
    /\ tx[r].pc = "idle" /\ account.version < MaxVersion
    /\ l \in mailed /\ links[l].state = "open" /\ links[l].purpose = op
    /\ tx' = [tx EXCEPT ![r] = [NoTx EXCEPT !.pc = "locking", !.op = op,
                    !.link = l, !.new = new]]
    /\ UNCHANGED <<account, tokens, links, mailed, jwts>>

\* Mutant of StillGood: what was read before the lock is believed.
GoodBefore(r) == TRUE

\* Under the lock: the password is verified again, and the UPDATE that consumes
\* the link looks again.
StillGood(r) == IF tx[r].op = "change" THEN tx[r].knows = account.password
                ELSE links[tx[r].link].state = "open"

AccountLockable(r) == \A q \in Reqs \ {r} : ~OwnsAccount(q) /\ ~SharesAccount(q)

\* Mutant of LockAccount: /change-password goes on with the row its session has
\* loaded before (no populate_existing).
LockAccountStale(r) ==
    /\ tx[r].pc = "locking" /\ AccountLockable(r)
    /\ IF tx[r].op # "change" /\ ~StillGood(r) THEN Ends(r)
       ELSE tx' = [tx EXCEPT ![r].pc = IF tx[r].op = "verify" THEN "committing" ELSE "revoking",
                             ![r].ver = IF tx[r].op = "change" THEN @ ELSE account.version]
    /\ UNCHANGED <<account, tokens, links, mailed, jwts>>

\* SELECT ... FOR UPDATE of the account, and what its new state tells.
LockAccount(r) ==
    /\ tx[r].pc = "locking" /\ AccountLockable(r)
    /\ IF ~StillGood(r) THEN Ends(r)
       ELSE tx' = [tx EXCEPT ![r].pc = IF tx[r].op = "verify" THEN "committing" ELSE "revoking",
                             ![r].ver = account.version]
    /\ UNCHANGED <<account, tokens, links, mailed, jwts>>

\* The UPDATE of all the account's refresh tokens needs every row of them.
RevokeAll(r) ==
    /\ tx[r].pc = "revoking"
    /\ \A t \in TokenIds : tokens[t].state = "none" \/ TokenFree(r, t)
    /\ Goes(r, "committing")
    /\ UNCHANGED <<account, tokens, links, mailed, jwts>>

Revoked(t) == IF tokens[t].state = "none" THEN tokens[t] ELSE [tokens[t] EXCEPT !.state = "revoked"]

\* Open links of the purpose are used up.
Consumed(purpose) ==
    [l \in LinkIds |-> IF links[l].state = "open" /\ links[l].purpose = purpose
                       THEN [links[l] EXCEPT !.state = "used"] ELSE links[l]]

\* Mutant of CommitPassword: other reset links stay open.
CommitPasswordOnly(r) ==
    /\ tx[r].pc = "committing" /\ tx[r].op \in PasswordOps
    /\ account' = [account EXCEPT !.password = tx[r].new, !.version = tx[r].ver + 1]
    /\ tokens' = [t \in TokenIds |-> Revoked(t)]
    /\ links' = IF tx[r].op = "change" THEN links ELSE [links EXCEPT ![tx[r].link].state = "used"]
    /\ Ends(r)
    /\ UNCHANGED <<mailed, jwts>>

CommitPassword(r) ==
    /\ tx[r].pc = "committing" /\ tx[r].op \in PasswordOps
    /\ account' = [account EXCEPT !.password = tx[r].new, !.version = tx[r].ver + 1]
    /\ tokens' = [t \in TokenIds |-> Revoked(t)]
    /\ links' = Consumed("reset")
    /\ Ends(r)
    /\ UNCHANGED <<mailed, jwts>>

CommitVerify(r) ==
    /\ At(r, "verify", "committing")
    /\ account' = [account EXCEPT !.verified = TRUE]
    /\ links' = [links EXCEPT ![tx[r].link].state = "used"]
    /\ Ends(r)
    /\ UNCHANGED <<tokens, mailed, jwts>>

-----------------------------------------------------------------------------
(* /forgot-password and /resend-verification, in a background task *)

\* The account is locked, and a link of the last minute is not repeated.
StartIssue(r, purpose) ==
    /\ tx[r].pc = "idle" /\ FreshLinks # {}
    /\ account.exists /\ AccountLockable(r)
    /\ ~(purpose = "verify" /\ account.verified)
    /\ tx' = [tx EXCEPT ![r] = [NoTx EXCEPT !.pc = "mailing", !.op = "issue",
                    !.purpose = purpose, !.link = OneOf(FreshLinks), !.ver = account.version]]
    /\ UNCHANGED <<account, tokens, links, mailed, jwts>>

\* Mutant of SendMail: the mail server does not answer and nothing times out.
SendMailForEver(r) == FALSE

\* Delivered, or the exception rolls everything back.
SendMail(r) ==
    /\ tx[r].pc = "mailing"
    /\ \/ mailed' = mailed \cup {tx[r].link} /\ Goes(r, "committing")
       \/ UNCHANGED mailed /\ Ends(r)
    /\ UNCHANGED <<account, tokens, links, jwts>>

CommitLink(r) ==
    LET s == tx[r] IN
    /\ At(r, "issue", "committing")
    /\ links' = [Consumed(s.purpose) EXCEPT ![s.link] =
                    [state |-> "open", purpose |-> s.purpose, version |-> s.ver]]
    /\ Ends(r)
    /\ UNCHANGED <<account, tokens, mailed, jwts>>

-----------------------------------------------------------------------------
\* A request is cancelled, or its worker or connection lost: rolled back.
Abort(r) ==
    /\ tx[r].pc # "idle"
    /\ Ends(r)
    /\ UNCHANGED <<account, tokens, links, mailed, jwts>>

\* A rotation owns its token and wants the account, a password change owns the
\* account and wants the token: the database fails one of them.
BreakDeadlock(r, q) ==
    /\ At(r, "refresh", "inserting") /\ tx[q].pc = "revoking"
    /\ Ends(r) \/ Ends(q)
    /\ UNCHANGED <<account, tokens, links, mailed, jwts>>

Continue(r) ==
    \/ LoadUser(r) \/ StoreToken(r) \/ CommitLogin(r) \/ CommitRefresh(r)
    \/ LockAccount(r) \/ RevokeAll(r) \/ CommitPassword(r) \/ CommitVerify(r)
    \/ SendMail(r) \/ CommitLink(r)

Next ==
    \/ \E p \in Passwords : Signup(p)
    \/ \E t \in TokenIds : Logout(t)
    \/ \E r \in Reqs :
         \/ \E p \in Passwords :
              \/ StartLogin(r, p) \/ StartChange(r, p)
              \/ \E l \in LinkIds : FindLink(r, l, "reset", p)
         \/ \E l \in LinkIds : FindLink(r, l, "verify", AnyPassword)
         \/ \E t \in TokenIds : LockToken(r, t)
         \/ \E purpose \in Purposes : StartIssue(r, purpose)
         \/ Continue(r)
         \/ Abort(r)
    \/ \E r, q \in Reqs : BreakDeadlock(r, q)

Spec == Init /\ [][Next]_authVars

\* The event loop runs every request, who waits for a row gets it in the end,
\* mail times out, and the database looks for deadlocks.
FairSpec ==
    /\ Spec
    /\ \A r \in Reqs : SF_authVars(Continue(r))
    /\ \A r, q \in Reqs : WF_authVars(BreakDeadlock(r, q))

-----------------------------------------------------------------------------
(* Properties *)

\* However many tabs refresh with one cookie, it is exchanged for one token.
RotatedOnce ==
    \A t, u \in TokenIds :
        (tokens[t].parent # 0 /\ tokens[t].parent = tokens[u].parent) => t = u

\* A password change ends every session that began before it, those being
\* refreshed at that moment too; only a login that was verifying the old password
\* meanwhile goes on.
OldSessionsEnd ==
    \A t \in TokenIds : (tokens[t].state = "live" /\ ~tokens[t].late)
        => tokens[t].from = account.version

\* Whatever changes of password cross each other, no access token issued before
\* one is accepted after it.
EveryChangeEndsAccess ==
    [][\A r \in Reqs : CommitPassword(r) => account'.version \notin jwts]_authVars

\* A refresh answers with an access token that is accepted at that moment, also
\* when it crosses a password change.
RefreshedIsCurrent ==
    \A r \in Reqs : At(r, "refresh", "committing") => tx[r].ver = account.version

\* An account has one open link of a purpose, and a reset link is only open while
\* the password is the one it was requested under: not after it was used, after a
\* change of password or after a newer link.
LinksDieInTime ==
    /\ \A l, m \in LinkIds :
          (links[l].state = "open" /\ links[m].state = "open"
             /\ links[l].purpose = links[m].purpose) => l = m
    /\ \A l \in LinkIds : (links[l].state = "open" /\ links[l].purpose = "reset")
          => links[l].version = account.version

\* A link has its effect once: it is open when what it was for is committed.
LinksWorkOnce ==
    \A r \in Reqs : (tx[r].pc = "committing" /\ tx[r].op \in {"reset", "verify"})
        => links[tx[r].link].state = "open"

\* Every request ends, with a deadlock broken if need be.
AuthRequestsEnd == \A r \in Reqs : tx[r].pc # "idle" ~> tx[r].pc = "idle"
=============================================================================
