---------------------------- MODULE BrowserSession ----------------------------
(***************************************************************************)
(* The session of one browser: tabs with an access token and a signed-in   *)
(* user each (lib/api.ts, lib/auth.tsx, Chat.tsx), the refresh cookie they *)
(* share, and what the server does to it (auth_router.py; AuthSessions has *)
(* its transactions, here each is one step).  Requests, their handling and *)
(* their replies are separate steps, and any of them may be lost.          *)
(***************************************************************************)
EXTENDS Naturals, FiniteSets

CONSTANTS
    Tabs,       \* tabs of the browser
    Calls,      \* api calls and streams that may be under way
    MaxLogins   \* bound: sign-ins

ASSUME BrowserAssumption ==
    /\ MaxLogins \in Nat /\ Tabs \cap Calls = {}
    /\ "none" \notin Tabs \cup Calls

VARIABLES
    tab,        \* the memory of each tab
    call,       \* each call, and each tab's mount: whoever may await a refresh
    flight,     \* flight[w]: the POST /auth/refresh that w began
    logout,     \* the POST /auth/logout of each tab
    jar,        \* the refresh cookie
    session     \* what the server keeps of each sign-in

browserVars == <<tab, call, flight, logout, jar, session>>

\* Each sign-in may be to another account, so it stands for the account too.
Logins == 1 .. MaxLogins
Nobody == 0
Users == Logins \cup {Nobody}
Waiters == Tabs \cup Calls

\* me: the account /auth/me is asked about.  mixed: history, something of the tab
\* was under way when it last signed in or out, or another tab has replaced the
\* cookie since.
Tab == [shows : Users, access : Users, me : Users, mixed : BOOLEAN]
NewTab == [shows |-> Nobody, access |-> Nobody, me |-> Nobody, mixed |-> FALSE]

\* awaits: whose refresh it awaits.
Call == [tab : Tabs \cup {"none"}, kind : {"api", "stream", "mount"},
         pc : {"idle", "sent", "waiting", "queued"}, awaits : Waiters \cup {"none"}]

\* A copy of a refresh token: the sign-in it descends from, and whether it has
\* been revoked.  Of the tokens of one sign-in at most the newest is not.
Copy == [login : Users, spent : BOOLEAN]
NoCopy == [login |-> Nobody, spent |-> TRUE]

\* copy: the cookie it was sent with, or the one it was granted.  others: history,
\* another tab was refreshing meanwhile.
Flight == [pc : {"none", "sent", "granted"}, copy : Copy, others : BOOLEAN]
NoFlight == [pc |-> "none", copy |-> NoCopy, others |-> FALSE]

\* copy: the cookie it was sent with.  met: history, a tab was refreshing
\* meanwhile.
Logout == [pending : BOOLEAN, copy : Copy, met : BOOLEAN]
NoLogout == [pending |-> FALSE, copy |-> NoCopy, met |-> FALSE]

\* A session is over when its newest token has been revoked, or has been lost on
\* the way, so that nobody can refresh it.
Session == {"none", "live", "over"}

CopiesBut(w) ==
    {jar} \cup {flight[v].copy : v \in Waiters \ {w}} \cup {logout[t].copy : t \in Tabs}

LiveLogins == {l \in Logins : session[l] = "live"}

\* Types, and a copy that is not spent is one of a session that is not over, and
\* one just granted is the only one.
BrowserTypeOK ==
    /\ tab \in [Tabs -> Tab]
    /\ call \in [Waiters -> Call]
    /\ flight \in [Waiters -> Flight]
    /\ logout \in [Tabs -> Logout]
    /\ jar \in Copy
    /\ session \in [Logins -> Session]
    /\ \A c \in CopiesBut("none") : c.spent \/ c.login \in LiveLogins
    /\ \A w \in Waiters : flight[w].pc = "granted" =>
          \A c \in CopiesBut(w) : c.spent \/ c.login # flight[w].copy.login

NoCall == [tab |-> "none", kind |-> "api", pc |-> "idle", awaits |-> "none"]
Sent(t) == [NoCall EXCEPT !.tab = t, !.pc = "sent"]
Mounting(t) == [tab |-> t, kind |-> "mount", pc |-> "waiting", awaits |-> t]

\* A browser without a cookie; no page is loaded.
Init ==
    /\ tab = [t \in Tabs |-> NewTab]
    /\ call = [w \in Waiters |-> NoCall]
    /\ flight = [w \in Waiters |-> NoFlight]
    /\ logout = [t \in Tabs |-> NoLogout]
    /\ jar = NoCopy
    /\ session = [l \in Logins |-> "none"]

Of(t) == {w \in Waiters : call[w].tab = t}
Flying == {w \in Waiters : flight[w].pc # "none"}
OneOf(ids) == CHOOSE i \in ids : TRUE
FreshLogins == {l \in Logins : session[l] = "none"}

\* Something of tab t is under way that may still set its token.
Busy(t) == Of(t) # {} \/ tab[t].me # Nobody

-----------------------------------------------------------------------------
(* attemptTokenRefresh *)

\* Mutant of SharedBy: every caller has a refresh of its own.
SharedByNobody(t) == {}

\* refreshPromise: the refresh under way in this tab.
SharedBy(t) == {w \in Of(t) : flight[w].pc # "none"}

\* The refreshes under way once w has begun one, with the cookie of this moment.
Begun(flights, w, t) ==
    LET foreign == {v \in Flying : call[v].tab # t} IN
    [v \in Waiters |->
       IF v = w THEN [NoFlight EXCEPT !.pc = "sent", !.copy = jar, !.others = foreign # {}]
       ELSE IF v \in foreign THEN [flights[v] EXCEPT !.others = flights[v].pc = "sent"]
       ELSE flights[v]]

\* A logout under way has met a refresh.
Met == [u \in Tabs |-> [logout[u] EXCEPT !.met = logout[u].pending]]

\* w awaits the refresh of its tab, or begins one.
AwaitRefresh(w, kind) ==
    LET t == call[w].tab
        own == SharedBy(t) = {}
    IN
    /\ call' = [call EXCEPT ![w].pc = "waiting", ![w].kind = kind,
                            ![w].awaits = IF own THEN w ELSE OneOf(SharedBy(t))]
    /\ IF own THEN flight' = Begun(flight, w, t) /\ logout' = Met
              ELSE UNCHANGED <<flight, logout>>

\* A call of a page behind ProtectedRoute, of axios or a stream.
Send(k, t) ==
    /\ call[k].pc = "idle" /\ tab[t].shows # Nobody
    /\ call' = [call EXCEPT ![k] = Sent(t)]
    /\ UNCHANGED <<tab, flight, logout, jar, session>>

\* Answered, well or not, other than with 401.
Answered(k) ==
    /\ call[k].pc = "sent"
    /\ call' = [call EXCEPT ![k] = NoCall]
    /\ UNCHANGED <<tab, flight, logout, jar, session>>

\* isRefreshing: an api call of the tab has met 401 and awaits the refresh.
IsRefreshing(t) == \E k \in Calls \cap Of(t) : call[k].kind = "api" /\ call[k].pc = "waiting"

\* 401: the access token is missing, expired or of an older session_version.  (A
\* stream without one awaits the refresh before it is sent.)
Unauthorized(k, kind) ==
    /\ call[k].pc = "sent"
    /\ IF kind = "api" /\ IsRefreshing(call[k].tab)
         THEN call' = [call EXCEPT ![k].pc = "queued"] /\ UNCHANGED <<flight, logout>>
         ELSE AwaitRefresh(k, kind)
    /\ UNCHANGED <<tab, jar, session>>

-----------------------------------------------------------------------------
(* POST /auth/refresh *)

\* A copy once the token that c is a copy of is revoked.
Spent(copy, c) == [copy EXCEPT !.spent = @ \/ (~c.spent /\ copy.login = c.login)]

SpentInFlight(c) == [v \in Waiters |-> [flight[v] EXCEPT !.copy = Spent(@, c)]]
SpentInLogout(c) == [u \in Tabs |-> [logout[u] EXCEPT !.copy = Spent(@, c)]]

MayRotate(c) == ~c.spent

\* rotate_refresh_token: the old token is revoked and a new one granted.
Refresh(w) ==
    LET c == flight[w].copy IN
    /\ flight[w].pc = "sent" /\ MayRotate(c)
    /\ flight' = [SpentInFlight(c) EXCEPT ![w] = [NoFlight EXCEPT !.pc = "granted", !.copy = c]]
    /\ jar' = Spent(jar, c)
    /\ logout' = SpentInLogout(c)
    /\ UNCHANGED <<tab, call, session>>

AwaitingFlight(w) == {v \in Waiters : call[v].pc = "waiting" /\ call[v].awaits = w}
LeadersOf(w) == {k \in AwaitingFlight(w) : call[k].kind = "api"}

\* Mutant of Flushed: a failed refresh leaves the queue as it is.
FlushedIfGranted(w, u) ==
    IF LeadersOf(w) = {} \/ u = Nobody THEN {}
    ELSE {k \in Of(call[w].tab) : call[k].pc = "queued"}

\* The queue is flushed by the api call that began to refresh.
Flushed(w, u) ==
    IF LeadersOf(w) = {} THEN {} ELSE {k \in Of(call[w].tab) : call[k].pc = "queued"}

\* A tab with u's token, whose mount goes on to ask for u's profile ...
WithToken(b, u, mounts) == [b EXCEPT !.access = u, !.me = IF mounts THEN u ELSE @]

\* ... and one without: signed out if an api call or its mount asked, not if a
\* stream did.  rest: something of the tab is still under way.
WithoutToken(b, fails, mounts, rest) ==
    [b EXCEPT !.access = IF fails THEN Nobody ELSE @,
              !.shows = IF fails \/ mounts THEN Nobody ELSE @,
              !.mixed = IF fails THEN rest ELSE @ \/ (mounts /\ rest)]

\* The promise resolves to u's token, or to null: everyone who awaits it goes on.
Resolve(w, u, tabs) ==
    LET t == call[w].tab
        done == AwaitingFlight(w) \cup Flushed(w, u)
        mounts == t \in AwaitingFlight(w)
        rest == Of(t) \ done # {} \/ tab[t].me # Nobody
    IN
    /\ tab' = [tabs EXCEPT ![t] =
         IF u # Nobody THEN WithToken(@, u, mounts)
         ELSE WithoutToken(@, LeadersOf(w) # {}, mounts, rest)]
    /\ call' = [v \in Waiters |-> IF v \in done THEN NoCall ELSE call[v]]
    /\ flight' = [flight EXCEPT ![w] = NoFlight]

\* What the other tabs are when tab t gets a cookie of another sign-in.
OthersMixed(t) ==
    [v \in Tabs |-> IF v = t THEN tab[t]
                    ELSE [tab[v] EXCEPT !.mixed = @ \/ tab[v].shows # Nobody \/ Busy(v)]]

\* The reply: a new cookie and an access token ...
RefreshReply(w) ==
    LET c == flight[w].copy IN
    /\ flight[w].pc = "granted"
    /\ Resolve(w, c.login,
               IF c.login = jar.login THEN tab ELSE OthersMixed(call[w].tab))
    /\ jar' = c
    /\ UNCHANGED <<logout, session>>

\* ... or 401: the cookie is missing, or spent, and stays so until it is answered.
RefreshRefused(w) ==
    /\ flight[w].pc = "sent" /\ ~MayRotate(flight[w].copy)
    /\ Resolve(w, Nobody, tab)
    /\ UNCHANGED <<logout, jar, session>>

\* The sessions once the replies to these refreshes are lost.
Lost(ws) == [l \in Logins |->
    IF \E w \in ws : flight[w].pc = "granted" /\ flight[w].copy.login = l
      THEN "over" ELSE session[l]]

\* The network, a 429 or a 5xx: null as well, whatever the server has done.  (One
\* that would be refused ends the same way.)
RefreshLost(w) ==
    /\ flight[w].pc = "granted" \/ (flight[w].pc = "sent" /\ MayRotate(flight[w].copy))
    /\ Resolve(w, Nobody, tab)
    /\ session' = Lost({w})
    /\ UNCHANGED <<logout, jar>>

\* /auth/me, asked on mount with the token just received, or its failure.
Profile(t) ==
    /\ tab[t].me # Nobody
    /\ \/ tab' = [tab EXCEPT ![t].shows = tab[t].me, ![t].me = Nobody]
       \/ tab' = [tab EXCEPT ![t].shows = Nobody, ![t].access = Nobody, ![t].me = Nobody,
                             ![t].mixed = Of(t) # {}]
    /\ UNCHANGED <<call, flight, logout, jar, session>>

-----------------------------------------------------------------------------
(* Signing in and out *)

\* Mutant of NewCookie: an older cookie of the same name shadows the new one.
CookieShadowed(l) == IF jar.login = 0 THEN [login |-> l, spent |-> FALSE] ELSE jar

NewCookie(l) == [login |-> l, spent |-> FALSE]

SignedIn(t, l) == [tab[t] EXCEPT !.shows = l, !.access = l, !.mixed = Busy(t)]

\* The cookie replaces the browser's, and with it every tab's session.  (A login
\* that fails changes nothing, and a session it may have begun is nobody's.)
Login(t) ==
    LET l == OneOf(FreshLogins) IN
    /\ FreshLogins # {}
    /\ session' = [session EXCEPT ![l] = "live"]
    /\ jar' = NewCookie(l)
    /\ tab' = [OthersMixed(t) EXCEPT ![t] = SignedIn(t, l)]
    /\ UNCHANGED <<call, flight, logout>>

\* A sample visit is of a new account and has no cookie: the browser's is deleted,
\* and its session lives on.
StartSample(t) ==
    LET l == OneOf(FreshLogins) IN
    /\ FreshLogins # {}
    /\ session' = [session EXCEPT ![l] = "over"]
    /\ jar' = NoCopy
    /\ tab' = [tab EXCEPT ![t] = SignedIn(t, l)]
    /\ UNCHANGED <<call, flight, logout>>

SendLogout(t) ==
    /\ tab[t].shows # Nobody /\ ~logout[t].pending
    /\ logout' = [logout EXCEPT ![t] = [pending |-> TRUE, copy |-> jar, met |-> Flying # {}]]
    /\ UNCHANGED <<tab, call, flight, jar, session>>

\* Mutant of Revoked: the cookie is deleted and its token left.
RevokedNot(c) == session

Revoked(c) == IF c.spent THEN session ELSE [session EXCEPT ![c.login] = "over"]

SignedOut(t) == [tab[t] EXCEPT !.shows = Nobody, !.access = Nobody, !.mixed = Busy(t)]

\* The token it was sent with is revoked.
RevokeBy(t) ==
    LET c == logout[t].copy IN
    /\ session' = Revoked(c)
    /\ flight' = SpentInFlight(c)
    /\ logout' = [SpentInLogout(c) EXCEPT ![t] = NoLogout]

FinishLogout(t) ==
    /\ logout[t].pending
    /\ tab' = [tab EXCEPT ![t] = SignedOut(t)]
    /\ UNCHANGED call

\* Handled and answered: the cookie is deleted too.
LogoutReply(t) ==
    /\ FinishLogout(t)
    /\ RevokeBy(t)
    /\ jar' = NoCopy

\* The request or its reply is lost: the tab signs out all the same.
LogoutLost(t) ==
    /\ FinishLogout(t)
    /\ \/ RevokeBy(t) /\ jar' = Spent(jar, logout[t].copy)
       \/ logout' = [logout EXCEPT ![t] = NoLogout] /\ UNCHANGED <<flight, jar, session>>

\* A page is opened, or loaded anew: its memory is gone, what it awaited with
\* it, and AuthProvider refreshes on mount.  (A request it had sent has reached
\* the server by then, or never does.)
Load(t) ==
    LET gone == {w \in Flying : call[w].tab = t} IN
    /\ ~logout[t].pending
    /\ tab' = [tab EXCEPT ![t] = NewTab]
    /\ call' = [w \in Waiters |-> IF w = t THEN Mounting(t)
                                  ELSE IF call[w].tab = t THEN NoCall ELSE call[w]]
    /\ flight' = Begun([w \in Waiters |-> IF w \in gone THEN NoFlight ELSE flight[w]], t, t)
    /\ logout' = Met
    /\ session' = Lost(gone)
    /\ UNCHANGED jar

Next ==
    \/ \E w \in Waiters : \/ Refresh(w) \/ RefreshReply(w)
                          \/ RefreshRefused(w) \/ RefreshLost(w)
    \/ \E k \in Calls : \/ \E t \in Tabs : Send(k, t)
                        \/ Answered(k) \/ Unauthorized(k, "api") \/ Unauthorized(k, "stream")
    \/ \E t \in Tabs :
         \/ Load(t) \/ Profile(t)
         \/ Login(t) \/ StartSample(t)
         \/ SendLogout(t) \/ LogoutReply(t) \/ LogoutLost(t)

Spec == Init /\ [][Next]_browserVars

-----------------------------------------------------------------------------
(* Properties *)

\* A refresh is refused only when the session is over, its newest token revoked
\* or lost on the way, or when another tab was refreshing at the same time: the
\* calls of one tab, api or stream, never spend the cookie twice.
RefusedOnlyWhenOver ==
    [][\A w \in Flying :
         (flight[w].copy.login \in LiveLogins /\ ~flight[w].others)
            => ~RefreshRefused(w)]_browserVars

\* No api call is left in the queue without one that will flush it.
QueueHasLeader ==
    \A k \in Calls : call[k].pc = "queued" => IsRefreshing(call[k].tab)

\* A tab acts as the account it shows, unless another tab has replaced the cookie
\* since, by a sign-in or by a refresh of an older one that was answered late,
\* and its next refresh spends that; or the tab signed in while something of its
\* former session was under way.  Nor does a tab that shows nobody, and is not being
\* mounted, hold a token, with the same exceptions.
ActsAsShown ==
    \A t \in Tabs : LET b == tab[t] IN
        (b.access \notin {Nobody, b.shows} /\ (b.shows # Nobody \/ ~Busy(t)))
            => b.mixed

\* A logout that no refresh overlapped ends the session when it is answered: no
\* token of it is live that ever reached the browser.
LogoutEndsSession ==
    [][\A t \in Tabs : (logout[t].pending /\ ~logout[t].met /\ LogoutReply(t))
          => logout[t].copy.login \notin LiveLogins']_browserVars
=============================================================================
