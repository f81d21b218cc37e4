---------------------------- MODULE BrowserProofs ----------------------------
(***************************************************************************)
(* The browser.  Its session, for any number of tabs, calls and sign-ins:  *)
(* no call is forgotten, one refresh per tab at a time, tabs that act as   *)
(* the account they show, and logouts that end the session.  And its chat  *)
(* page, for any number of conversations, questions, proposals and loads:  *)
(* what it shows is of the conversation it is on and keeps its answers,    *)
(* and the card it offers is the one the server waits for.                 *)
(***************************************************************************)
EXTENDS BrowserSession, ChatPage, SequenceTheorems, TLAPS

-----------------------------------------------------------------------------
(* The inductive invariant *)

Typed ==
    /\ tab \in [Tabs -> Tab]
    /\ call \in [Waiters -> Call]
    /\ flight \in [Waiters -> Flight]
    /\ logout \in [Tabs -> Logout]
    /\ jar \in Copy
    /\ session \in [Logins -> Session]

\* Who awaits a refresh awaits one under way in its own tab; who began it awaits
\* it itself.
WaitersAwait ==
    \A w \in Waiters :
        /\ w \in Tabs => call[w] \in {NoCall, Mounting(w)}
        /\ w \in Calls => call[w].kind # "mount"
        /\ call[w].pc # "idle" => call[w].tab \in Tabs
        /\ call[w].pc = "idle" => call[w].tab = "none"
        /\ call[w].pc = "waiting" =>
              call[w].awaits \in Flying /\ call[call[w].awaits].tab = call[w].tab
        /\ w \in Flying => call[w].pc = "waiting" /\ call[w].awaits = w

OneRefreshPerTab ==
    \A v, w \in Flying : call[v].tab = call[w].tab => v = w

CallsInv == WaitersAwait /\ OneRefreshPerTab /\ QueueHasLeader

Live(l) == l \in Logins /\ session[l] = "live"

\* A copy is spent or of a live session, and of a sign-in there has been.
Good(c) == /\ c.spent \/ Live(c.login)
           /\ c.login \in Logins => session[c.login] # "none"

GoodCopies ==
    /\ Good(jar)
    /\ \A w \in Waiters : Good(flight[w].copy)
    /\ \A t \in Tabs : Good(logout[t].copy)

\* A token just granted is the newest: every other copy of its session is spent.
GrantedIsNewest ==
    \A w \in Waiters : flight[w].pc = "granted" =>
        LET l == flight[w].copy.login IN
        /\ ~flight[w].copy.spent
        /\ jar.spent \/ jar.login # l
        /\ \A v \in Waiters \ {w} : flight[v].copy.spent \/ flight[v].copy.login # l
        /\ \A t \in Tabs : logout[t].copy.spent \/ logout[t].copy.login # l

\* A spent cookie of a live session is about to be replaced.
SpentJarIsReplaced ==
    jar.spent /\ Live(jar.login) =>
        \E w \in Waiters : flight[w].pc = "granted" /\ flight[w].copy.login = jar.login

\* Refreshes under way together know of each other, and one that has lost its
\* token to another has met it.
RefreshesMeet ==
    \A w \in Flying : flight[w].pc = "sent" =>
        /\ Flying # {w} => flight[w].others
        /\ flight[w].copy.spent /\ Live(flight[w].copy.login) => flight[w].others

\* A logout that meets no refresh has the newest token, or that of a session
\* that is over.
LogoutsMeet ==
    \A t \in Tabs : logout[t].pending /\ ~logout[t].met =>
        Flying = {} /\ (logout[t].copy.spent => ~Live(logout[t].copy.login))

CopiesInv == /\ GoodCopies /\ GrantedIsNewest /\ SpentJarIsReplaced
             /\ RefreshesMeet /\ LogoutsMeet

\* A tab that is not mixed, and the cookie and the refreshes that may still reach
\* it, are of the account it shows; one that shows nobody is being mounted, asks
\* for its profile with the token just received, or holds nothing.
Steady(t) ==
    ~tab[t].mixed =>
        /\ tab[t].shows # Nobody =>
              /\ tab[t].access \in {Nobody, tab[t].shows} /\ tab[t].me = Nobody
              /\ t \notin Of(t) /\ jar.login \in {Nobody, tab[t].shows}
              /\ \A w \in Flying :
                    call[w].tab = t => flight[w].copy.login \in {Nobody, tab[t].shows}
        /\ tab[t].shows = Nobody =>
              /\ Of(t) \subseteq {t}
              /\ tab[t].me # Nobody => /\ Of(t) = {} /\ tab[t].access = tab[t].me
                                       /\ jar.login \in {Nobody, tab[t].me}
              /\ tab[t].me = Nobody => tab[t].access = Nobody

TabsInv == \A t \in Tabs : Steady(t)

IInv == Typed /\ CallsInv /\ CopiesInv /\ TabsInv

-----------------------------------------------------------------------------
(* Types *)

LEMMA Constants ==
    /\ \A t \in Tabs : t \in Waiters /\ t \notin Calls /\ t # "none"
    /\ \A k \in Calls : k \in Waiters /\ k \notin Tabs /\ k # "none"
    /\ Nobody \in Users /\ Nobody \notin Logins /\ Logins \subseteq Users
BY BrowserAssumption DEF Waiters, Users, Logins, Nobody

LEMMA Defaults ==
    /\ NewTab \in Tab /\ NoCall \in Call /\ NoFlight \in Flight
    /\ NoLogout \in Logout /\ NoCopy \in Copy
    /\ \A t \in Tabs : Mounting(t) \in Call /\ Sent(t) \in Call
BY Constants DEF NewTab, Tab, NoCall, Call, NoFlight, Flight, NoLogout, Logout, NoCopy, Copy,
   Mounting, Sent

LEMMA SpentType ==
    ASSUME NEW b \in Copy, NEW c \in Copy
    PROVE  /\ Spent(b, c) \in Copy /\ Spent(b, c).login = b.login
           /\ Spent(b, c).spent <=> (b.spent \/ (~c.spent /\ b.login = c.login))
<1> DEFINE x == b.spent \/ (~c.spent /\ b.login = c.login)
<1>1. x \in BOOLEAN
  OBVIOUS
<1>2. Spent(b, c) = [b EXCEPT !.spent = x]
  BY DEF Spent
<1> HIDE DEF x
<1>3. [b EXCEPT !.spent = x] = [login |-> b.login, spent |-> x] /\ b.login \in Users
  BY DEF Copy
<1>4. Spent(b, c) \in Copy /\ Spent(b, c).login = b.login /\ Spent(b, c).spent = x
  BY <1>1, <1>2, <1>3 DEF Copy
<1> QED
  BY <1>4 DEF x

LEMMA SpentEverywhere ==
    ASSUME Typed, NEW c \in Copy
    PROVE  /\ SpentInFlight(c) \in [Waiters -> Flight]
           /\ SpentInLogout(c) \in [Tabs -> Logout]
           /\ \A w \in Waiters : /\ SpentInFlight(c)[w].pc = flight[w].pc
                                 /\ SpentInFlight(c)[w].others = flight[w].others
                                 /\ SpentInFlight(c)[w].copy = Spent(flight[w].copy, c)
           /\ \A t \in Tabs : /\ SpentInLogout(c)[t].pending = logout[t].pending
                              /\ SpentInLogout(c)[t].met = logout[t].met
                              /\ SpentInLogout(c)[t].copy = Spent(logout[t].copy, c)
<1>1. ASSUME NEW w \in Waiters
      PROVE  /\ Spent(flight[w].copy, c) \in Copy /\ flight[w] \in Flight
             /\ SpentInFlight(c)[w] = [flight[w] EXCEPT !.copy = Spent(flight[w].copy, c)]
  <2>1. flight[w] \in Flight /\ flight[w].copy \in Copy
    BY DEF Typed, Flight
  <2> QED
    BY <2>1, SpentType DEF SpentInFlight
<1>2. ASSUME NEW t \in Tabs
      PROVE  /\ Spent(logout[t].copy, c) \in Copy /\ logout[t] \in Logout
             /\ SpentInLogout(c)[t] = [logout[t] EXCEPT !.copy = Spent(logout[t].copy, c)]
  <2>1. logout[t] \in Logout /\ logout[t].copy \in Copy
    BY DEF Typed, Logout
  <2> QED
    BY <2>1, SpentType DEF SpentInLogout
<1>3. SpentInFlight(c) = [w \in Waiters |-> SpentInFlight(c)[w]]
      /\ SpentInLogout(c) = [t \in Tabs |-> SpentInLogout(c)[t]]
  BY DEF SpentInFlight, SpentInLogout
<1>4. SpentInFlight(c) \in [Waiters -> Flight]
  BY <1>1, <1>3 DEF Flight
<1>5. SpentInLogout(c) \in [Tabs -> Logout]
  BY <1>2, <1>3 DEF Logout
<1> QED
  BY <1>1, <1>2, <1>4, <1>5 DEF Flight, Logout

LEMMA BegunType ==
    ASSUME Typed, NEW w \in Waiters, NEW t \in Tabs, NEW flights \in [Waiters -> Flight]
    PROVE  /\ Begun(flights, w, t) \in [Waiters -> Flight]
           /\ Begun(flights, w, t)[w].pc = "sent" /\ Begun(flights, w, t)[w].copy = jar
           /\ \A v \in Waiters \ {w} : /\ Begun(flights, w, t)[v].pc = flights[v].pc
                                       /\ Begun(flights, w, t)[v].copy = flights[v].copy
BY DEF Typed, Begun, NoFlight, Flight

LEMMA MetType ==
    ASSUME Typed
    PROVE  /\ Met \in [Tabs -> Logout]
           /\ \A t \in Tabs : /\ Met[t].pending = logout[t].pending
                              /\ Met[t].copy = logout[t].copy
                              /\ Met[t].met = logout[t].pending
BY DEF Typed, Met, Logout

LEMMA LostType ==
    ASSUME Typed, NEW ws
    PROVE  Lost(ws) \in [Logins -> Session]
BY DEF Typed, Lost, Session

LEMMA RevokedType ==
    ASSUME Typed, NEW c \in Copy
    PROVE  Revoked(c) \in [Logins -> Session]
BY DEF Typed, Revoked, Session

LEMMA OthersMixedType ==
    ASSUME Typed, NEW t \in Tabs
    PROVE  /\ OthersMixed(t) \in [Tabs -> Tab] /\ OthersMixed(t)[t] = tab[t]
           /\ \A v \in Tabs : /\ OthersMixed(t)[v].shows = tab[v].shows
                              /\ OthersMixed(t)[v].access = tab[v].access
                              /\ OthersMixed(t)[v].me = tab[v].me
           /\ \A v \in Tabs \ {t} : OthersMixed(t)[v].mixed <=>
                   (tab[v].mixed \/ tab[v].shows # Nobody \/ Busy(v))
BY DEF Typed, OthersMixed, Tab, Busy

LEMMA TabWithType ==
    ASSUME NEW b \in Tab, NEW u \in Users,
           NEW fails \in BOOLEAN, NEW mounts \in BOOLEAN, NEW rest \in BOOLEAN
    PROVE  /\ WithToken(b, u, mounts) \in Tab
           /\ WithToken(b, u, mounts).access = u
           /\ WithToken(b, u, mounts).me = (IF mounts THEN u ELSE b.me)
           /\ WithToken(b, u, mounts).shows = b.shows
           /\ WithToken(b, u, mounts).mixed = b.mixed
           /\ WithoutToken(b, fails, mounts, rest) \in Tab
           /\ WithoutToken(b, fails, mounts, rest).me = b.me
           /\ WithoutToken(b, fails, mounts, rest).access = (IF fails THEN Nobody ELSE b.access)
           /\ WithoutToken(b, fails, mounts, rest).shows
                 = (IF fails \/ mounts THEN Nobody ELSE b.shows)
           /\ WithoutToken(b, fails, mounts, rest).mixed
                 <=> (IF fails THEN rest ELSE b.mixed \/ (mounts /\ rest))
<1>1. (IF fails THEN rest ELSE b.mixed \/ (mounts /\ rest)) \in BOOLEAN /\ Nobody \in Users
  BY Constants DEF Tab
<1> QED
  BY <1>1 DEF Tab, WithToken, WithoutToken

LEMMA FlyingTab ==
    ASSUME Typed, CallsInv, NEW w \in Flying
    PROVE  w \in Waiters /\ call[w].tab \in Tabs /\ call[w].pc = "waiting" /\ call[w].awaits = w
BY DEF CallsInv, WaitersAwait, Flying

LEMMA ResolveType ==
    ASSUME Typed, CallsInv, NEW w \in Flying, NEW u \in Users, NEW tabs \in [Tabs -> Tab],
           Resolve(w, u, tabs)
    PROVE  tab' \in [Tabs -> Tab] /\ call' \in [Waiters -> Call] /\ flight' \in [Waiters -> Flight]
<1>1. w \in Waiters /\ call[w].tab \in Tabs
  BY FlyingTab
<1>2. call' \in [Waiters -> Call] /\ flight' \in [Waiters -> Flight]
  BY <1>1, Defaults DEF Typed, Resolve
<1>3. tab' \in [Tabs -> Tab]
  <2> DEFINE t == call[w].tab
             mounts == t \in AwaitingFlight(w)
             fails == LeadersOf(w) # {}
             rest == Of(t) \ (AwaitingFlight(w) \cup Flushed(w, u)) # {} \/ tab[t].me # Nobody
  <2>1. tab' = [tabs EXCEPT ![t] = IF u # Nobody THEN WithToken(tabs[t], u, mounts)
                                  ELSE WithoutToken(tabs[t], fails, mounts, rest)]
    BY DEF Resolve
  <2>2. mounts \in BOOLEAN /\ fails \in BOOLEAN /\ rest \in BOOLEAN
    OBVIOUS
  <2>3. WithToken(tabs[t], u, mounts) \in Tab /\ WithoutToken(tabs[t], fails, mounts, rest) \in Tab
    <3> HIDE DEF mounts, fails, rest
    <3> QED
      BY <1>1, <2>2, TabWithType
  <2> QED
    BY <1>1, <2>1, <2>3
<1> QED
  BY <1>2, <1>3

LEMMA OneOfFresh ==
    ASSUME FreshLogins # {}
    PROVE  /\ OneOf(FreshLogins) \in Logins /\ session[OneOf(FreshLogins)] = "none"
           /\ OneOf(FreshLogins) \in Users /\ OneOf(FreshLogins) # Nobody
BY Constants DEF OneOf, FreshLogins

LEMMA RevokeByType ==
    ASSUME Typed, NEW t \in Tabs, RevokeBy(t)
    PROVE  /\ session' \in [Logins -> Session] /\ flight' \in [Waiters -> Flight]
           /\ logout' \in [Tabs -> Logout] /\ logout'[t] = NoLogout
           /\ \A w \in Waiters : flight'[w].pc = flight[w].pc
<1>1. logout[t].copy \in Copy
  BY DEF Typed, Logout
<1> QED
  BY <1>1, SpentEverywhere, RevokedType, Defaults DEF RevokeBy, Typed

LEMMA AwaitRefreshType ==
    ASSUME Typed, CallsInv, NEW w \in Waiters, NEW kind \in {"api", "stream"},
           call[w].tab \in Tabs, AwaitRefresh(w, kind)
    PROVE  /\ call' \in [Waiters -> Call] /\ flight' \in [Waiters -> Flight]
           /\ logout' \in [Tabs -> Logout]
<1> DEFINE t == call[w].tab
           leader == IF SharedBy(t) = {} THEN w ELSE OneOf(SharedBy(t))
<1>1. leader \in Waiters
  BY DEF OneOf, SharedBy, Of
<1>2. call' = [call EXCEPT ![w].pc = "waiting", ![w].kind = kind, ![w].awaits = leader]
  BY DEF AwaitRefresh
<1>3. call' \in [Waiters -> Call]
  <2> HIDE DEF leader
  <2>1. call[w] \in Call /\ call \in [Waiters -> Call]
    BY DEF Typed
  <2>2. [[[call[w] EXCEPT !.pc = "waiting"] EXCEPT !.kind = kind] EXCEPT !.awaits = leader] \in Call
    BY <1>1, <2>1 DEF Call
  <2>3. call' = [call EXCEPT ![w] =
           [[[call[w] EXCEPT !.pc = "waiting"] EXCEPT !.kind = kind] EXCEPT !.awaits = leader]]
    BY <1>2, <2>1
  <2> QED
    BY <2>1, <2>2, <2>3
<1>4. flight' \in [Waiters -> Flight] /\ logout' \in [Tabs -> Logout]
  BY BegunType, MetType DEF AwaitRefresh, Typed
<1> QED
  BY <1>3, <1>4

LEMMA SignedTypes ==
    ASSUME Typed, NEW t \in Tabs, NEW l \in Users
    PROVE  SignedIn(t, l) \in Tab /\ SignedOut(t) \in Tab
<1>1. Busy(t) \in BOOLEAN /\ tab[t] \in Tab
  BY DEF Busy, Typed
<1> QED
  BY <1>1, Constants DEF SignedIn, SignedOut, Tab

LEMMA FlightsResolve ==
    ASSUME Typed, CallsInv, NEW w \in Waiters,
           RefreshReply(w) \/ RefreshRefused(w) \/ RefreshLost(w)
    PROVE  \E u \in Users, tabs \in [Tabs -> Tab] :
              /\ w \in Flying /\ Resolve(w, u, tabs)
              /\ \/ /\ u = Nobody /\ tabs = tab /\ jar' = jar
                 \/ /\ flight[w].pc = "granted" /\ u = flight[w].copy.login
                    /\ jar' = flight[w].copy
                    /\ tabs = IF u = jar.login THEN tab ELSE OthersMixed(call[w].tab)
<1>1. w \in Flying
  BY DEF RefreshReply, RefreshRefused, RefreshLost, Flying
<1>2. flight[w].copy.login \in Users /\ Nobody \in Users /\ tab \in [Tabs -> Tab]
  BY Constants DEF Typed, Flight, Copy
<1>3. OthersMixed(call[w].tab) \in [Tabs -> Tab]
  BY <1>1, FlyingTab, OthersMixedType
<1>4. CASE RefreshReply(w)
  <2> DEFINE tabs == IF flight[w].copy.login = jar.login THEN tab ELSE OthersMixed(call[w].tab)
  <2>1. /\ tabs \in [Tabs -> Tab] /\ Resolve(w, flight[w].copy.login, tabs)
        /\ jar' = flight[w].copy /\ flight[w].pc = "granted"
    BY <1>2, <1>3, <1>4 DEF RefreshReply
  <2> QED
    BY <1>1, <1>2, <2>1
<1>5. CASE RefreshRefused(w) \/ RefreshLost(w)
  BY <1>1, <1>2, <1>5 DEF RefreshRefused, RefreshLost
<1> QED
  BY <1>4, <1>5

LEMMA StepTyped == Typed /\ CallsInv /\ [Next]_browserVars => Typed'
<1> SUFFICES ASSUME Typed, CallsInv, [Next]_browserVars PROVE Typed'
  OBVIOUS
<1>1. ASSUME NEW w \in Waiters, Refresh(w) PROVE Typed'
  <2>1. flight[w].copy \in Copy
    BY DEF Typed, Flight
  <2>2. [NoFlight EXCEPT !.pc = "granted", !.copy = flight[w].copy] \in Flight
    BY <2>1 DEF NoFlight, Flight
  <2>3. flight' \in [Waiters -> Flight] /\ logout' \in [Tabs -> Logout] /\ jar' \in Copy
    BY <1>1, <2>1, <2>2, SpentEverywhere, SpentType DEF Refresh, Typed
  <2> QED
    BY <1>1, <2>3 DEF Refresh, Typed
<1>2. ASSUME NEW w \in Waiters, RefreshReply(w) \/ RefreshRefused(w) \/ RefreshLost(w)
      PROVE  Typed'
  <2>1. PICK u \in Users, tabs \in [Tabs -> Tab] : w \in Flying /\ Resolve(w, u, tabs)
    BY <1>2, FlightsResolve
  <2>2. tab' \in [Tabs -> Tab] /\ call' \in [Waiters -> Call] /\ flight' \in [Waiters -> Flight]
    BY <2>1, ResolveType
  <2>3. logout' = logout /\ jar' \in Copy /\ session' \in [Logins -> Session]
    BY <1>2, LostType DEF RefreshReply, RefreshRefused, RefreshLost, Typed, Flight
  <2> QED
    BY <2>2, <2>3 DEF Typed
<1>3. ASSUME NEW k \in Calls, NEW t \in Tabs, Send(k, t) PROVE Typed'
  BY <1>3, Defaults, Constants DEF Send, Typed
<1>4. ASSUME NEW k \in Calls, Answered(k) PROVE Typed'
  BY <1>4, Defaults, Constants DEF Answered, Typed
<1>5. ASSUME NEW k \in Calls, NEW kind \in {"api", "stream"}, Unauthorized(k, kind) PROVE Typed'
  <2>1. call[k].tab \in Tabs /\ k \in Waiters
    BY <1>5, Constants DEF Unauthorized, CallsInv, WaitersAwait
  <2>2. CASE UNCHANGED <<flight, logout>> /\ call' = [call EXCEPT ![k].pc = "queued"]
    <3>1. call' \in [Waiters -> Call]
      BY <2>2 DEF Typed, Call
    <3> QED
      BY <1>5, <2>2, <3>1 DEF Unauthorized, Typed
  <2>3. CASE AwaitRefresh(k, kind)
    BY <1>5, <2>1, <2>3, AwaitRefreshType DEF Unauthorized, Typed
  <2> QED
    BY <1>5, <2>2, <2>3 DEF Unauthorized
<1>6. ASSUME NEW t \in Tabs, Load(t) PROVE Typed'
  <2> DEFINE gone == {w \in Flying : call[w].tab = t}
             rest == [w \in Waiters |-> IF w \in gone THEN NoFlight ELSE flight[w]]
  <2>1. rest \in [Waiters -> Flight] /\ t \in Waiters
    BY Defaults, Constants DEF Typed
  <2>2. flight' \in [Waiters -> Flight]
    BY <1>6, <2>1, BegunType DEF Load
  <2>3. call' \in [Waiters -> Call] /\ tab' \in [Tabs -> Tab]
    BY <1>6, Defaults DEF Load, Typed
  <2>4. logout' \in [Tabs -> Logout] /\ session' \in [Logins -> Session]
    BY <1>6, MetType, LostType DEF Load
  <2> QED
    BY <1>6, <2>2, <2>3, <2>4 DEF Load, Typed
<1>7. ASSUME NEW t \in Tabs, Profile(t) PROVE Typed'
  <2>1. tab[t] \in Tab /\ (Of(t) # {}) \in BOOLEAN
    BY DEF Typed
  <2>2. tab' \in [Tabs -> Tab]
    BY <1>7, <2>1, Constants DEF Profile, Tab, Typed
  <2> QED
    BY <1>7, <2>2 DEF Profile, Typed
<1>8. ASSUME NEW t \in Tabs, Login(t) PROVE Typed'
  <2> DEFINE l == OneOf(FreshLogins)
  <2>1. l \in Users /\ l \in Logins
    BY <1>8, OneOfFresh DEF Login
  <2>2. tab' \in [Tabs -> Tab]
    BY <1>8, <2>1, OthersMixedType, SignedTypes DEF Login
  <2>3. jar' \in Copy /\ session' \in [Logins -> Session]
    BY <1>8, <2>1 DEF Login, NewCookie, Copy, Session, Typed
  <2> QED
    BY <1>8, <2>2, <2>3 DEF Login, Typed
<1>9. ASSUME NEW t \in Tabs, StartSample(t) PROVE Typed'
  <2> DEFINE l == OneOf(FreshLogins)
  <2>1. l \in Users /\ l \in Logins
    BY <1>9, OneOfFresh DEF StartSample
  <2>2. tab' \in [Tabs -> Tab]
    BY <1>9, <2>1, SignedTypes DEF StartSample, Typed
  <2>3. jar' \in Copy /\ session' \in [Logins -> Session]
    BY <1>9, <2>1, Defaults DEF StartSample, Session, Typed
  <2> QED
    BY <1>9, <2>2, <2>3 DEF StartSample, Typed
<1>10. ASSUME NEW t \in Tabs, SendLogout(t) PROVE Typed'
  <2>1. [pending |-> TRUE, copy |-> jar, met |-> Flying # {}] \in Logout
    BY DEF Logout, Typed
  <2> QED
    BY <1>10, <2>1 DEF SendLogout, Typed
<1>11. ASSUME NEW t \in Tabs, LogoutReply(t) \/ LogoutLost(t) PROVE Typed'
  <2>1. tab' \in [Tabs -> Tab] /\ call' = call
    BY <1>11, Constants, SignedTypes DEF LogoutReply, LogoutLost, FinishLogout, Typed
  <2>2. jar' \in Copy
    BY <1>11, Defaults, SpentType DEF LogoutReply, LogoutLost, Typed, Logout
  <2>3. CASE RevokeBy(t)
    BY <2>1, <2>2, <2>3, RevokeByType DEF Typed
  <2>4. CASE ~RevokeBy(t)
    BY <1>11, <2>1, <2>2, <2>4, Defaults DEF LogoutReply, LogoutLost, Typed
  <2> QED
    BY <2>3, <2>4
<1>12. CASE UNCHANGED browserVars
  BY <1>12 DEF browserVars, Typed
<1> QED
  BY <1>1, <1>2, <1>3, <1>4, <1>5, <1>6, <1>7, <1>8, <1>9, <1>10, <1>11, <1>12 DEF Next

-----------------------------------------------------------------------------
(* Calls and the refreshes they await *)

LEMMA CallsKept ==
    ASSUME CallsInv, call' = call, \A w \in Waiters : (flight'[w].pc = "none") = (flight[w].pc = "none")
    PROVE  CallsInv'
<1>1. Flying' = Flying
  BY DEF Flying
<1> QED
  BY <1>1 DEF CallsInv, WaitersAwait, OneRefreshPerTab, QueueHasLeader, IsRefreshing, Of

\* A call is sent or answered: nobody awaits it.
LEMMA CallsChange ==
    ASSUME Typed, CallsInv, NEW k \in Calls, k \notin Flying,
           call[k].pc \in {"idle", "sent"}, flight' = flight,
           \/ call' = [call EXCEPT ![k] = NoCall]
           \/ \E t \in Tabs : call' = [call EXCEPT ![k] = Sent(t)]
    PROVE  CallsInv'
<1>1. /\ k \in Waiters /\ k \notin Tabs /\ Flying' = Flying
      /\ \A w \in Waiters \ {k} : call'[w] = call[w]
      /\ call'[k].pc \in {"idle", "sent"} /\ call'[k].kind = "api"
      /\ call'[k].pc # "idle" => call'[k].tab \in Tabs
      /\ call'[k].pc = "idle" => call'[k].tab = "none"
  <2>1. k \in Waiters /\ k \notin Tabs /\ Flying' = Flying
    BY Constants DEF Flying
  <2>2. CASE call' = [call EXCEPT ![k] = NoCall]
    BY <2>1, <2>2 DEF Typed, NoCall
  <2>3. ASSUME NEW t \in Tabs, call' = [call EXCEPT ![k] = Sent(t)]
        PROVE  /\ \A w \in Waiters \ {k} : call'[w] = call[w]
               /\ call'[k].pc = "sent" /\ call'[k].kind = "api" /\ call'[k].tab = t
    BY <2>1, <2>3 DEF Typed, Sent, NoCall
  <2> QED
    BY <2>1, <2>2, <2>3 DEF NoCall
<1>2. WaitersAwait'
  BY <1>1 DEF CallsInv, WaitersAwait, Mounting, NoCall, Flying
<1>3. OneRefreshPerTab'
  BY <1>1 DEF CallsInv, OneRefreshPerTab, Flying
<1>4. QueueHasLeader'
  <2> SUFFICES ASSUME NEW j \in Calls, call'[j].pc = "queued"
               PROVE  IsRefreshing(call[j].tab)' /\ call'[j].tab = call[j].tab
    BY DEF QueueHasLeader, IsRefreshing, Of
  <2>1. j # k /\ IsRefreshing(call[j].tab) /\ call'[j] = call[j]
    BY <1>1, Constants DEF CallsInv, QueueHasLeader
  <2>2. PICK l \in Calls \cap Of(call[j].tab) : call[l].kind = "api" /\ call[l].pc = "waiting"
    BY <2>1 DEF IsRefreshing
  <2>3. l # k /\ call'[l] = call[l] /\ l \in Of(call[j].tab)'
    BY <1>1, <2>1, <2>2, Constants DEF Of
  <2> QED
    BY <2>1, <2>2, <2>3 DEF IsRefreshing
<1> QED
  BY <1>2, <1>3, <1>4 DEF CallsInv

\* A call that was not waiting goes on, in its tab: leaders still lead.
LEMMA CallsStillLed ==
    ASSUME Typed, CallsInv, NEW k \in Calls, call[k].pc = "sent",
           \A w \in Waiters \ {k} : call'[w] = call[w],
           call'[k].tab = call[k].tab, call'[k].pc = "waiting" \/ IsRefreshing(call[k].tab)
    PROVE  QueueHasLeader'
<1> SUFFICES ASSUME NEW j \in Calls, call'[j].pc = "queued"
             PROVE  IsRefreshing(call[j].tab)' /\ call'[j].tab = call[j].tab
  BY DEF QueueHasLeader, IsRefreshing, Of
<1>1. IsRefreshing(call[j].tab) /\ call'[j].tab = call[j].tab
  BY Constants DEF CallsInv, QueueHasLeader
<1>2. PICK l \in Calls \cap Of(call[j].tab) : call[l].kind = "api" /\ call[l].pc = "waiting"
  BY <1>1 DEF IsRefreshing
<1>3. l # k /\ call'[l] = call[l] /\ l \in Of(call[j].tab)'
  BY <1>1, <1>2, Constants DEF Of
<1> QED
  BY <1>1, <1>2, <1>3 DEF IsRefreshing

LEMMA CallsQueue ==
    ASSUME Typed, CallsInv, NEW k \in Calls, call[k].pc = "sent", IsRefreshing(call[k].tab),
           call' = [call EXCEPT ![k].pc = "queued"], flight' = flight
    PROVE  CallsInv'
<1>1. /\ k \in Waiters /\ k \notin Tabs /\ Flying' = Flying
      /\ \A w \in Waiters \ {k} : call'[w] = call[w]
      /\ call'[k].pc = "queued" /\ call'[k].kind = call[k].kind /\ call'[k].tab = call[k].tab
  BY Constants DEF Flying, Typed, Call
<1>2. WaitersAwait'
  BY <1>1 DEF CallsInv, WaitersAwait, Mounting, NoCall, Flying
<1>3. OneRefreshPerTab'
  BY <1>1 DEF CallsInv, OneRefreshPerTab, Flying
<1>4. QueueHasLeader'
  BY <1>1, CallsStillLed
<1> QED
  BY <1>2, <1>3, <1>4 DEF CallsInv

LEMMA CallsAwait ==
    ASSUME Typed, CallsInv, NEW k \in Calls, NEW kind \in {"api", "stream"},
           call[k].pc = "sent", AwaitRefresh(k, kind)
    PROVE  CallsInv'
<1> DEFINE t == call[k].tab
           leader == IF SharedBy(t) = {} THEN k ELSE OneOf(SharedBy(t))
<1>1. k \in Waiters /\ k \notin Tabs /\ t \in Tabs /\ k \notin Flying
  BY Constants DEF CallsInv, WaitersAwait
<1>2. /\ \A w \in Waiters \ {k} : call'[w] = call[w]
      /\ call'[k].pc = "waiting" /\ call'[k].kind = kind /\ call'[k].tab = t
      /\ call'[k].awaits = leader
  BY <1>1 DEF AwaitRefresh, Typed, Call
<1>3. CASE SharedBy(t) = {}
  <2>1. Flying' = Flying \cup {k}
    BY <1>1, <1>3, BegunType DEF AwaitRefresh, Flying, Typed
  <2>2. leader = k /\ \A w \in Flying : call[w].tab # t
    BY <1>3 DEF SharedBy, Of, Flying
  <2>3. WaitersAwait'
    BY <1>1, <1>2, <2>1, <2>2 DEF CallsInv, WaitersAwait, Mounting, NoCall, Flying
  <2>4. OneRefreshPerTab'
    BY <1>1, <1>2, <2>1, <2>2 DEF CallsInv, OneRefreshPerTab, Flying
  <2> QED
    BY <2>3, <2>4, <1>1, <1>2, CallsStillLed DEF CallsInv
<1>4. CASE SharedBy(t) # {}
  <2>1. Flying' = Flying
    BY <1>4 DEF AwaitRefresh, Flying
  <2>2. leader \in Flying /\ call[leader].tab = t /\ leader # k
    BY <1>1, <1>4 DEF OneOf, SharedBy, Of, Flying
  <2>3. WaitersAwait'
    BY <1>1, <1>2, <2>1, <2>2 DEF CallsInv, WaitersAwait, Mounting, NoCall, Flying
  <2>4. OneRefreshPerTab'
    BY <1>1, <1>2, <2>1 DEF CallsInv, OneRefreshPerTab, Flying
  <2> QED
    BY <2>3, <2>4, <1>1, <1>2, CallsStillLed DEF CallsInv
<1> QED
  BY <1>3, <1>4

\* Who goes on when the refresh of w resolves: every call of its tab that waits
\* or is queued.
Done(w, u) == AwaitingFlight(w) \cup Flushed(w, u)

LEMMA ResolveLetsGo ==
    ASSUME Typed, CallsInv, NEW w \in Flying, NEW u, NEW v \in Waiters
    PROVE  v \in Done(w, u) <=>
              call[v].tab = call[w].tab /\ call[v].pc \in {"waiting", "queued"}
<1> DEFINE t == call[w].tab
<1>1. w \in Waiters /\ t \in Tabs /\ call[w].awaits = w
  BY FlyingTab
<1>2. ASSUME NEW x \in Waiters
      PROVE  x \in AwaitingFlight(w) <=> call[x].tab = t /\ call[x].pc = "waiting"
  <2>1. ASSUME call[x].pc = "waiting"
        PROVE  /\ call[x].awaits \in Flying /\ call[call[x].awaits].tab = call[x].tab
    BY <2>1 DEF CallsInv, WaitersAwait
  <2>2. ASSUME call[x].pc = "waiting", call[x].tab = t PROVE call[x].awaits = w
    BY <2>1, <2>2 DEF CallsInv, OneRefreshPerTab
  <2> QED
    BY <2>1, <2>2 DEF AwaitingFlight
<1>3. ASSUME call[v].pc = "queued", call[v].tab = t PROVE LeadersOf(w) # {}
  <2>1. v \in Calls
    BY <1>3 DEF CallsInv, WaitersAwait, Waiters, NoCall, Mounting
  <2>2. PICK l \in Calls \cap Of(t) : call[l].kind = "api" /\ call[l].pc = "waiting"
    BY <1>3, <2>1 DEF CallsInv, QueueHasLeader, IsRefreshing
  <2>3. l \in Waiters /\ call[l].tab = t
    BY <2>2 DEF Of
  <2>4. l \in LeadersOf(w)
    BY <1>2, <2>2, <2>3 DEF LeadersOf
  <2> QED
    BY <2>4
<1> QED
  BY <1>1, <1>2, <1>3 DEF Done, Flushed, Of

LEMMA ResolveEffect ==
    ASSUME Typed, CallsInv, NEW w \in Flying, NEW u, NEW tabs, Resolve(w, u, tabs)
    PROVE  /\ flight' = [flight EXCEPT ![w] = NoFlight] /\ Flying' = Flying \ {w}
           /\ \A v \in Waiters : call'[v] =
                IF call[v].tab = call[w].tab /\ call[v].pc \in {"waiting", "queued"}
                  THEN NoCall ELSE call[v]
<1>1. flight' = [flight EXCEPT ![w] = NoFlight]
  BY DEF Resolve
<1>2. Flying' = Flying \ {w}
  BY <1>1 DEF Flying, NoFlight, Typed
<1>3. ASSUME NEW v \in Waiters
      PROVE  call'[v] = IF v \in Done(w, u) THEN NoCall ELSE call[v]
  BY DEF Resolve, Done
<1> QED
  BY <1>1, <1>2, <1>3, ResolveLetsGo

LEMMA CallsResolve ==
    ASSUME Typed, CallsInv, NEW w \in Flying, NEW u, NEW tabs, Resolve(w, u, tabs)
    PROVE  CallsInv'
<1> DEFINE t == call[w].tab
<1>1. /\ Flying' = Flying \ {w} /\ t \in Tabs /\ w \in Waiters
      /\ \A v \in Waiters : call'[v] =
            IF call[v].tab = t /\ call[v].pc \in {"waiting", "queued"} THEN NoCall ELSE call[v]
  BY ResolveEffect, FlyingTab
<1>2. ASSUME NEW v \in Waiters PROVE call'[v] = NoCall \/ (call'[v] = call[v] /\
             (call[v].tab = t => call[v].pc \in {"idle", "sent"}))
  <2>1. call[v].pc \in {"idle", "sent", "waiting", "queued"}
    BY DEF Typed, Call
  <2> QED
    BY <1>1, <2>1
<1>3. NoCall.pc = "idle" /\ NoCall.tab = "none" /\ NoCall.kind = "api" /\ t # "none"
  BY <1>1, Constants DEF NoCall
<1>4. \A v \in Flying' : call'[v] = call[v] /\ call[v].tab # t
  BY <1>1, FlyingTab DEF CallsInv, OneRefreshPerTab, Flying
<1>5. WaitersAwait'
  <2> SUFFICES ASSUME NEW v \in Waiters
               PROVE  /\ v \in Tabs => call'[v] \in {NoCall, Mounting(v)}
                      /\ v \in Calls => call'[v].kind # "mount"
                      /\ call'[v].pc # "idle" => call'[v].tab \in Tabs
                      /\ call'[v].pc = "idle" => call'[v].tab = "none"
                      /\ call'[v].pc = "waiting" =>
                            call'[v].awaits \in Flying' /\ call'[call'[v].awaits].tab = call'[v].tab
                      /\ v \in Flying' => call'[v].pc = "waiting" /\ call'[v].awaits = v
    BY DEF WaitersAwait, Mounting, NoCall
  <2>1. /\ v \in Tabs => call[v] \in {NoCall, Mounting(v)}
        /\ v \in Calls => call[v].kind # "mount"
        /\ call[v].pc # "idle" => call[v].tab \in Tabs
        /\ call[v].pc = "idle" => call[v].tab = "none"
        /\ call[v].pc = "waiting" =>
              call[v].awaits \in Flying /\ call[call[v].awaits].tab = call[v].tab
        /\ v \in Flying => call[v].pc = "waiting" /\ call[v].awaits = v
    BY DEF CallsInv, WaitersAwait
  <2>2. CASE call'[v] = NoCall
    BY <1>3, <1>4, <2>1, <2>2, <1>1
  <2>3. CASE call'[v] = call[v] /\ (call[v].tab = t => call[v].pc \in {"idle", "sent"})
    BY <1>1, <1>4, <2>1, <2>3
  <2> QED
    BY <1>2, <2>2, <2>3
<1>6. OneRefreshPerTab'
  BY <1>1, <1>4 DEF CallsInv, OneRefreshPerTab
<1>7. QueueHasLeader'
  <2> SUFFICES ASSUME NEW j \in Calls, call'[j].pc = "queued"
               PROVE  IsRefreshing(call[j].tab)'
    BY DEF QueueHasLeader, IsRefreshing, Of
  <2>1. j \in Waiters /\ call'[j] = call[j] /\ call[j].tab # t
    BY <1>2, <1>3, Constants
  <2>2. PICK l \in Calls \cap Of(call[j].tab) : call[l].kind = "api" /\ call[l].pc = "waiting"
    BY <2>1 DEF CallsInv, QueueHasLeader, IsRefreshing
  <2>3. l \in Waiters /\ call'[l] = call[l] /\ call[l].tab = call[j].tab
    BY <1>1, <2>1, <2>2 DEF Of
  <2> QED
    BY <2>1, <2>2, <2>3 DEF IsRefreshing, Of
<1> QED
  BY <1>5, <1>6, <1>7 DEF CallsInv

LEMMA CallsLoad ==
    ASSUME Typed, CallsInv, NEW t \in Tabs, Load(t)
    PROVE  CallsInv'
<1> DEFINE gone == {w \in Flying : call[w].tab = t}
           rest == [w \in Waiters |-> IF w \in gone THEN NoFlight ELSE flight[w]]
<1>1. /\ t \in Waiters /\ t \notin Calls /\ t # "none" /\ call'[t] = Mounting(t)
      /\ \A w \in Waiters \ {t} : call'[w] = IF call[w].tab = t THEN NoCall ELSE call[w]
  BY Constants DEF Load
<1>2. Flying' = (Flying \ gone) \cup {t}
  <2>1. rest \in [Waiters -> Flight] /\ flight' = Begun(rest, t, t)
    BY Defaults DEF Typed, Load
  <2>2. flight'[t].pc = "sent" /\ \A w \in Waiters \ {t} : flight'[w].pc = rest[w].pc
    BY <1>1, <2>1, BegunType
  <2> QED
    BY <1>1, <2>2 DEF Flying, NoFlight
<1>3. /\ NoCall.pc = "idle" /\ NoCall.tab = "none" /\ NoCall.kind = "api"
      /\ Mounting(t).tab = t /\ Mounting(t).pc = "waiting" /\ Mounting(t).awaits = t
  BY DEF NoCall, Mounting
<1>4. \A v \in Flying' \ {t} : v \in Flying /\ call[v].tab # t /\ call'[v] = call[v]
  BY <1>1, <1>2, FlyingTab
<1>5. call[t] \in {NoCall, Mounting(t)} /\ (call[t].tab # t => call[t] = NoCall)
  BY <1>1, <1>3 DEF CallsInv, WaitersAwait
<1>6. WaitersAwait'
  <2> SUFFICES ASSUME NEW v \in Waiters
               PROVE  /\ v \in Tabs => call'[v] \in {NoCall, Mounting(v)}
                      /\ v \in Calls => call'[v].kind # "mount"
                      /\ call'[v].pc # "idle" => call'[v].tab \in Tabs
                      /\ call'[v].pc = "idle" => call'[v].tab = "none"
                      /\ call'[v].pc = "waiting" =>
                            call'[v].awaits \in Flying' /\ call'[call'[v].awaits].tab = call'[v].tab
                      /\ v \in Flying' => call'[v].pc = "waiting" /\ call'[v].awaits = v
    BY DEF WaitersAwait, Mounting, NoCall
  <2>1. /\ v \in Tabs => call[v] \in {NoCall, Mounting(v)}
        /\ v \in Calls => call[v].kind # "mount"
        /\ call[v].pc # "idle" => call[v].tab \in Tabs
        /\ call[v].pc = "idle" => call[v].tab = "none"
        /\ call[v].pc = "waiting" =>
              call[v].awaits \in Flying /\ call[call[v].awaits].tab = call[v].tab
        /\ v \in Flying => call[v].pc = "waiting" /\ call[v].awaits = v
    BY DEF CallsInv, WaitersAwait
  <2>2. CASE v = t
    BY <1>1, <1>2, <1>3, <2>2
  <2>3. CASE v # t /\ call[v].tab = t
    BY <1>1, <1>3, <1>4, <2>3
  <2>4. CASE v # t /\ call[v].tab # t
    <3>1. call'[v] = call[v]
      BY <1>1, <2>4
    <3>2. ASSUME call[v].pc = "waiting"
          PROVE  /\ call[v].awaits \in Flying' \ {t} /\ call'[call[v].awaits] = call[call[v].awaits]
      <4>1. call[v].awaits \in Flying /\ call[call[v].awaits].tab # t
        BY <2>1, <2>4, <3>2
      <4>2. call[v].awaits # t
        BY <1>5, <4>1, <1>3, FlyingTab
      <4> QED
        BY <1>2, <1>4, <4>1, <4>2
    <3> QED
      BY <1>4, <2>1, <2>4, <3>1, <3>2
  <2> QED
    BY <2>2, <2>3, <2>4
<1>7. OneRefreshPerTab'
  BY <1>1, <1>3, <1>4 DEF CallsInv, OneRefreshPerTab
<1>8. QueueHasLeader'
  <2> SUFFICES ASSUME NEW j \in Calls, call'[j].pc = "queued"
               PROVE  IsRefreshing(call[j].tab)'
    BY DEF QueueHasLeader, IsRefreshing, Of
  <2>1. j \in Waiters /\ j # t /\ call'[j] = call[j] /\ call[j].tab # t
    BY <1>1, <1>3, Constants
  <2>2. PICK l \in Calls \cap Of(call[j].tab) : call[l].kind = "api" /\ call[l].pc = "waiting"
    BY <2>1 DEF CallsInv, QueueHasLeader, IsRefreshing
  <2>3. l \in Waiters /\ call'[l] = call[l] /\ call[l].tab = call[j].tab
    BY <1>1, <2>1, <2>2 DEF Of
  <2> QED
    BY <2>1, <2>2, <2>3 DEF IsRefreshing, Of
<1> QED
  BY <1>6, <1>7, <1>8 DEF CallsInv

LEMMA StepCalls == Typed /\ CallsInv /\ [Next]_browserVars => CallsInv'
<1> SUFFICES ASSUME Typed, CallsInv, [Next]_browserVars PROVE CallsInv'
  OBVIOUS
<1>1. ASSUME NEW w \in Waiters, Refresh(w) PROVE CallsInv'
  <2>1. flight[w].copy \in Copy
    BY DEF Typed, Flight
  <2>2. \A v \in Waiters : (flight'[v].pc = "none") = (flight[v].pc = "none")
    BY <1>1, <2>1, SpentEverywhere DEF Refresh, NoFlight
  <2> QED
    BY <1>1, <2>2, CallsKept DEF Refresh
<1>2. ASSUME NEW w \in Waiters, RefreshReply(w) \/ RefreshRefused(w) \/ RefreshLost(w)
      PROVE  CallsInv'
  BY <1>2, FlightsResolve, CallsResolve
<1>3. ASSUME NEW k \in Calls, Answered(k) \/ \E t \in Tabs : Send(k, t) PROVE CallsInv'
  <2>1. k \notin Flying /\ call[k].pc \in {"idle", "sent"} /\ flight' = flight
    BY <1>3 DEF Send, Answered, CallsInv, WaitersAwait, Waiters, Flying
  <2>2. call' = [call EXCEPT ![k] = NoCall] \/ \E t \in Tabs : call' = [call EXCEPT ![k] = Sent(t)]
    BY <1>3 DEF Send, Answered
  <2> QED
    BY <2>1, <2>2, CallsChange
<1>4. ASSUME NEW k \in Calls, NEW kind \in {"api", "stream"}, Unauthorized(k, kind) PROVE CallsInv'
  <2>1. CASE AwaitRefresh(k, kind)
    BY <1>4, <2>1, CallsAwait DEF Unauthorized
  <2>2. CASE ~AwaitRefresh(k, kind)
    BY <1>4, <2>2, CallsQueue DEF Unauthorized
  <2> QED
    BY <2>1, <2>2
<1>5. ASSUME NEW t \in Tabs, Load(t) PROVE CallsInv'
  BY <1>5, CallsLoad
<1>6. ASSUME NEW t \in Tabs, Profile(t) \/ Login(t) \/ StartSample(t) \/ SendLogout(t)
      PROVE  CallsInv'
  BY <1>6, CallsKept DEF Profile, Login, StartSample, SendLogout
<1>7. ASSUME NEW t \in Tabs, LogoutReply(t) \/ LogoutLost(t) PROVE CallsInv'
  <2>1. call' = call /\ (RevokeBy(t) \/ flight' = flight)
    BY <1>7 DEF LogoutReply, LogoutLost, FinishLogout
  <2> QED
    BY <2>1, RevokeByType, CallsKept
<1>8. CASE UNCHANGED browserVars
  BY <1>8, CallsKept DEF browserVars
<1> QED
  BY <1>1, <1>2, <1>3, <1>4, <1>5, <1>6, <1>7, <1>8 DEF Next

-----------------------------------------------------------------------------
(* Copies of the refresh token *)

LEMMA NoCopyIsGood == Good(NoCopy) /\ NoCopy.spent /\ NoCopy.login = Nobody
BY Constants DEF Good, NoCopy

LEMMA CopiesKept ==
    ASSUME CopiesInv, UNCHANGED <<flight, logout, jar, session>>
    PROVE  CopiesInv'
BY DEF CopiesInv, GoodCopies, Good, Live, GrantedIsNewest, SpentJarIsReplaced, RefreshesMeet,
   LogoutsMeet, Flying

\* Of a session that has been lost, or a token of it, nothing new is live.
LEMMA LostLive ==
    ASSUME Typed, NEW ws, session' = Lost(ws)
    PROVE  /\ \A l : Live(l)' <=> /\ Live(l)
                                  /\ ~\E g \in ws : flight[g].pc = "granted" /\ flight[g].copy.login = l
           /\ \A l \in Logins : session[l] # "none" => session'[l] # "none"
BY DEF Lost, Live, Typed

LEMMA LostNothing ==
    ASSUME Typed, NEW ws, \A g \in ws : flight[g].pc # "granted"
    PROVE  Lost(ws) = session
BY DEF Lost, Typed

\* A refresh begins in tab t, where those under way are given up.
LEMMA CopiesBegin ==
    ASSUME Typed, CopiesInv, NEW w \in Waiters, NEW t \in Tabs, NEW gone, NEW rest,
           gone = {v \in Flying : call[v].tab = t},
           rest = [v \in Waiters |-> IF v \in gone THEN NoFlight ELSE flight[v]],
           w \in Flying => w \in gone,
           flight' = Begun(rest, w, t), logout' = Met, session' = Lost(gone), jar' = jar
    PROVE  CopiesInv'
<1> DEFINE foreign == {v \in Flying : call[v].tab # t}
<1>0. gone \subseteq Flying /\ Flying \subseteq Waiters /\ w \notin foreign /\ foreign = Flying \ gone
  BY DEF Flying
<1>1. rest \in [Waiters -> Flight]
  BY Defaults DEF Typed
<1>2. /\ flight'[w].pc = "sent" /\ flight'[w].copy = jar /\ flight'[w].others = (foreign # {})
      /\ \A v \in foreign : /\ flight'[v].pc = flight[v].pc /\ flight'[v].copy = flight[v].copy
                            /\ (flight'[v].others <=> flight[v].pc = "sent")
      /\ \A v \in Waiters \ {w} : v \notin foreign =>
             flight'[v].pc = "none" /\ flight'[v].copy \in {NoCopy, flight[v].copy}
  <2>1. \A v \in foreign : v \in Waiters /\ rest[v] = flight[v] /\ flight[v] \in Flight
    BY <1>0 DEF Typed
  <2>2. \A v \in Waiters : v \notin foreign => rest[v].pc = "none" /\ rest[v].copy \in {NoCopy, flight[v].copy}
    BY <1>0 DEF NoFlight, Flying
  <2>3. /\ flight'[w] = [NoFlight EXCEPT !.pc = "sent", !.copy = jar, !.others = foreign # {}]
        /\ \A v \in foreign : flight'[v] = [flight[v] EXCEPT !.others = flight[v].pc = "sent"]
        /\ \A v \in Waiters \ {w} : v \notin foreign => flight'[v] = rest[v]
    BY <1>0, <2>1 DEF Begun
  <2>4. flight'[w].pc = "sent" /\ flight'[w].copy = jar /\ flight'[w].others = (foreign # {})
    BY <2>3 DEF NoFlight
  <2>5. ASSUME NEW v \in foreign
        PROVE  /\ flight'[v].pc = flight[v].pc /\ flight'[v].copy = flight[v].copy
               /\ (flight'[v].others <=> flight[v].pc = "sent")
    <3> DEFINE sent == flight[v].pc = "sent"
    <3>1. flight[v] \in Flight /\ sent \in BOOLEAN /\ flight'[v] = [flight[v] EXCEPT !.others = sent]
      BY <2>1, <2>3
    <3> HIDE DEF sent
    <3>2. flight'[v].pc = flight[v].pc /\ flight'[v].copy = flight[v].copy /\ flight'[v].others = sent
      BY <3>1 DEF Flight
    <3> QED
      BY <3>2 DEF sent
  <2> QED
    BY <2>2, <2>3, <2>4, <2>5
<1>3. \A u \in Tabs : /\ logout'[u].pending = logout[u].pending
                      /\ logout'[u].copy = logout[u].copy /\ logout'[u].met = logout[u].pending
  BY MetType
<1>4. Flying' = foreign \cup {w}
  BY <1>0, <1>2 DEF Flying
<1>5. /\ \A l : Live(l)' <=> /\ Live(l)
                             /\ ~\E g \in gone : flight[g].pc = "granted" /\ flight[g].copy.login = l
      /\ \A l \in Logins : session[l] # "none" => session'[l] # "none"
  BY LostLive
<1>6. GoodCopies'
  <2>1. Good(jar)'
    BY <1>0, <1>5 DEF CopiesInv, GoodCopies, Good, GrantedIsNewest
  <2>2. ASSUME NEW v \in foreign PROVE Good(flight[v].copy)'
    <3>1. Good(flight[v].copy) /\ v \in Waiters
      BY <1>0 DEF CopiesInv, GoodCopies
    <3>2. ASSUME NEW g \in gone, flight[g].pc = "granted", ~flight[v].copy.spent
          PROVE  flight[g].copy.login # flight[v].copy.login
      BY <1>0, <3>1, <3>2 DEF CopiesInv, GrantedIsNewest
    <3> QED
      BY SMTT(30), <1>2, <1>5, <3>1, <3>2 DEF Good
  <2>3. ASSUME NEW v \in Waiters \ {w}, v \notin foreign PROVE Good(flight[v].copy)'
    <3>1. Good(flight[v].copy)
      BY DEF CopiesInv, GoodCopies
    <3>2. CASE v \in gone
      <4>1. flight'[v].copy = NoCopy
        <5>1. rest[v] = NoFlight /\ flight' = Begun(rest, w, t)
          BY <3>2
        <5>2. flight'[v] = NoFlight
          BY <2>3, <5>1 DEF Begun
        <5> QED
          BY <5>2 DEF NoFlight
      <4> QED
        BY <4>1, NoCopyIsGood, Constants DEF Good
    <3>3. CASE v \notin gone
      <4>1. ASSUME NEW g \in gone, flight[g].pc = "granted", ~flight[v].copy.spent
            PROVE  flight[g].copy.login # flight[v].copy.login
        BY <1>0, <3>3, <4>1 DEF CopiesInv, GrantedIsNewest
      <4> QED
        BY SMTT(30), <1>2, <1>5, <2>3, <3>1, <4>1, NoCopyIsGood, Constants DEF Good
    <3> QED
      BY <3>2, <3>3
  <2>4. ASSUME NEW u \in Tabs PROVE Good(logout[u].copy)'
    BY <1>0, <1>3, <1>5 DEF CopiesInv, GoodCopies, Good, GrantedIsNewest
  <2>5. flight'[w].copy = jar /\ jar' = jar
    BY <1>2
  <2>6. Good(flight[w].copy)'
    BY <2>1, <2>5 DEF Good
  <2> QED
    BY <2>1, <2>2, <2>3, <2>4, <2>6 DEF GoodCopies
<1>7. GrantedIsNewest'
  <2> SUFFICES ASSUME NEW x \in Waiters, flight'[x].pc = "granted"
               PROVE  LET l == flight'[x].copy.login IN
                      /\ ~flight'[x].copy.spent
                      /\ jar'.spent \/ jar'.login # l
                      /\ \A v \in Waiters \ {x} : flight'[v].copy.spent \/ flight'[v].copy.login # l
                      /\ \A u \in Tabs : logout'[u].copy.spent \/ logout'[u].copy.login # l
    BY DEF GrantedIsNewest
  <2>1. x \in foreign /\ flight'[x].copy = flight[x].copy /\ flight[x].pc = "granted"
    BY <1>2
  <2>2. LET l == flight[x].copy.login IN
        /\ ~flight[x].copy.spent
        /\ jar.spent \/ jar.login # l
        /\ \A v \in Waiters \ {x} : flight[v].copy.spent \/ flight[v].copy.login # l
        /\ \A u \in Tabs : logout[u].copy.spent \/ logout[u].copy.login # l
    BY <2>1 DEF CopiesInv, GrantedIsNewest
  <2>3. ASSUME NEW v \in Waiters \ {x}
        PROVE  flight'[v].copy \in {jar, flight[v].copy, NoCopy}
    BY <1>2
  <2> QED
    BY <1>3, <2>1, <2>2, <2>3, NoCopyIsGood
<1>8. jar.spent /\ Live(jar.login)' =>
        \E g \in foreign : flight[g].pc = "granted" /\ flight[g].copy.login = jar.login
  BY <1>0, <1>5 DEF CopiesInv, SpentJarIsReplaced, Flying
<1>9. SpentJarIsReplaced'
  <2> SUFFICES ASSUME jar.spent, Live(jar.login)'
               PROVE  \E g \in Waiters : flight'[g].pc = "granted" /\ flight'[g].copy.login = jar.login
    BY DEF SpentJarIsReplaced, Live
  <2> QED
    BY <1>0, <1>2, <1>8
<1>10. RefreshesMeet'
  <2> SUFFICES ASSUME NEW v \in Flying', flight'[v].pc = "sent"
               PROVE  /\ Flying' # {v} => flight'[v].others
                      /\ flight'[v].copy.spent /\ Live(flight[v].copy.login)' => flight'[v].others
    BY DEF RefreshesMeet, Live
  <2>1. CASE v = w
    <3>1. jar.spent /\ Live(jar.login)' => foreign # {}
      BY <1>8
    <3> QED
      BY <1>2, <1>4, <2>1, <3>1 DEF Live
  <2>2. CASE v \in foreign
    BY <1>2, <2>2
  <2> QED
    BY <1>4, <2>1, <2>2
<1>11. LogoutsMeet'
  BY <1>3 DEF LogoutsMeet
<1> QED
  BY <1>6, <1>7, <1>9, <1>10, <1>11 DEF CopiesInv

LEMMA SpentCopies ==
    ASSUME Typed, NEW c \in Copy
    PROVE  /\ \A v \in Waiters :
                /\ SpentInFlight(c)[v].copy.login = flight[v].copy.login
                /\ SpentInFlight(c)[v].copy.spent <=>
                      (flight[v].copy.spent \/ (~c.spent /\ flight[v].copy.login = c.login))
           /\ \A u \in Tabs :
                /\ SpentInLogout(c)[u].copy.login = logout[u].copy.login
                /\ SpentInLogout(c)[u].copy.spent <=>
                      (logout[u].copy.spent \/ (~c.spent /\ logout[u].copy.login = c.login))
<1>1. ASSUME NEW b \in Copy
      PROVE  /\ Spent(b, c).login = b.login
             /\ Spent(b, c).spent <=> (b.spent \/ (~c.spent /\ b.login = c.login))
  BY SpentType
<1>2. /\ \A v \in Waiters : flight[v].copy \in Copy /\ SpentInFlight(c)[v].copy = Spent(flight[v].copy, c)
      /\ \A u \in Tabs : logout[u].copy \in Copy /\ SpentInLogout(c)[u].copy = Spent(logout[u].copy, c)
  BY SpentEverywhere DEF Typed, Flight, Logout
<1>3. ASSUME NEW v \in Waiters
      PROVE  /\ SpentInFlight(c)[v].copy.login = flight[v].copy.login
             /\ SpentInFlight(c)[v].copy.spent <=>
                   (flight[v].copy.spent \/ (~c.spent /\ flight[v].copy.login = c.login))
  <2>1. PICK b \in Copy : b = flight[v].copy
    BY <1>2
  <2> QED
    BY <1>1, <1>2, <2>1
<1>4. ASSUME NEW u \in Tabs
      PROVE  /\ SpentInLogout(c)[u].copy.login = logout[u].copy.login
             /\ SpentInLogout(c)[u].copy.spent <=>
                   (logout[u].copy.spent \/ (~c.spent /\ logout[u].copy.login = c.login))
  <2>1. PICK b \in Copy : b = logout[u].copy
    BY <1>2
  <2> QED
    BY <1>1, <1>2, <2>1
<1> QED
  BY <1>3, <1>4

LEMMA CopiesRotate ==
    ASSUME Typed, CopiesInv, NEW w \in Waiters, Refresh(w)
    PROVE  CopiesInv'
<1> DEFINE c == flight[w].copy
<1>1. c \in Copy /\ ~c.spent /\ w \in Flying /\ flight[w].pc = "sent" /\ session' = session
  BY DEF Typed, Flight, Refresh, MayRotate, Flying
<1>2. \A v \in Waiters : flight[v].copy \in Copy
  BY DEF Typed, Flight
<1>3. /\ flight'[w].pc = "granted" /\ flight'[w].copy = c
      /\ \A v \in Waiters \ {w} : /\ flight'[v].pc = flight[v].pc /\ flight'[v].others = flight[v].others
                                  /\ flight'[v].copy = Spent(flight[v].copy, c)
  BY <1>1, SpentEverywhere DEF Refresh, NoFlight
<1>4. \A v \in Waiters \ {w} :
        /\ flight'[v].copy.login = flight[v].copy.login
        /\ (flight'[v].copy.spent <=> (flight[v].copy.spent \/ flight[v].copy.login = c.login))
  BY <1>1, <1>3, SpentCopies, SpentEverywhere DEF Refresh
<1>5. jar'.login = jar.login /\ (jar'.spent <=> (jar.spent \/ jar.login = c.login))
  BY <1>1, SpentType DEF Refresh, Typed
<1>6. \A u \in Tabs : /\ logout'[u].pending = logout[u].pending /\ logout'[u].met = logout[u].met
                      /\ logout'[u].copy.login = logout[u].copy.login
                      /\ (logout'[u].copy.spent <=> (logout[u].copy.spent \/ logout[u].copy.login = c.login))
  BY <1>1, SpentEverywhere, SpentCopies DEF Refresh
<1>7. Flying' = Flying /\ \A l : Live(l)' = Live(l)
  BY <1>1, <1>3 DEF Flying, Live
<1>8. GoodCopies'
  BY <1>1, <1>3, <1>4, <1>5, <1>6, <1>7 DEF CopiesInv, GoodCopies, Good
<1>9. GrantedIsNewest'
  <2> SUFFICES ASSUME NEW x \in Waiters, flight'[x].pc = "granted"
               PROVE  LET l == flight'[x].copy.login IN
                      /\ ~flight'[x].copy.spent
                      /\ jar'.spent \/ jar'.login # l
                      /\ \A v \in Waiters \ {x} : flight'[v].copy.spent \/ flight'[v].copy.login # l
                      /\ \A u \in Tabs : logout'[u].copy.spent \/ logout'[u].copy.login # l
    BY DEF GrantedIsNewest
  <2>1. CASE x = w
    BY <1>1, <1>3, <1>4, <1>5, <1>6, <2>1
  <2>2. CASE x # w
    <3>1. LET l == flight[x].copy.login IN
          /\ ~flight[x].copy.spent
          /\ jar.spent \/ jar.login # l
          /\ \A v \in Waiters \ {x} : flight[v].copy.spent \/ flight[v].copy.login # l
          /\ \A u \in Tabs : logout[u].copy.spent \/ logout[u].copy.login # l
      BY <1>3, <2>2 DEF CopiesInv, GrantedIsNewest
    <3>2. flight[x].copy.login # c.login
      BY <1>1, <2>2, <3>1
    <3> QED
      BY <1>3, <1>4, <1>5, <1>6, <2>2, <3>1, <3>2
  <2> QED
    BY <2>1, <2>2
<1>10. SpentJarIsReplaced'
  BY <1>1, <1>3, <1>4, <1>5, <1>7 DEF CopiesInv, SpentJarIsReplaced
<1>11. RefreshesMeet'
  BY <1>1, <1>3, <1>7 DEF CopiesInv, RefreshesMeet, Flying
<1>12. LogoutsMeet'
  BY <1>1, <1>6 DEF CopiesInv, LogoutsMeet
<1> QED
  BY <1>8, <1>9, <1>10, <1>11, <1>12 DEF CopiesInv

\* The refresh of w is over: its token is the browser's now, or lost.
LEMMA CopiesResolve ==
    ASSUME Typed, CopiesInv, NEW w \in Flying, logout' = logout,
           flight' = [flight EXCEPT ![w] = NoFlight],
           \/ flight[w].pc = "granted" /\ jar' = flight[w].copy /\ session' = session
           \/ jar' = jar /\ session' = Lost({w})
    PROVE  CopiesInv'
<1> DEFINE c == flight[w].copy
           kept == jar' = jar /\ session' = Lost({w})
<1>1. /\ w \in Waiters /\ flight'[w] = NoFlight /\ \A v \in Waiters \ {w} : flight'[v] = flight[v]
      /\ Flying' = Flying \ {w}
  BY DEF Flying, NoFlight, Typed
<1>2. kept => \A l : Live(l)' <=> Live(l) /\ ~(flight[w].pc = "granted" /\ c.login = l)
  BY LostLive
<1>3. ~kept => \A l : Live(l)' = Live(l)
  BY DEF Live
<1>4. \A l \in Logins : session[l] # "none" => session'[l] # "none"
  BY LostLive
<1>5. NoFlight.pc = "none" /\ NoFlight.copy = NoCopy
  BY DEF NoFlight
<1>6. GoodCopies'
  <2>1. Good(jar)'
    BY <1>1, <1>2, <1>3, <1>4 DEF CopiesInv, GoodCopies, Good, GrantedIsNewest
  <2>2. ASSUME NEW v \in Waiters PROVE Good(flight[v].copy)'
    BY <1>1, <1>2, <1>3, <1>4, <1>5, NoCopyIsGood, Constants DEF CopiesInv, GoodCopies, Good, GrantedIsNewest
  <2>3. ASSUME NEW u \in Tabs PROVE Good(logout[u].copy)'
    BY <1>1, <1>2, <1>3, <1>4 DEF CopiesInv, GoodCopies, Good, GrantedIsNewest
  <2> QED
    BY <2>1, <2>2, <2>3 DEF GoodCopies
<1>7. GrantedIsNewest'
  BY <1>1, <1>5, NoCopyIsGood DEF CopiesInv, GrantedIsNewest
<1>8. SpentJarIsReplaced'
  BY <1>1, <1>2 DEF CopiesInv, GrantedIsNewest, SpentJarIsReplaced
<1>9. RefreshesMeet'
  <2> SUFFICES ASSUME NEW v \in Flying', flight'[v].pc = "sent" PROVE flight'[v].others
    BY DEF RefreshesMeet
  <2>1. v \in Flying /\ v \in Waiters \ {w} /\ Flying # {v}
    BY <1>1 DEF Flying
  <2> QED
    BY <1>1, <2>1 DEF CopiesInv, RefreshesMeet
<1>10. LogoutsMeet'
  BY DEF CopiesInv, LogoutsMeet
<1> QED
  BY <1>6, <1>7, <1>8, <1>9, <1>10 DEF CopiesInv

\* A sign-in begins, with a cookie or without.
LEMMA CopiesSignIn ==
    ASSUME Typed, CopiesInv, NEW l \in Logins, session[l] = "none", UNCHANGED <<flight, logout>>,
           \/ session' = [session EXCEPT ![l] = "live"] /\ jar' = NewCookie(l)
           \/ session' = [session EXCEPT ![l] = "over"] /\ jar' = NoCopy
    PROVE  CopiesInv'
<1>1. /\ \A x \in Logins \ {l} : session'[x] = session[x]
      /\ session'[l] \in {"live", "over"} /\ Flying' = Flying
  BY DEF Typed, Flying
<1>2. \A x : x # l => (Live(x)' <=> Live(x))
  BY <1>1 DEF Live
<1>3. /\ \A v \in Waiters : flight[v].copy.login # l
      /\ \A u \in Tabs : logout[u].copy.login # l
  BY DEF CopiesInv, GoodCopies, Good
<1>4. \/ jar'.login = l /\ ~jar'.spent /\ session'[l] = "live"
      \/ jar'.spent /\ jar'.login = Nobody
  BY DEF NewCookie, NoCopy, Typed
<1>5. GoodCopies'
  <2>1. Good(jar)'
    BY <1>4, Constants DEF Good, Live
  <2> QED
    BY <1>1, <1>2, <1>3, <2>1 DEF CopiesInv, GoodCopies, Good
<1>6. GrantedIsNewest'
  BY <1>3, <1>4 DEF CopiesInv, GrantedIsNewest
<1>7. SpentJarIsReplaced'
  BY <1>4, Constants DEF SpentJarIsReplaced, Live
<1>8. RefreshesMeet'
  BY <1>1, <1>2, <1>3 DEF CopiesInv, RefreshesMeet, Flying
<1>9. LogoutsMeet'
  BY <1>1, <1>2, <1>3 DEF CopiesInv, LogoutsMeet
<1> QED
  BY <1>5, <1>6, <1>7, <1>8, <1>9 DEF CopiesInv

LEMMA CopiesSendLogout ==
    ASSUME Typed, CopiesInv, NEW t \in Tabs, SendLogout(t)
    PROVE  CopiesInv'
<1>1. /\ UNCHANGED <<flight, jar, session>> /\ \A u \in Tabs \ {t} : logout'[u] = logout[u]
      /\ logout'[t].copy = jar /\ logout'[t].met = (Flying # {})
  BY DEF SendLogout, Typed
<1>2. Flying = {} => ~(jar.spent /\ Live(jar.login))
  BY DEF CopiesInv, SpentJarIsReplaced, Flying
<1>3. GoodCopies'
  BY <1>1 DEF CopiesInv, GoodCopies, Good, Live
<1>4. GrantedIsNewest'
  BY <1>1 DEF CopiesInv, GrantedIsNewest
<1>5. SpentJarIsReplaced' /\ RefreshesMeet'
  BY <1>1 DEF CopiesInv, SpentJarIsReplaced, RefreshesMeet, Flying, Live
<1>6. LogoutsMeet'
  BY <1>1, <1>2 DEF CopiesInv, LogoutsMeet, Flying, Live
<1> QED
  BY <1>3, <1>4, <1>5, <1>6 DEF CopiesInv

LEMMA RevokedLive ==
    ASSUME Typed, CopiesInv, NEW t \in Tabs, session' = Revoked(logout[t].copy)
    PROVE  LET c == logout[t].copy IN
           /\ \A l : Live(l)' <=> Live(l) /\ ~(~c.spent /\ l = c.login)
           /\ \A l \in Logins : session[l] # "none" => session'[l] # "none"
<1>1. logout[t].copy.spent \/ logout[t].copy.login \in Logins
  BY DEF CopiesInv, GoodCopies, Good, Live
<1> QED
  BY <1>1 DEF Revoked, Live, Typed

LEMMA CopiesRevoke ==
    ASSUME Typed, CopiesInv, NEW t \in Tabs, RevokeBy(t),
           jar' = NoCopy \/ jar' = Spent(jar, logout[t].copy)
    PROVE  CopiesInv'
<1> DEFINE c == logout[t].copy
           hit(l) == ~c.spent /\ l = c.login
<1>1. c \in Copy /\ jar \in Copy /\ \A v \in Waiters : flight[v].copy \in Copy
  BY DEF Typed, Flight, Logout
<1>2. \A v \in Waiters : /\ flight'[v].pc = flight[v].pc /\ flight'[v].others = flight[v].others
                         /\ flight'[v].copy.login = flight[v].copy.login
                         /\ (flight'[v].copy.spent <=> (flight[v].copy.spent \/ hit(flight[v].copy.login)))
  BY <1>1, SpentEverywhere, SpentCopies DEF RevokeBy
<1>3. /\ ~logout'[t].pending /\ logout'[t].copy = NoCopy
      /\ \A u \in Tabs \ {t} :
           /\ logout'[u].pending = logout[u].pending /\ logout'[u].met = logout[u].met
           /\ logout'[u].copy.login = logout[u].copy.login
           /\ (logout'[u].copy.spent <=> (logout[u].copy.spent \/ hit(logout[u].copy.login)))
  <2>1. c \in Copy /\ logout' = [SpentInLogout(c) EXCEPT ![t] = NoLogout]
    BY <1>1 DEF RevokeBy
  <2>2. logout'[t] = NoLogout /\ \A u \in Tabs \ {t} : logout'[u] = SpentInLogout(c)[u]
    BY <2>1, SpentEverywhere
  <2> QED
    BY <2>1, <2>2, SpentEverywhere, SpentCopies DEF NoLogout
<1>4. \/ jar'.spent /\ jar'.login = Nobody
      \/ jar'.login = jar.login /\ (jar'.spent <=> (jar.spent \/ hit(jar.login)))
  BY <1>1, SpentType, NoCopyIsGood
<1>5. /\ \A l : Live(l)' <=> Live(l) /\ ~hit(l)
      /\ \A l \in Logins : session[l] # "none" => session'[l] # "none"
  BY RevokedLive DEF RevokeBy
<1>6. Flying' = Flying
  BY <1>2 DEF Flying
<1> HIDE DEF hit
<1>7. GoodCopies'
  <2>1. Good(jar)'
    BY <1>4, <1>5, Constants DEF CopiesInv, GoodCopies, Good
  <2>2. ASSUME NEW v \in Waiters PROVE Good(flight[v].copy)'
    BY <1>2, <1>5 DEF CopiesInv, GoodCopies, Good
  <2>3. ASSUME NEW u \in Tabs PROVE Good(logout[u].copy)'
    BY <1>3, <1>5, NoCopyIsGood, Constants DEF CopiesInv, GoodCopies, Good
  <2> QED
    BY <2>1, <2>2, <2>3 DEF GoodCopies
<1>8. GrantedIsNewest'
  <2> SUFFICES ASSUME NEW x \in Waiters, flight'[x].pc = "granted"
               PROVE  LET l == flight'[x].copy.login IN
                      /\ ~flight'[x].copy.spent
                      /\ jar'.spent \/ jar'.login # l
                      /\ \A v \in Waiters \ {x} : flight'[v].copy.spent \/ flight'[v].copy.login # l
                      /\ \A u \in Tabs : logout'[u].copy.spent \/ logout'[u].copy.login # l
    BY DEF GrantedIsNewest
  <2>1. LET l == flight[x].copy.login IN
        /\ ~flight[x].copy.spent
        /\ jar.spent \/ jar.login # l
        /\ \A v \in Waiters \ {x} : flight[v].copy.spent \/ flight[v].copy.login # l
        /\ \A u \in Tabs : logout[u].copy.spent \/ logout[u].copy.login # l
    BY <1>2 DEF CopiesInv, GrantedIsNewest
  <2>2. ~hit(flight[x].copy.login)
    BY <2>1 DEF hit
  <2>3. jar'.spent \/ jar'.login # flight[x].copy.login
    BY <1>4, <2>1
  <2> QED
    BY <1>2, <1>3, <2>1, <2>2, <2>3, NoCopyIsGood
<1>9. SpentJarIsReplaced'
  BY <1>2, <1>4, <1>5, Constants DEF CopiesInv, SpentJarIsReplaced, Live
<1>10. RefreshesMeet'
  <2> SUFFICES ASSUME NEW v \in Flying, flight[v].pc = "sent"
               PROVE  /\ Flying # {v} => flight'[v].others
                      /\ flight'[v].copy.spent /\ Live(flight[v].copy.login)' => flight'[v].others
    BY <1>2, <1>6 DEF RefreshesMeet, Flying, Live
  <2>1. /\ Flying # {v} => flight[v].others
        /\ flight[v].copy.spent /\ Live(flight[v].copy.login) => flight[v].others
    BY DEF CopiesInv, RefreshesMeet
  <2>2. /\ flight'[v].others = flight[v].others /\ flight'[v].copy.login = flight[v].copy.login
        /\ (flight'[v].copy.spent <=> (flight[v].copy.spent \/ hit(flight[v].copy.login)))
    BY <1>2 DEF Flying
  <2> QED
    BY <1>5, <2>1, <2>2
<1>11. LogoutsMeet'
  <2> SUFFICES ASSUME NEW u \in Tabs \ {t}, logout'[u].pending, ~logout'[u].met
               PROVE  Flying = {} /\ (logout'[u].copy.spent => ~Live(logout[u].copy.login)')
    BY <1>3, <1>6 DEF LogoutsMeet, Live
  <2>1. Flying = {} /\ (logout[u].copy.spent => ~Live(logout[u].copy.login))
    BY <1>3 DEF CopiesInv, LogoutsMeet
  <2> QED
    BY <1>3, <1>5, <2>1
<1> QED
  BY <1>7, <1>8, <1>9, <1>10, <1>11 DEF CopiesInv

LEMMA CopiesForgetLogout ==
    ASSUME Typed, CopiesInv, NEW t \in Tabs, logout' = [logout EXCEPT ![t] = NoLogout],
           UNCHANGED <<flight, jar, session>>
    PROVE  CopiesInv'
<1>1. /\ ~logout'[t].pending /\ logout'[t].copy = NoCopy
      /\ \A u \in Tabs \ {t} : logout'[u] = logout[u]
  BY DEF NoLogout, Typed
<1>2. GoodCopies'
  BY <1>1, NoCopyIsGood DEF CopiesInv, GoodCopies, Good, Live
<1>3. GrantedIsNewest'
  BY <1>1, NoCopyIsGood DEF CopiesInv, GrantedIsNewest
<1>4. SpentJarIsReplaced' /\ RefreshesMeet'
  BY DEF CopiesInv, SpentJarIsReplaced, RefreshesMeet, Flying, Live
<1>5. LogoutsMeet'
  BY <1>1 DEF CopiesInv, LogoutsMeet, Flying, Live
<1> QED
  BY <1>2, <1>3, <1>4, <1>5 DEF CopiesInv

LEMMA StepCopies == Typed /\ CallsInv /\ CopiesInv /\ [Next]_browserVars => CopiesInv'
<1> SUFFICES ASSUME Typed, CallsInv, CopiesInv, [Next]_browserVars PROVE CopiesInv'
  OBVIOUS
<1>1. ASSUME NEW w \in Waiters, Refresh(w) PROVE CopiesInv'
  BY <1>1, CopiesRotate
<1>2. ASSUME NEW w \in Waiters, RefreshReply(w) \/ RefreshRefused(w) \/ RefreshLost(w)
      PROVE  CopiesInv'
  <2>1. w \in Flying /\ flight' = [flight EXCEPT ![w] = NoFlight] /\ logout' = logout
    BY <1>2 DEF RefreshReply, RefreshRefused, RefreshLost, Resolve, Flying
  <2>2. RefreshRefused(w) => Lost({w}) = session
    BY LostNothing DEF RefreshRefused
  <2>3. \/ flight[w].pc = "granted" /\ jar' = flight[w].copy /\ session' = session
        \/ jar' = jar /\ session' = Lost({w})
    BY <1>2, <2>2 DEF RefreshReply, RefreshRefused, RefreshLost
  <2> QED
    BY <2>1, <2>3, CopiesResolve
<1>3. ASSUME NEW k \in Calls, Answered(k) \/ \E t \in Tabs : Send(k, t) PROVE CopiesInv'
  BY <1>3, CopiesKept DEF Answered, Send
<1>4. ASSUME NEW k \in Calls, NEW kind \in {"api", "stream"}, Unauthorized(k, kind) PROVE CopiesInv'
  <2> DEFINE t == call[k].tab
             gone == {v \in Flying : call[v].tab = t}
             rest == [v \in Waiters |-> IF v \in gone THEN NoFlight ELSE flight[v]]
  <2>1. k \in Waiters /\ t \in Tabs /\ k \notin Flying /\ UNCHANGED <<jar, session>>
    BY <1>4, Constants DEF Unauthorized, CallsInv, WaitersAwait
  <2>2. CASE UNCHANGED <<flight, logout>>
    BY <2>1, <2>2, CopiesKept
  <2>3. CASE SharedBy(t) = {} /\ flight' = Begun(flight, k, t) /\ logout' = Met
    <3>1. gone = {}
      BY <2>3 DEF SharedBy, Of, Flying
    <3>2. rest = flight /\ Lost(gone) = session
      BY <3>1, LostNothing DEF Typed
    <3> HIDE DEF gone, rest
    <3>3. flight' = Begun(rest, k, t) /\ session' = Lost(gone) /\ jar' = jar
      BY <2>1, <2>3, <3>2
    <3> QED
      BY <2>1, <2>3, <3>3, CopiesBegin DEF gone, rest
  <2> QED
    BY <1>4, <2>2, <2>3 DEF Unauthorized, AwaitRefresh
<1>5. ASSUME NEW t \in Tabs, Load(t) PROVE CopiesInv'
  <2> DEFINE gone == {v \in Flying : call[v].tab = t}
             rest == [v \in Waiters |-> IF v \in gone THEN NoFlight ELSE flight[v]]
  <2>1. t \in Waiters /\ (t \in Flying => call[t].tab = t)
    BY Constants DEF CallsInv, WaitersAwait, NoCall, Mounting
  <2>2. flight' = Begun(rest, t, t) /\ logout' = Met /\ session' = Lost(gone) /\ jar' = jar
    BY <1>5 DEF Load
  <2> QED
    BY <2>1, <2>2, CopiesBegin
<1>6. ASSUME NEW t \in Tabs, Profile(t) PROVE CopiesInv'
  BY <1>6, CopiesKept DEF Profile
<1>7. ASSUME NEW t \in Tabs, Login(t) \/ StartSample(t) PROVE CopiesInv'
  BY <1>7, OneOfFresh, CopiesSignIn DEF Login, StartSample
<1>8. ASSUME NEW t \in Tabs, SendLogout(t) PROVE CopiesInv'
  BY <1>8, CopiesSendLogout
<1>9. ASSUME NEW t \in Tabs, LogoutReply(t) \/ LogoutLost(t) PROVE CopiesInv'
  BY <1>9, CopiesRevoke, CopiesForgetLogout DEF LogoutReply, LogoutLost
<1>10. CASE UNCHANGED browserVars
  BY <1>10, CopiesKept DEF browserVars
<1> QED
  BY <1>1, <1>2, <1>3, <1>4, <1>5, <1>6, <1>7, <1>8, <1>9, <1>10 DEF Next

-----------------------------------------------------------------------------
(* What a tab shows and what it holds *)

\* A tab whose memory is left alone, as long as what it awaits is.
LEMMA SteadyKept ==
    ASSUME NEW v \in Tabs, Steady(v), tab'[v] = tab[v], jar'.login \in {Nobody, jar.login},
           \A w \in Of(v)' : w \in Of(v) \/ (w # v /\ tab[v].shows # Nobody),
           \A w \in Flying' : call'[w].tab = v =>
               \/ flight'[w].copy.login = jar.login
               \/ \E x \in Flying : call[x].tab = v /\ flight[x].copy.login = flight'[w].copy.login
    PROVE  Steady(v)'
<1> SUFFICES ASSUME ~tab'[v].mixed PROVE Steady(v)'
  BY DEF Steady
<1>1. CASE tab[v].shows # Nobody
  <2>1. /\ tab[v].access \in {Nobody, tab[v].shows} /\ tab[v].me = Nobody
        /\ v \notin Of(v) /\ jar.login \in {Nobody, tab[v].shows}
        /\ \A w \in Flying : call[w].tab = v => flight[w].copy.login \in {Nobody, tab[v].shows}
    BY <1>1 DEF Steady
  <2>2. v \notin Of(v)'
    BY <2>1
  <2>3. \A w \in Flying' : call'[w].tab = v => flight'[w].copy.login \in {Nobody, tab[v].shows}
    BY <2>1
  <2> QED
    BY <1>1, <2>1, <2>2, <2>3 DEF Steady
<1>2. CASE tab[v].shows = Nobody
  <2>1. /\ Of(v) \subseteq {v}
        /\ tab[v].me # Nobody => /\ Of(v) = {} /\ tab[v].access = tab[v].me
                                 /\ jar.login \in {Nobody, tab[v].me}
        /\ tab[v].me = Nobody => tab[v].access = Nobody
    BY <1>2 DEF Steady
  <2>2. Of(v)' \subseteq Of(v)
    BY <1>2
  <2> QED
    BY <1>2, <2>1, <2>2 DEF Steady
<1> QED
  BY <1>1, <1>2

\* A tab that is not the one to get a cookie of another sign-in.
LEMMA SteadyMixed ==
    ASSUME Typed, NEW t \in Tabs, NEW v \in Tabs \ {t}, Steady(v),
           tab'[v] = OthersMixed(t)[v], Of(v)' \subseteq Of(v)
    PROVE  Steady(v)'
<1> SUFFICES ASSUME ~tab'[v].mixed PROVE Steady(v)'
  BY DEF Steady
<1>1. /\ tab'[v].shows = tab[v].shows /\ tab'[v].access = tab[v].access /\ tab'[v].me = tab[v].me
      /\ ~tab[v].mixed /\ tab[v].shows = Nobody /\ ~Busy(v)
  BY OthersMixedType
<1> QED
  BY <1>1 DEF Steady, Busy

\* Nothing but the tab itself, its call being unchanged, and the cookie.
LEMMA SteadyOthers ==
    ASSUME NEW v \in Tabs, Steady(v), tab'[v] = tab[v], jar'.login \in {Nobody, jar.login},
           call' = call,
           \A w \in Waiters : (w \in Flying' => w \in Flying)
                              /\ flight'[w].copy.login = flight[w].copy.login
    PROVE  Steady(v)'
<1>1. Of(v)' = Of(v)
  BY DEF Of
<1>2. \A w \in Flying' : w \in Waiters
  BY DEF Flying
<1> QED
  BY <1>1, <1>2, SteadyKept

\* What becomes of tab t, in state b, when its refresh resolves.
GotToken(t, u, b) ==
    /\ tab'[t].access = u /\ tab'[t].shows = b.shows /\ (tab'[t].mixed <=> b.mixed)
    /\ t \in Of(t) => tab'[t].me = u
    /\ t \notin Of(t) => tab'[t].me = b.me

GotNone(t, b) ==
    LET rest == Of(t)' # {} \/ tab[t].me # Nobody IN
    /\ tab'[t].me = b.me
    /\ \/ tab'[t].access = Nobody /\ tab'[t].shows = Nobody /\ (tab'[t].mixed <=> rest)
       \/ /\ t \in Of(t) /\ tab'[t].access = b.access /\ tab'[t].shows = Nobody
          /\ tab'[t].mixed <=> (b.mixed \/ rest)
       \/ /\ t \notin Of(t) /\ tab'[t].access = b.access /\ tab'[t].shows = b.shows
          /\ tab'[t].mixed <=> b.mixed

LEMMA ResolveTab ==
    ASSUME Typed, CallsInv, NEW w \in Flying, NEW u \in Users, NEW tabs \in [Tabs -> Tab],
           Resolve(w, u, tabs), NEW t \in Tabs, t = call[w].tab
    PROVE  /\ \A v \in Tabs \ {t} : tab'[v] = tabs[v] /\ Of(v)' = Of(v)
           /\ Of(t)' \subseteq Of(t) /\ t \notin Of(t)'
           /\ u # Nobody => GotToken(t, u, tabs[t])
           /\ u = Nobody => GotNone(t, tabs[t])
           /\ \A v \in Tabs, x \in Flying' : call'[x].tab = v =>
                 x \in Flying /\ v # t /\ call[x].tab = v /\ flight'[x] = flight[x]
<1> DEFINE done == AwaitingFlight(w) \cup Flushed(w, u)
<1>1. w \in Waiters /\ t \in Waiters /\ t # "none"
  BY FlyingTab, Constants
<1>2. /\ flight' = [flight EXCEPT ![w] = NoFlight] /\ Flying' = Flying \ {w}
      /\ \A v \in Waiters : call'[v] =
            IF call[v].tab = t /\ call[v].pc \in {"waiting", "queued"} THEN NoCall ELSE call[v]
  BY ResolveEffect
<1>3. NoCall.tab = "none" /\ "none" \notin Tabs
  BY Constants DEF NoCall
<1>4. \A v \in Tabs \ {t} : Of(v)' = Of(v)
  <2> SUFFICES ASSUME NEW v \in Tabs \ {t}, NEW x \in Waiters
               PROVE  call'[x].tab = v <=> call[x].tab = v
    BY DEF Of
  <2> QED
    BY <1>2, <1>3
<1>5. Of(t)' = Of(t) \ done
  <2> SUFFICES ASSUME NEW x \in Waiters
               PROVE  call'[x].tab = t <=> call[x].tab = t /\ x \notin done
    BY DEF Of
  <2>1. x \in done <=> call[x].tab = t /\ call[x].pc \in {"waiting", "queued"}
    BY ResolveLetsGo DEF Done
  <2> QED
    BY <1>1, <1>2, <1>3, <2>1
<1>6. (t \in AwaitingFlight(w)) = (t \in Of(t)) /\ t \notin Of(t)'
  <2>1. t \in Of(t) => call[t] = Mounting(t)
    BY <1>1, <1>3 DEF Of, CallsInv, WaitersAwait
  <2>2. t \in Of(t) => t \in done /\ t \notin Calls
    BY <1>1, <2>1, ResolveLetsGo, Constants DEF Done, Mounting
  <2>3. t \in Flushed(w, u) => call[t].pc = "queued"
    BY DEF Flushed
  <2>4. t \in Of(t) => t \in AwaitingFlight(w)
    BY <2>1, <2>2, <2>3 DEF Mounting
  <2>5. t \in AwaitingFlight(w) => t \in Of(t)
    <3>1. ASSUME t \in AwaitingFlight(w) PROVE call[t].pc = "waiting"
      BY <3>1 DEF AwaitingFlight
    <3> QED
      BY <1>1, <3>1 DEF CallsInv, WaitersAwait, NoCall, Mounting, Of
  <2> QED
    BY <1>5, <2>2, <2>4, <2>5
<1>7. /\ u # Nobody => GotToken(t, u, tabs[t])
      /\ u = Nobody => GotNone(t, tabs[t])
      /\ \A v \in Tabs \ {t} : tab'[v] = tabs[v]
  <2> DEFINE mounts == t \in AwaitingFlight(w)
             fails == LeadersOf(w) # {}
             rest == Of(t) \ done # {} \/ tab[t].me # Nobody
             b == tabs[t]
             with == WithToken(b, u, mounts)
             without == WithoutToken(b, fails, mounts, rest)
  <2>1. /\ tab'[t] = IF u # Nobody THEN with ELSE without
        /\ \A v \in Tabs \ {t} : tab'[v] = tabs[v]
    BY <1>1 DEF Resolve
  <2>2. /\ mounts \in BOOLEAN /\ fails \in BOOLEAN /\ rest \in BOOLEAN /\ b \in Tab
        /\ mounts <=> t \in Of(t)
        /\ rest <=> (Of(t)' # {} \/ tab[t].me # Nobody)
    BY <1>5, <1>6
  <2> HIDE DEF mounts, fails, rest, b
  <2>3. /\ with.access = u /\ with.shows = b.shows /\ with.mixed = b.mixed
        /\ with.me = (IF mounts THEN u ELSE b.me)
        /\ without.me = b.me /\ without.access = (IF fails THEN Nobody ELSE b.access)
        /\ without.shows = (IF fails \/ mounts THEN Nobody ELSE b.shows)
        /\ without.mixed <=> (IF fails THEN rest ELSE b.mixed \/ (mounts /\ rest))
    BY <2>2, TabWithType
  <2> HIDE DEF with, without
  <2>4. u # Nobody => GotToken(t, u, b)
    BY <2>1, <2>2, <2>3 DEF GotToken
  <2>5. u = Nobody => GotNone(t, b)
    BY <2>1, <2>2, <2>3 DEF GotNone
  <2> QED
    BY <2>1, <2>4, <2>5 DEF b
<1>8. ASSUME NEW v \in Tabs, NEW x \in Flying', call'[x].tab = v
      PROVE  x \in Flying /\ v # t /\ call[x].tab = v /\ flight'[x] = flight[x]
  <2>1. x \in Flying /\ x # w /\ x \in Waiters
    BY <1>2 DEF Flying
  <2>2. call[x].tab # t
    BY <2>1 DEF CallsInv, OneRefreshPerTab
  <2> QED
    BY <1>2, <1>8, <2>1, <2>2 DEF Typed
<1> QED
  BY <1>4, <1>5, <1>6, <1>7, <1>8

\* The tab whose refresh is over.
LEMMA SteadyResolved ==
    ASSUME Typed, CallsInv, CopiesInv, NEW w \in Flying, NEW u \in Users,
           NEW tabs \in [Tabs -> Tab], Resolve(w, u, tabs), NEW t \in Tabs, t = call[w].tab,
           tabs[t] = tab[t], Steady(t),
           u # Nobody => jar'.login = u /\ flight[w].copy.login = u,
           u = Nobody => jar' = jar
    PROVE  Steady(t)'
<1>1. Of(t)' \subseteq Of(t) /\ t \notin Of(t)' /\ \A x \in Flying' : call'[x].tab # t
  <2>1. /\ Of(t)' \subseteq Of(t) /\ t \notin Of(t)'
        /\ \A v \in Tabs, x \in Flying' : call'[x].tab = v => v # t
    BY ResolveTab
  <2> QED
    BY <2>1
<1>2. (u # Nobody => GotToken(t, u, tab[t])) /\ (u = Nobody => GotNone(t, tab[t]))
  BY ResolveTab
<1>3. w \in Of(t)
  BY FlyingTab DEF Of
<1>4. CASE u # Nobody
  <2>1. /\ tab'[t].access = u /\ tab'[t].shows = tab[t].shows /\ (tab'[t].mixed <=> tab[t].mixed)
        /\ t \in Of(t) => tab'[t].me = u
        /\ t \notin Of(t) => tab'[t].me = tab[t].me
    BY <1>2, <1>4 DEF GotToken
  <2> SUFFICES ASSUME ~tab[t].mixed PROVE Steady(t)'
    BY <2>1 DEF Steady
  <2>2. CASE tab[t].shows # Nobody
    <3>1. t \notin Of(t) /\ tab[t].me = Nobody /\ u = tab[t].shows
      BY <1>3, <1>4, <2>2, FlyingTab DEF Steady
    <3> QED
      BY <1>1, <1>4, <2>1, <2>2, <3>1 DEF Steady
  <2>3. CASE tab[t].shows = Nobody
    <3>1. Of(t) \subseteq {t} /\ t \in Of(t)
      BY <1>3, <2>3 DEF Steady
    <3>2. Of(t)' = {} /\ tab'[t].me = u
      BY <1>1, <2>1, <3>1
    <3> QED
      BY <1>4, <2>1, <2>3, <3>2 DEF Steady
  <2> QED
    BY <2>2, <2>3
<1>5. CASE u = Nobody
  <2> DEFINE rest == Of(t)' # {} \/ tab[t].me # Nobody
  <2>1. /\ tab'[t].me = tab[t].me
        /\ \/ tab'[t].access = Nobody /\ tab'[t].shows = Nobody /\ (tab'[t].mixed <=> rest)
           \/ /\ t \in Of(t) /\ tab'[t].access = tab[t].access /\ tab'[t].shows = Nobody
              /\ tab'[t].mixed <=> (tab[t].mixed \/ rest)
           \/ /\ t \notin Of(t) /\ tab'[t].access = tab[t].access
              /\ tab'[t].shows = tab[t].shows /\ (tab'[t].mixed <=> tab[t].mixed)
    BY <1>2, <1>5 DEF GotNone
  <2>2. CASE tab'[t].access = Nobody /\ tab'[t].shows = Nobody /\ (tab'[t].mixed <=> rest)
    BY <2>1, <2>2 DEF Steady
  <2>3. CASE /\ t \in Of(t) /\ tab'[t].access = tab[t].access /\ tab'[t].shows = Nobody
             /\ tab'[t].mixed <=> (tab[t].mixed \/ rest)
    <3>1. ~tab[t].mixed /\ tab[t].me = Nobody => tab[t].access = Nobody
      BY <2>3 DEF Steady
    <3> QED
      BY <2>1, <2>3, <3>1 DEF Steady
  <2>4. CASE /\ t \notin Of(t) /\ tab'[t].access = tab[t].access
             /\ tab'[t].shows = tab[t].shows /\ (tab'[t].mixed <=> tab[t].mixed)
    <3>1. ~tab[t].mixed => tab[t].shows # Nobody
      BY <1>3, <2>4 DEF Steady
    <3> QED
      BY <1>1, <1>5, <2>1, <2>4, <3>1 DEF Steady
  <2> QED
    BY <2>1, <2>2, <2>3, <2>4
<1> QED
  BY <1>4, <1>5

LEMMA StepTabs == Typed /\ CallsInv /\ CopiesInv /\ TabsInv /\ [Next]_browserVars => TabsInv'
<1> SUFFICES ASSUME Typed, CallsInv, CopiesInv, TabsInv, [Next]_browserVars, NEW v \in Tabs
             PROVE  Steady(v)'
  BY DEF TabsInv
<1>0. Steady(v) /\ v \in Waiters /\ v \notin Calls /\ v # "none"
  BY Constants DEF TabsInv
<1>1. ASSUME NEW w \in Waiters, Refresh(w) PROVE Steady(v)'
  <2>1. flight[w].copy \in Copy /\ flight[w].pc = "sent"
    BY <1>1 DEF Typed, Flight, Refresh
  <2>2. jar'.login = jar.login
    BY <1>1, <2>1, SpentType DEF Refresh, Typed
  <2>3. \A x \in Waiters : /\ x \in Flying' => x \in Flying
                           /\ flight'[x].copy.login = flight[x].copy.login
    BY <1>1, <2>1, SpentEverywhere, SpentCopies DEF Refresh, NoFlight, Flying
  <2> QED
    BY <1>0, <1>1, <2>2, <2>3, SteadyOthers DEF Refresh
<1>2. ASSUME NEW w \in Waiters, RefreshReply(w) \/ RefreshRefused(w) \/ RefreshLost(w)
      PROVE  Steady(v)'
  <2>1. PICK u \in Users, tabs \in [Tabs -> Tab] :
              /\ w \in Flying /\ Resolve(w, u, tabs)
              /\ \/ /\ u = Nobody /\ tabs = tab /\ jar' = jar
                 \/ /\ flight[w].pc = "granted" /\ u = flight[w].copy.login
                    /\ jar' = flight[w].copy
                    /\ tabs = IF u = jar.login THEN tab ELSE OthersMixed(call[w].tab)
    BY <1>2, FlightsResolve
  <2>2. PICK t \in Tabs : t = call[w].tab
    BY <2>1, FlyingTab
  <2>3. flight[w].pc = "granted" => flight[w].copy.login # Nobody
    BY Constants DEF CopiesInv, GrantedIsNewest, GoodCopies, Good, Live
  <2>4. tabs[t] = tab[t]
    BY <2>1, <2>2, OthersMixedType
  <2>5. /\ \A x \in Tabs \ {t} : tab'[x] = tabs[x] /\ Of(x)' = Of(x)
        /\ \A y \in Tabs, x \in Flying' : call'[x].tab = y =>
              x \in Flying /\ y # t /\ call[x].tab = y /\ flight'[x] = flight[x]
    BY <2>1, <2>2, ResolveTab
  <2>6. CASE v = t
    BY <1>0, <2>1, <2>2, <2>3, <2>4, <2>6, SteadyResolved
  <2>7. CASE v # t /\ tabs = tab /\ jar'.login \in {Nobody, jar.login}
    BY <1>0, <2>5, <2>7, SteadyKept
  <2>8. CASE v # t /\ tabs = OthersMixed(t)
    BY <1>0, <2>2, <2>5, <2>8, SteadyMixed
  <2> QED
    BY <2>1, <2>2, <2>6, <2>7, <2>8
<1>3. ASSUME NEW k \in Calls, Answered(k) PROVE Steady(v)'
  <2>1. UNCHANGED <<tab, flight, jar>> /\ call' = [call EXCEPT ![k] = NoCall] /\ k \notin Flying
    BY <1>3 DEF Answered, CallsInv, WaitersAwait, Waiters, Flying
  <2>2. NoCall.tab = "none"
    BY DEF NoCall
  <2>3. \A x \in Waiters : call'[x].tab = v => call[x].tab = v
    BY <1>0, <2>1, <2>2 DEF Typed
  <2>4. Flying' = Flying
    BY <2>1 DEF Flying
  <2> QED
    BY <1>0, <2>1, <2>3, <2>4, SteadyKept DEF Of, Flying
<1>4. ASSUME NEW k \in Calls, NEW t \in Tabs, Send(k, t) PROVE Steady(v)'
  <2>1. /\ UNCHANGED <<tab, flight, jar>> /\ call' = [call EXCEPT ![k] = Sent(t)] /\ k \notin Flying
        /\ tab[t].shows # Nobody
    BY <1>4 DEF Send, CallsInv, WaitersAwait, Waiters, Flying
  <2>2. Sent(t).tab = t
    BY DEF Sent, NoCall
  <2>3. \A x \in Waiters : call'[x].tab = v => call[x].tab = v \/ (x # v /\ tab[v].shows # Nobody)
    BY <1>0, <2>1, <2>2 DEF Typed
  <2>4. Flying' = Flying /\ \A x \in Flying : call'[x] = call[x]
    BY <2>1 DEF Flying, Typed
  <2> QED
    BY <1>0, <2>1, <2>3, <2>4, SteadyKept DEF Of, Flying
<1>5. ASSUME NEW k \in Calls, NEW kind \in {"api", "stream"}, Unauthorized(k, kind) PROVE Steady(v)'
  <2>1. /\ UNCHANGED <<tab, jar>> /\ k \in Waiters /\ call[k].tab \in Tabs
    BY <1>5, Constants DEF Unauthorized, CallsInv, WaitersAwait
  <2>2. \A x \in Waiters : call'[x].tab = call[x].tab
    BY <1>5, <2>1 DEF Unauthorized, AwaitRefresh, Typed, Call
  <2>3. Of(v)' = Of(v)
    BY <2>2 DEF Of
  <2>4. CASE flight' = flight
    <3>1. Flying' = Flying
      BY <2>4 DEF Flying
    <3> QED
      BY <1>0, <2>1, <2>2, <2>3, <2>4, <3>1, SteadyKept DEF Flying
  <2>5. CASE flight' = Begun(flight, k, call[k].tab)
    <3>1. /\ flight'[k].copy = jar
          /\ \A x \in Waiters \ {k} : flight'[x].pc = flight[x].pc /\ flight'[x].copy = flight[x].copy
      BY <2>1, <2>5, BegunType DEF Typed
    <3>2. \A x \in Flying' : \/ flight'[x].copy = jar
                             \/ x \in Flying /\ flight'[x].copy = flight[x].copy
      BY <3>1 DEF Flying
    <3> QED
      BY <1>0, <2>1, <2>2, <2>3, <3>2, SteadyKept DEF Flying
  <2> QED
    BY <1>5, <2>4, <2>5 DEF Unauthorized, AwaitRefresh
<1>6. ASSUME NEW t \in Tabs, Load(t) PROVE Steady(v)'
  <2> DEFINE gone == {w \in Flying : call[w].tab = t}
             rest == [w \in Waiters |-> IF w \in gone THEN NoFlight ELSE flight[w]]
  <2>1. /\ t \in Waiters /\ jar' = jar /\ call'[t] = Mounting(t) /\ Mounting(t).tab = t
        /\ NoCall.tab = "none" /\ \A w \in Waiters \ {t} :
              call'[w] = IF call[w].tab = t THEN NoCall ELSE call[w]
    BY <1>6, Constants DEF Load, Mounting, NoCall
  <2>2. CASE v = t
    <3>1. tab'[t] = NewTab
      BY <1>6 DEF Load, Typed
    <3>2. Of(t)' \subseteq {t}
      <4> SUFFICES ASSUME NEW x \in Waiters \ {t} PROVE call'[x].tab # t
        BY DEF Of
      <4> QED
        BY <1>0, <2>1, <2>2
    <3> QED
      BY <2>2, <3>1, <3>2 DEF Steady, NewTab
  <2>3. CASE v # t
    <3>1. tab'[v] = tab[v]
      BY <1>6, <2>3 DEF Load, Typed
    <3>2. call[t].tab # v
      BY <1>0, <2>1, <2>3, Constants DEF CallsInv, WaitersAwait
    <3>3. \A x \in Waiters : call'[x].tab = v => x # t /\ call[x].tab = v /\ call'[x] = call[x]
      BY <1>0, <2>1, <2>3
    <3>4. rest \in [Waiters -> Flight] /\ flight' = Begun(rest, t, t)
      BY <1>6, Defaults DEF Load, Typed
    <3>5. \A x \in Waiters \ {t} : flight'[x].pc = rest[x].pc /\ flight'[x].copy = rest[x].copy
      <4> HIDE DEF rest
      <4> QED
        BY <2>1, <3>4, BegunType
    <3>6. \A x \in Waiters \ {t} : call[x].tab = v => rest[x] = flight[x]
      BY <2>3
    <3>7. \A x \in Flying' : call'[x].tab = v =>
             x \in Flying /\ call[x].tab = v /\ flight'[x].copy = flight[x].copy
      BY <3>3, <3>5, <3>6 DEF Flying
    <3>8. Of(v)' \subseteq Of(v)
      BY <3>3 DEF Of
    <3> QED
      BY <1>0, <2>1, <3>1, <3>7, <3>8, SteadyKept
  <2> QED
    BY <2>2, <2>3
<1>7. ASSUME NEW t \in Tabs, Profile(t) PROVE Steady(v)'
  <2>1. UNCHANGED <<call, flight, jar>> /\ tab[t].me # Nobody /\ Of(t)' = Of(t)
    BY <1>7 DEF Profile, Of
  <2>2. CASE v # t
    <3>1. tab'[v] = tab[v]
      BY <1>7, <2>2 DEF Profile, Typed
    <3> QED
      BY <1>0, <2>1, <3>1, SteadyOthers DEF Flying
  <2>3. CASE v = t /\ tab' = [tab EXCEPT ![t].shows = tab[t].me, ![t].me = Nobody]
    <3>1. /\ tab'[t].shows = tab[t].me /\ tab'[t].me = Nobody
          /\ tab'[t].access = tab[t].access /\ tab'[t].mixed = tab[t].mixed
      BY <2>3 DEF Typed, Tab
    <3> SUFFICES ASSUME ~tab[t].mixed PROVE Steady(t)'
      BY <2>3, <3>1 DEF Steady
    <3>2. Of(t) = {} /\ tab[t].access = tab[t].me /\ jar.login \in {Nobody, tab[t].me}
      BY <1>0, <2>1, <2>3 DEF Steady
    <3>3. \A w \in Flying' : call'[w].tab # t
      BY <2>1, <3>2 DEF Flying, Of
    <3> QED
      BY <2>1, <3>1, <3>2, <3>3 DEF Steady
  <2>4. CASE v = t /\ tab' = [tab EXCEPT ![t].shows = Nobody, ![t].access = Nobody,
                                         ![t].me = Nobody, ![t].mixed = Of(t) # {}]
    <3> DEFINE busy == Of(t) # {}
    <3>1. tab \in [Tabs -> Tab] /\ busy \in BOOLEAN
      BY DEF Typed
    <3>2. tab'[t].shows = Nobody /\ tab'[t].access = Nobody /\ tab'[t].me = Nobody
          /\ tab'[t].mixed = busy
      <4> HIDE DEF busy
      <4>1. tab' = [tab EXCEPT ![t].shows = Nobody, ![t].access = Nobody,
                               ![t].me = Nobody, ![t].mixed = busy]
        BY <2>4 DEF busy
      <4> QED
        BY <3>1, <4>1 DEF Tab
    <3> QED
      BY <2>1, <2>4, <3>2 DEF Steady
  <2> QED
    BY <1>7, <2>2, <2>3, <2>4 DEF Profile
<1>8. ASSUME NEW t \in Tabs, Login(t) \/ StartSample(t) PROVE Steady(v)'
  <2> DEFINE l == OneOf(FreshLogins)
             busy == Busy(t)
  <2>1. /\ UNCHANGED <<call, flight>> /\ l # Nobody /\ l \in Users
        /\ Of(v)' = Of(v) /\ jar'.login \in {Nobody, l}
        /\ StartSample(t) => jar'.login = Nobody
    BY <1>8, OneOfFresh, NoCopyIsGood DEF Login, StartSample, Of, NewCookie
  <2>2. CASE v = t
    <3>1. tab'[t] = SignedIn(t, l)
      BY <1>8, OthersMixedType DEF Login, StartSample, Typed
    <3>2. busy \in BOOLEAN /\ tab[t] \in Tab
      BY DEF Busy, Typed
    <3>3. /\ tab'[t].shows = l /\ tab'[t].access = l /\ tab'[t].me = tab[t].me
          /\ tab'[t].mixed = busy
      <4> HIDE DEF busy, l
      <4>1. tab'[t] = [tab[t] EXCEPT !.shows = l, !.access = l, !.mixed = busy]
        BY <3>1 DEF SignedIn, busy
      <4> QED
        BY <3>2, <4>1 DEF Tab
    <3> SUFFICES ASSUME ~busy PROVE Steady(t)'
      BY <2>2, <3>3 DEF Steady
    <3>4. Of(t) = {} /\ tab[t].me = Nobody
      BY DEF Busy
    <3>5. \A w \in Flying' : call'[w].tab # t
      BY <2>1, <3>4 DEF Flying, Of
    <3> HIDE DEF l
    <3> QED
      BY <2>1, <2>2, <3>3, <3>4, <3>5 DEF Steady
  <2>3. CASE v # t /\ Login(t)
    <3>1. tab'[v] = OthersMixed(t)[v]
      BY <2>3, OthersMixedType DEF Login
    <3> QED
      BY <1>0, <2>1, <2>3, <3>1, SteadyMixed
  <2>4. CASE v # t /\ StartSample(t)
    <3>1. tab'[v] = tab[v]
      BY <2>4 DEF StartSample, Typed
    <3> QED
      BY <1>0, <2>1, <2>4, <3>1, SteadyOthers DEF Flying
  <2> QED
    BY <1>8, <2>2, <2>3, <2>4
<1>9. ASSUME NEW t \in Tabs, SendLogout(t) PROVE Steady(v)'
  BY <1>0, <1>9, SteadyOthers DEF SendLogout, Flying
<1>10. ASSUME NEW t \in Tabs, LogoutReply(t) \/ LogoutLost(t) PROVE Steady(v)'
  <2> DEFINE busy == Busy(t)
  <2>1. /\ call' = call /\ tab' = [tab EXCEPT ![t] = SignedOut(t)]
        /\ jar' \in {NoCopy, jar, Spent(jar, logout[t].copy)}
        /\ RevokeBy(t) \/ flight' = flight
    BY <1>10 DEF LogoutReply, LogoutLost, FinishLogout
  <2>2. logout[t].copy \in Copy
    BY DEF Typed, Logout
  <2>3. jar'.login \in {Nobody, jar.login}
    BY <2>1, <2>2, SpentType, NoCopyIsGood DEF Typed
  <2>4. \A x \in Waiters : /\ x \in Flying' => x \in Flying
                           /\ flight'[x].copy.login = flight[x].copy.login
    BY <2>1, <2>2, SpentEverywhere, SpentCopies DEF RevokeBy, Flying
  <2>5. CASE v # t
    <3>1. tab'[v] = tab[v]
      BY <2>1, <2>5 DEF Typed
    <3> QED
      BY <1>0, <2>1, <2>3, <2>4, <3>1, SteadyOthers
  <2>6. CASE v = t
    <3>1. busy \in BOOLEAN /\ tab[t] \in Tab
      BY DEF Busy, Typed
    <3>2. /\ tab'[t].shows = Nobody /\ tab'[t].access = Nobody /\ tab'[t].me = tab[t].me
          /\ tab'[t].mixed = busy
      <4> HIDE DEF busy
      <4>1. tab'[t] = [tab[t] EXCEPT !.shows = Nobody, !.access = Nobody, !.mixed = busy]
        BY <2>1 DEF SignedOut, busy, Typed
      <4> QED
        BY <3>1, <4>1 DEF Tab
    <3> SUFFICES ASSUME ~busy PROVE Steady(t)'
      BY <2>6, <3>2 DEF Steady
    <3>3. Of(t)' = {} /\ tab[t].me = Nobody
      BY <2>1 DEF Busy, Of
    <3> QED
      BY <3>2, <3>3 DEF Steady
  <2> QED
    BY <2>5, <2>6
<1>11. CASE UNCHANGED browserVars
  BY <1>0, <1>11, SteadyOthers DEF browserVars, Flying
<1> QED
  BY <1>1, <1>2, <1>3, <1>4, <1>5, <1>6, <1>7, <1>8, <1>9, <1>10, <1>11 DEF Next

-----------------------------------------------------------------------------
(* Theorems *)

LEMMA InitHolds == Init => IInv
<1> SUFFICES ASSUME Init PROVE IInv
  OBVIOUS
<1>1. Typed
  BY Defaults DEF Init, Typed, Session
<1>2. /\ \A w \in Waiters : call[w] = NoCall /\ flight[w] = NoFlight
      /\ \A t \in Tabs : tab[t] = NewTab /\ logout[t] = NoLogout
      /\ Flying = {} /\ jar = NoCopy
  BY DEF Init, Flying, NoFlight
<1>3. CallsInv
  BY <1>2, Constants DEF CallsInv, WaitersAwait, OneRefreshPerTab, QueueHasLeader, NoCall
<1>4. CopiesInv
  BY <1>2, NoCopyIsGood
     DEF CopiesInv, GoodCopies, GrantedIsNewest, SpentJarIsReplaced, RefreshesMeet, LogoutsMeet,
         NoFlight, NoLogout, Live, Logins, Nobody
<1>5. TabsInv
  <2> SUFFICES ASSUME NEW t \in Tabs PROVE Steady(t)
    BY DEF TabsInv
  <2>1. Of(t) = {}
    BY <1>2, Constants DEF Of, NoCall
  <2> QED
    BY <1>2, <2>1 DEF Steady, NewTab
<1> QED
  BY <1>1, <1>3, <1>4, <1>5 DEF IInv

LEMMA StepHolds == IInv /\ [Next]_browserVars => IInv'
BY StepTyped, StepCalls, StepCopies, StepTabs DEF IInv

LEMMA AlwaysIInv == Spec => []IInv
BY InitHolds, StepHolds, PTL DEF Spec

LEMMA IInvTypes == IInv => BrowserTypeOK
<1> SUFFICES ASSUME IInv PROVE BrowserTypeOK
  OBVIOUS
<1>1. ASSUME NEW c \in CopiesBut("none") PROVE c.spent \/ c.login \in LiveLogins
  <2>1. Good(c)
    BY DEF CopiesBut, IInv, CopiesInv, GoodCopies
  <2> QED
    BY <2>1 DEF Good, Live, LiveLogins
<1>2. ASSUME NEW w \in Waiters, flight[w].pc = "granted", NEW c \in CopiesBut(w)
      PROVE  c.spent \/ c.login # flight[w].copy.login
  BY <1>2 DEF CopiesBut, IInv, CopiesInv, GrantedIsNewest
<1> QED
  BY <1>1, <1>2 DEF BrowserTypeOK, IInv, Typed

\* Types, and at most one copy of a sign-in's refresh tokens can still be used,
\* the newest, for any number of tabs: rotation spends every other copy at once.
THEOREM BrowserTypeCorrect == Spec => []BrowserTypeOK
BY AlwaysIInv, IInvTypes, PTL

\* No api call waits in the queue of lib/api.ts for a refresh nobody is making.
THEOREM QueueAlwaysLed == Spec => []QueueHasLeader
<1>1. IInv => QueueHasLeader
  BY DEF IInv, CallsInv
<1> QED
  BY <1>1, AlwaysIInv, PTL

\* A tab acts as the account it shows, unless the cookie has been replaced behind
\* it or its sign-in met something of its former session.
THEOREM TabsActAsShown == Spec => []ActsAsShown
<1>1. IInv => ActsAsShown
  BY DEF IInv, TabsInv, Steady, ActsAsShown, Busy
<1> QED
  BY <1>1, AlwaysIInv, PTL

\* One tab alone never loses its session to its own refreshes: a refusal means the
\* session is over, or that another tab was refreshing too.
THEOREM RefusalsAreDeserved == Spec => RefusedOnlyWhenOver
<1> DEFINE Fair == \A w \in Flying : (flight[w].copy.login \in LiveLogins /\ ~flight[w].others)
                                        => ~RefreshRefused(w)
<1>1. IInv => Fair
  <2> SUFFICES ASSUME IInv, NEW w \in Flying, flight[w].copy.login \in LiveLogins,
                      ~flight[w].others, RefreshRefused(w)
               PROVE  FALSE
    OBVIOUS
  <2>1. flight[w].pc = "sent" /\ flight[w].copy.spent /\ Live(flight[w].copy.login)
    BY DEF RefreshRefused, MayRotate, LiveLogins, Live
  <2> QED
    BY <2>1 DEF IInv, CopiesInv, RefreshesMeet
<1>2. IInv => [Fair]_browserVars
  BY <1>1
<1> QED
  BY <1>2, AlwaysIInv, PTL DEF RefusedOnlyWhenOver

\* Signing out while nothing refreshes leaves no usable token in any copy.
THEOREM LogoutsEndSessions == Spec => LogoutEndsSession
<1> DEFINE Ends == \A t \in Tabs : (logout[t].pending /\ ~logout[t].met /\ LogoutReply(t))
                                      => logout[t].copy.login \notin LiveLogins'
<1>1. IInv => Ends
  <2> SUFFICES ASSUME IInv, NEW t \in Tabs, logout[t].pending, ~logout[t].met, LogoutReply(t)
               PROVE  logout[t].copy.login \notin LiveLogins'
    OBVIOUS
  <2> DEFINE l == logout[t].copy.login
  <2>1. logout[t].copy.spent => ~Live(l)
    BY DEF IInv, CopiesInv, LogoutsMeet
  <2>2. session' = Revoked(logout[t].copy) /\ session \in [Logins -> Session]
    BY DEF LogoutReply, RevokeBy, IInv, Typed
  <2>3. l \in Logins => session'[l] # "live"
    BY <2>1, <2>2 DEF Revoked, Live
  <2> QED
    BY <2>3 DEF LiveLogins
<1>2. IInv => [Ends]_browserVars
  BY <1>1
<1> QED
  BY <1>2, AlwaysIInv, PTL DEF LogoutEndsSession

-----------------------------------------------------------------------------
(* The page: its inductive invariant *)

Approval(t) == [type |-> "approval", token |-> t]
Outcomes == {Signal("done"), Signal("error")} \cup {Approval(t) : t \in Tokens}

\* What a stream may still bring before it has named its conversation, and after.
UnnamedWires == {<<Signal("conversation")>>}
    \cup {<<Signal("conversation"), e, Signal("end")>> : e \in Outcomes}
NamedWires == {<<>>, <<Signal("end")>>} \cup {<<e, Signal("end")>> : e \in Outcomes}

\* The run has not ended; it has, with e.
Unsettled(wire) == wire \in {<<>>, <<Signal("conversation")>>}
Brings(wire, e) == wire \in {<<e, Signal("end")>>, <<Signal("conversation"), e, Signal("end")>>}

PageTypeOK ==
    /\ active \in 0 .. created /\ skip \in BOOLEAN
    /\ asked \in 0 .. MaxQuestions /\ created \in 0 .. MaxConvs /\ tokens \in 0 .. MaxTokens
    /\ exists \subseteq 1 .. created /\ deleting \subseteq 1 .. created
    /\ screen \in [Questions -> Entry]
    /\ \A q \in Questions : (screen[q].card = "none") <=> (screen[q].token = None)
    /\ loads \in Seq(MessageLoad) /\ Len(loads) <= MaxLoads
    /\ stream \in [kind : {"none", "question", "review"}, q : 0 .. asked, conv : 0 .. created,
                   token : 0 .. MaxTokens, open : BOOLEAN, wire : UnnamedWires \cup NamedWires]
    /\ home \in [Questions -> 0 .. created]
    /\ db \in [Questions -> {"off", "asked", "answered"}]
    /\ paused \in [Convs -> 0 .. tokens]
    /\ run \in [q : 0 .. asked, conv : 0 .. created, was : 0 .. tokens]
    /\ due \subseteq Questions /\ excused \in BOOLEAN

\* What is not asked has no conversation, and what has none is not stored.
StoredOK ==
    /\ \A q \in Questions : q > asked => home[q] = None
    /\ \A q \in Questions : home[q] = None => db[q] = "off"

\* A load brings what belongs to its conversation.
LoadsOK ==
    \A i \in DOMAIN loads :
        /\ loads[i].conv <= created
        /\ \A q \in Questions : loads[i].rows[q] # "off" => home[q] = loads[i].conv

\* While a run goes on its thread is not paused, nothing of it waits to be
\* reviewed, and a stream for its question is the one it writes to.
RunOK ==
    \/ run = NoRun
    \/ /\ run.q # None /\ run.conv # None /\ run.conv = home[run.q]
       /\ paused[run.conv] = None /\ db[run.q] # "answered" /\ screen[run.q].card # "pending"
       /\ stream.q = run.q => stream.open /\ Unsettled(stream.wire)

\* Where a stream that is open stands: the page shows its conversation, or is
\* still to be told it, or never will be.
StreamStands ==
    \/ active = home[stream.q] /\ stream.wire \in NamedWires
    \/ /\ stream.wire \in UnnamedWires /\ stream.conv = active
       /\ stream.conv \in {None, home[stream.q]}
       /\ active = None => ~LoadUnderWay(home[stream.q])
    \/ stream.wire = Refusal
    \/ /\ stream.wire = <<Signal("end")>>
       /\ screen[stream.q].live => screen[stream.q].state = "failed"

StreamOK ==
    /\ ~Streaming => stream = NoStream
    /\ Streaming => stream.q # None
    /\ (Streaming /\ ~stream.open) => stream.wire = <<>> /\ db[stream.q] # "answered"
    /\ stream.kind = "review" => /\ home[stream.q] = active /\ stream.conv = active /\ active # None
                                 /\ stream.wire \in NamedWires
    /\ (stream.kind = "question" /\ ~stream.open) => home[stream.q] = None /\ stream.conv = active
    /\ (stream.kind = "question" /\ stream.open) => home[stream.q] # None /\ StreamStands
    /\ Brings(stream.wire, Signal("done")) => db[stream.q] = "answered"
    /\ (Streaming /\ db[stream.q] = "answered") =>
         Brings(stream.wire, Signal("done")) \/ stream.wire = <<Signal("end")>>
    /\ \A t \in Tokens : Brings(stream.wire, Approval(t)) =>
         (home[stream.q] \in exists => paused[home[stream.q]] = t)

\* One card waits for a review, and while a stream is open only its own.
CardsOK ==
    /\ \A q \in Questions : screen[q].card # "none" => screen[q].live /\ home[q] = active /\ active # None
    /\ \A q \in Questions : screen[q].card = "pending" =>
         /\ db[q] # "answered"
         /\ Streaming => q = stream.q /\ stream.open
         /\ \A p \in Questions : screen[p].card = "pending" => p = q
    /\ CardIsCurrent

\* What is shown has a conversation, the one the page is on, unless the stream
\* is still to tell it.
ScreenOwn ==
    \A q \in Questions : screen[q].state \in {"asked", "answered"} =>
        (home[q] = active /\ active # None) \/ (stream.q = q /\ screen[q].live)

\* Unless excused, the page has no stream while it loads what it shows, and the
\* one load of it brings every answer that is due.
LoadIsAlone ==
    /\ ~Streaming
    /\ \A q \in Questions : screen[q].card = "none"
    /\ \A i, j \in DOMAIN loads : (loads[i].conv = active /\ loads[j].conv = active) => i = j
    /\ \A i \in DOMAIN loads : (loads[i].conv = active /\ loads[i].read) =>
         \A q \in due : loads[i].rows[q] = "answered"

DueOK ==
    /\ \A q \in due : home[q] = active /\ active # None /\ db[q] = "answered"
    /\ (Streaming /\ ~excused) => screen[stream.q].live
    /\ (~excused /\ LoadUnderWay(active)) => LoadIsAlone
    /\ ScreenKeepsAnswers

PageInv ==
    /\ PageTypeOK
    /\ StoredOK
    /\ LoadsOK
    /\ RunOK
    /\ StreamOK
    /\ CardsOK
    /\ ScreenOwn
    /\ DueOK

-----------------------------------------------------------------------------
(* The page: what a stream brings *)

LEMMA OutcomeTypes ==
    ASSUME NEW e \in Outcomes
    PROVE  /\ e \in Event /\ e.type \in {"done", "error", "approval"}
           /\ e.type \in {"done", "error"} => e = Signal(e.type)
           /\ e.type = "approval" => e.token \in Tokens /\ e = Approval(e.token)
  BY DEF Outcomes, Signal, Approval, Event, Tokens, None

LEMMA SignalTypes ==
    /\ \A t \in {"conversation", "done", "error", "end"} :
         Signal(t) \in Event /\ Signal(t).type = t
  BY DEF Signal, Event, None

LEMMA OneThenTwo ==
    ASSUME NEW a, NEW b, NEW c
    PROVE  <<a>> \o <<b, c>> = <<a, b, c>>
<1> DEFINE S == {a, b, c}
<1>1. <<a>> \in Seq(S) /\ <<b, c>> \in Seq(S) /\ <<a, b, c>> \in Seq(S)
  OBVIOUS
<1>2. /\ Len(<<a>> \o <<b, c>>) = 3 /\ <<a>> \o <<b, c>> \in Seq(S)
      /\ \A i \in 1 .. 3 : (<<a>> \o <<b, c>>)[i] = IF i <= 1 THEN <<a>>[i] ELSE <<b, c>>[i - 1]
  BY <1>1, ConcatProperties
<1>3. \A i \in 1 .. 3 : (<<a>> \o <<b, c>>)[i] = <<a, b, c>>[i]
  BY <1>2
<1> HIDE DEF S
<1> QED
  BY <1>1, <1>2, <1>3, SeqEqual

LEMMA Writing ==
    ASSUME NEW wire, Unsettled(wire), NEW e \in Outcomes
    PROVE  /\ wire = <<>> => wire \o <<e, Signal("end")>> = <<e, Signal("end")>>
           /\ wire # <<>> => /\ wire = <<Signal("conversation")>>
                             /\ wire \o <<e, Signal("end")>> = <<Signal("conversation"), e, Signal("end")>>
<1>1. CASE wire = <<>>
  BY <1>1
<1>2. CASE wire = <<Signal("conversation")>>
  <2>1. wire # <<>>
    BY <1>2
  <2>2. wire \o <<e, Signal("end")>> = <<Signal("conversation"), e, Signal("end")>>
    BY <1>2, OneThenTwo
  <2> QED
    BY <1>2, <2>1, <2>2
<1> QED
  BY <1>1, <1>2 DEF Unsettled

LEMMA WireCases ==
    ASSUME NEW wire \in UnnamedWires \cup NamedWires
    PROVE  \/ wire = <<>>
           \/ wire = <<Signal("conversation")>> /\ Head(wire) = Signal("conversation") /\ Tail(wire) = <<>>
           \/ wire = <<Signal("end")>> /\ Head(wire) = Signal("end") /\ Tail(wire) = <<>>
           \/ \E e \in Outcomes : wire = <<e, Signal("end")>> /\ Head(wire) = e /\ Tail(wire) = <<Signal("end")>>
           \/ \E e \in Outcomes : /\ wire = <<Signal("conversation"), e, Signal("end")>>
                                  /\ Head(wire) = Signal("conversation") /\ Tail(wire) = <<e, Signal("end")>>
<1>1. CASE wire = <<>>
  BY <1>1
<1>2. CASE wire = <<Signal("conversation")>>
  BY <1>2
<1>3. CASE wire = <<Signal("end")>>
  BY <1>3
<1>4. ASSUME NEW e \in Outcomes, wire = <<e, Signal("end")>>
      PROVE  Head(wire) = e /\ Tail(wire) = <<Signal("end")>>
  BY <1>4
<1>5. ASSUME NEW e \in Outcomes, wire = <<Signal("conversation"), e, Signal("end")>>
      PROVE  Head(wire) = Signal("conversation") /\ Tail(wire) = <<e, Signal("end")>>
  BY <1>5
<1> QED
  BY <1>1, <1>2, <1>3, <1>4, <1>5, Zenon DEF UnnamedWires, NamedWires

LEMMA WireShapes ==
    /\ ~(<<>> \in UnnamedWires) /\ <<>> \in NamedWires /\ Unsettled(<<>>)
    /\ <<Signal("conversation")>> \in UnnamedWires /\ ~(<<Signal("conversation")>> \in NamedWires)
    /\ Unsettled(<<Signal("conversation")>>)
    /\ <<Signal("end")>> \in NamedWires /\ ~(<<Signal("end")>> \in UnnamedWires)
    /\ ~Unsettled(<<Signal("end")>>) /\ <<Signal("end")>> # <<>>
    /\ \A f : /\ ~Brings(<<>>, f) /\ ~Brings(<<Signal("conversation")>>, f)
              /\ ~Brings(<<Signal("end")>>, f)
<1>1. Signal("conversation") # Signal("end")
  BY DEF Signal
<1> QED
  BY <1>1 DEF UnnamedWires, NamedWires, Unsettled, Brings

LEMMA OutcomeShapes ==
    ASSUME NEW e \in Outcomes
    PROVE  /\ <<e, Signal("end")>> \in NamedWires /\ ~(<<e, Signal("end")>> \in UnnamedWires)
           /\ ~Unsettled(<<e, Signal("end")>>) /\ <<e, Signal("end")>> # <<Signal("end")>>
           /\ <<e, Signal("end")>> # <<>>
           /\ \A f : Brings(<<e, Signal("end")>>, f) <=> f = e
           /\ <<Signal("conversation"), e, Signal("end")>> \in UnnamedWires
           /\ ~(<<Signal("conversation"), e, Signal("end")>> \in NamedWires)
           /\ ~Unsettled(<<Signal("conversation"), e, Signal("end")>>)
           /\ <<Signal("conversation"), e, Signal("end")>> # <<Signal("end")>>
           /\ <<Signal("conversation"), e, Signal("end")>> # <<>>
           /\ \A f : Brings(<<Signal("conversation"), e, Signal("end")>>, f) <=> f = e
<1> DEFINE two == <<e, Signal("end")>>
           three == <<Signal("conversation"), e, Signal("end")>>
<1>1. /\ \A f, g : <<f, g>> # <<>> /\ \A h : <<f, g>> # <<h>> /\ \A i, j : <<f, g>> # <<h, i, j>>
      /\ \A f, g, h : <<f, g, h>> # <<>> /\ \A i : <<f, g, h>> # <<i>>
  OBVIOUS
<1>2. \A f, g : <<f, Signal("end")>> = <<g, Signal("end")>> <=> f = g
  OBVIOUS
<1>3. \A f, g : <<Signal("conversation"), f, Signal("end")>> = <<Signal("conversation"), g, Signal("end")>> <=> f = g
  OBVIOUS
<1>4. two \in NamedWires /\ three \in UnnamedWires
  BY DEF NamedWires, UnnamedWires
<1>5. ~(two \in UnnamedWires) /\ ~(three \in NamedWires)
  BY <1>1, Zenon DEF UnnamedWires, NamedWires
<1>6. ~Unsettled(two) /\ ~Unsettled(three) /\ two # <<Signal("end")>> /\ three # <<Signal("end")>>
  BY <1>1, Zenon DEF Unsettled
<1>7. \A f : Brings(two, f) <=> f = e
  BY <1>1, <1>2, Zenon DEF Brings
<1>8. \A f : Brings(three, f) <=> f = e
  BY <1>1, <1>3, Zenon DEF Brings
<1> QED
  BY <1>1, <1>4, <1>5, <1>6, <1>7, <1>8, Zenon

LEMMA RemovedLoad ==
    ASSUME NEW S, NEW s \in Seq(S), NEW i \in DOMAIN s
    PROVE  /\ RemoveAt(s, i) \in Seq(S) /\ Len(RemoveAt(s, i)) = Len(s) - 1
           /\ \A j \in DOMAIN RemoveAt(s, i) :
                RemoveAt(s, i)[j] = s[IF j < i THEN j ELSE j + 1]
<1>1. i \in 1 .. Len(s) /\ Len(s) \in Nat /\ \A j \in 1 .. Len(s) : s[j] \in S
  OBVIOUS
<1> DEFINE before == SubSeq(s, 1, i - 1)
           after == SubSeq(s, i + 1, Len(s))
<1>2. before \in Seq(S) /\ Len(before) = i - 1 /\ \A j \in 1 .. i - 1 : before[j] = s[j]
  BY <1>1, SubSeqProperties
<1>3. /\ after \in Seq(S) /\ Len(after) = Len(s) - i
      /\ \A j \in 1 .. Len(s) - i : after[j] = s[i + j]
  <2>1. \A j \in i + 1 .. Len(s) : s[j] \in S
    BY <1>1
  <2>2. /\ after \in Seq(S) /\ Len(after) = IF i + 1 <= Len(s) THEN Len(s) - (i + 1) + 1 ELSE 0
        /\ \A j \in 1 .. Len(s) - (i + 1) + 1 : after[j] = s[i + 1 + j - 1]
    BY <1>1, <2>1, SubSeqProperties
  <2> HIDE DEF after
  <2> QED
    BY <1>1, <2>2
<1>4. RemoveAt(s, i) = before \o after
  BY DEF RemoveAt
<1> HIDE DEF before, after
<1>5. /\ before \o after \in Seq(S) /\ Len(before \o after) = Len(before) + Len(after)
      /\ \A j \in 1 .. Len(before) + Len(after) :
            (before \o after)[j] = IF j <= Len(before) THEN before[j] ELSE after[j - Len(before)]
  BY <1>2, <1>3, ConcatProperties
<1>6. ASSUME NEW j \in 1 .. Len(s) - 1
      PROVE  (before \o after)[j] = s[IF j < i THEN j ELSE j + 1]
  <2>1. j \in 1 .. Len(before) + Len(after)
    BY <1>1, <1>2, <1>3
  <2>2. CASE j < i
    <3>1. (before \o after)[j] = before[j] /\ before[j] = s[j]
      BY <1>1, <1>2, <1>5, <2>1, <2>2
    <3> QED
      BY <2>2, <3>1
  <2>3. CASE ~(j < i)
    <3>1. (before \o after)[j] = after[j - (i - 1)]
      BY <1>1, <1>2, <1>5, <2>1, <2>3
    <3>2. j - (i - 1) \in 1 .. Len(s) - i /\ i + (j - (i - 1)) = j + 1
      BY <1>1, <2>3
    <3>3. after[j - (i - 1)] = s[i + (j - (i - 1))]
      BY <1>3, <3>2
    <3> QED
      BY <2>3, <3>1, <3>2, <3>3
  <2> QED
    BY <2>2, <2>3
<1>7. Len(before) + Len(after) = Len(s) - 1
  BY <1>1, <1>2, <1>3
<1> DEFINE removed == before \o after
<1>8. removed \in Seq(S) /\ Len(removed) = Len(s) - 1
  BY <1>5, <1>7
<1>9. \A j \in 1 .. Len(s) - 1 : removed[j] = s[IF j < i THEN j ELSE j + 1]
  BY <1>6
<1>10. RemoveAt(s, i) = removed
  BY <1>4
<1> HIDE DEF removed
<1>11. DOMAIN removed = 1 .. Len(s) - 1
  BY <1>1, <1>8
<1> QED
  BY <1>8, <1>9, <1>10, <1>11

\* t is s without its i-th.
Fewer(t, s, i) ==
    /\ Len(t) < Len(s)
    /\ \A j \in DOMAIN t : \E k \in DOMAIN s : k # i /\ t[j] = s[k]
    /\ \A k \in DOMAIN s : k # i => \E j \in DOMAIN t : t[j] = s[k]
    /\ \A j1, j2 \in DOMAIN t : j1 # j2 =>
         \E k1, k2 \in DOMAIN s : k1 # k2 /\ t[j1] = s[k1] /\ t[j2] = s[k2]

LEMMA FewerLoads ==
    ASSUME NEW S, NEW s \in Seq(S), NEW i \in DOMAIN s, NEW t, t = RemoveAt(s, i)
    PROVE  t \in Seq(S) /\ Fewer(t, s, i)
<1> DEFINE old(j) == IF j < i THEN j ELSE j + 1
<1>1. i \in 1 .. Len(s) /\ Len(s) \in Nat /\ DOMAIN s = 1 .. Len(s)
  OBVIOUS
<1>2. t \in Seq(S) /\ Len(t) = Len(s) - 1 /\ \A j \in DOMAIN t : t[j] = s[old(j)]
  BY RemovedLoad
<1>3. DOMAIN t = 1 .. Len(s) - 1
  BY <1>1, <1>2
<1>4. \A j \in 1 .. Len(s) - 1 : old(j) \in 1 .. Len(s) /\ old(j) # i
  BY <1>1
<1>5. \A j1, j2 \in 1 .. Len(s) - 1 : j1 # j2 => old(j1) # old(j2)
  BY <1>1
<1>6. ASSUME NEW k \in 1 .. Len(s), k # i
      PROVE  \E j \in 1 .. Len(s) - 1 : old(j) = k
  <2>1. CASE k < i
    BY <1>1, <1>6, <2>1
  <2>2. CASE ~(k < i)
    <3>1. k - 1 \in 1 .. Len(s) - 1 /\ old(k - 1) = k
      BY <1>1, <1>6, <2>2
    <3> QED
      BY <3>1
  <2> QED
    BY <2>1, <2>2
<1>7. Len(t) < Len(s)
  BY <1>1, <1>2
<1> HIDE DEF old
<1>8. \A j \in DOMAIN t : \E k \in DOMAIN s : k # i /\ t[j] = s[k]
  BY <1>1, <1>2, <1>3, <1>4
<1>9. \A k \in DOMAIN s : k # i => \E j \in DOMAIN t : t[j] = s[k]
  <2> TAKE k \in DOMAIN s
  <2> HAVE k # i
  <2>1. PICK j \in 1 .. Len(s) - 1 : old(j) = k
    BY <1>1, <1>6
  <2> QED
    BY <1>2, <1>3, <2>1
<1>10. \A j1, j2 \in DOMAIN t : j1 # j2 =>
         \E k1, k2 \in DOMAIN s : k1 # k2 /\ t[j1] = s[k1] /\ t[j2] = s[k2]
  BY <1>1, <1>2, <1>3, <1>4, <1>5
<1> QED
  BY <1>2, <1>7, <1>8, <1>9, <1>10 DEF Fewer

LEMMA PageParts ==
    PageInv => /\ PageTypeOK /\ StoredOK /\ LoadsOK /\ RunOK /\ StreamOK /\ CardsOK /\ ScreenOwn
               /\ DueOK
  BY DEF PageInv

LEMMA PageTypes ==
    ASSUME PageInv
    PROVE  /\ active \in 0 .. created /\ asked \in Nat /\ created \in Nat /\ tokens \in Nat
           /\ None \in 0 .. created /\ None \in 0 .. asked /\ None \in 0 .. MaxTokens /\ None = 0
           /\ None \notin Questions /\ 0 .. asked \subseteq 0 .. MaxQuestions /\ 1 .. created \subseteq Convs
           /\ {MaxConvs, MaxQuestions, MaxTokens, MaxLoads} \subseteq Nat \ {0}
           /\ exists \subseteq 1 .. created /\ deleting \subseteq 1 .. created
           /\ \A q \in Questions : /\ screen[q] \in Entry /\ home[q] \in 0 .. created
                                    /\ db[q] \in {"off", "asked", "answered"}
           /\ loads \in Seq(MessageLoad) /\ Len(loads) <= MaxLoads
           /\ \A i \in DOMAIN loads : /\ loads[i] \in MessageLoad /\ loads[i].conv \in 1 .. created
                                       /\ loads[i].conv # None
           /\ stream.q \in 0 .. asked /\ stream.conv \in 0 .. created
           /\ Streaming => stream.q \in Questions /\ stream.q # None
           /\ ~Streaming => stream = NoStream /\ stream.q = None
           /\ run # NoRun => run.q \in Questions /\ run.conv \in Convs /\ run.q # None /\ run.conv # None
           /\ \A c \in Convs : paused[c] \in 0 .. tokens
           /\ skip \in BOOLEAN /\ excused \in BOOLEAN /\ due \subseteq Questions
<1>1. {MaxConvs, MaxQuestions, MaxTokens, MaxLoads} \subseteq Nat \ {0}
  BY ChatAssumption
<1>2. PageTypeOK /\ LoadsOK /\ StreamOK /\ RunOK
  BY DEF PageInv
<1>3. /\ active \in 0 .. created /\ asked \in Nat /\ created \in Nat /\ tokens \in Nat
      /\ 0 \in 0 .. created /\ 0 \in 0 .. asked /\ 0 \in 0 .. MaxTokens
      /\ 0 .. asked \subseteq 0 .. MaxQuestions /\ 1 .. created \subseteq 1 .. MaxConvs
      /\ None \notin Questions
  BY SMTT(30), <1>1, <1>2 DEF PageTypeOK, None, Questions
<1>4. \A i \in DOMAIN loads : /\ loads[i] \in MessageLoad /\ loads[i].conv \in 1 .. created
                              /\ loads[i].conv # 0
  <2>1. \A i \in DOMAIN loads : loads[i] \in MessageLoad /\ loads[i].conv <= created
    BY <1>2 DEF PageTypeOK, LoadsOK
  <2> QED
    BY <1>1, <1>3, <2>1 DEF MessageLoad, Convs
<1>5. stream.q \in 0 .. asked /\ stream.conv \in 0 .. created
  BY <1>2 DEF PageTypeOK
<1>6. Streaming => stream.q \in Questions /\ stream.q # None
  BY <1>1, <1>2, <1>3, <1>5 DEF StreamOK, Questions, None
<1>7. ~Streaming => stream = NoStream /\ stream.q = None
  BY <1>2 DEF StreamOK, NoStream
<1>8. run # NoRun => run.q \in Questions /\ run.conv \in Convs /\ run.q # None /\ run.conv # None
  <2>1. run.q \in 0 .. asked /\ run.conv \in 0 .. created
    BY <1>2 DEF PageTypeOK
  <2> QED
    BY <1>1, <1>2, <1>3, <2>1 DEF RunOK, Questions, Convs, None
<1> QED
  BY <1>1, <1>2, <1>3, <1>4, <1>5, <1>6, <1>7, <1>8 DEF PageTypeOK, Convs, None

-----------------------------------------------------------------------------
(* The page: steps of the user *)

\* A question that is not shown.
LEMMA NothingShown ==
    /\ Blank \in [Questions -> Entry]
    /\ \A q \in Questions : /\ Blank[q].state = "off" /\ Blank[q].card = "none"
                            /\ Blank[q].token = None /\ Blank[q].live = FALSE
  BY DEF Blank, Shown, Entry

LEMMA Blanked ==
    ASSUME PageInv, screen' = Blank, stream' = NoStream,
           UNCHANGED <<asked, created, home, db, paused, run, tokens>>,
           exists' \subseteq exists, deleting' \subseteq 1 .. created,
           active' \in 0 .. created, skip' \in BOOLEAN, excused' \in BOOLEAN,
           loads' \in Seq(MessageLoad), Len(loads') <= MaxLoads, LoadsOK',
           due' \subseteq Questions,
           \A q \in due' : home[q] = active' /\ active' # None /\ db[q] = "answered",
           ~excused' => \/ due' = {} /\ ~LoadUnderWay(active)'
                        \/ /\ LoadUnderWay(active)'
                           /\ \A i \in DOMAIN loads' : loads'[i].conv = active' => ~loads'[i].read
                           /\ \A i, j \in DOMAIN loads' :
                                (loads'[i].conv = active' /\ loads'[j].conv = active') => i = j
    PROVE  PageInv'
<1>1. \A q \in Questions : /\ screen'[q].state = "off" /\ screen'[q].card = "none"
                           /\ screen'[q].token = None /\ screen'[q].live = FALSE
  BY NothingShown
<1>2. /\ stream' \in [kind : {"none", "question", "review"}, q : 0 .. asked, conv : 0 .. created,
                      token : 0 .. MaxTokens, open : BOOLEAN, wire : UnnamedWires \cup NamedWires]
      /\ stream'.kind = "none" /\ stream'.q = None /\ stream'.wire = <<>>
  <2>1. 0 \in 0 .. asked /\ 0 \in 0 .. created /\ 0 \in 0 .. MaxTokens
    BY ChatAssumption DEF PageInv, PageTypeOK
  <2> QED
    BY <2>1, WireShapes DEF NoStream, None
<1>3. PageTypeOK'
  <2>1. exists' \subseteq 1 .. created
    BY DEF PageInv, PageTypeOK
  <2> QED
    BY <1>1, <1>2, <2>1, NothingShown DEF PageInv, PageTypeOK
<1>4. StoredOK'
  BY DEF PageInv, StoredOK
<1>5. RunOK'
  BY <1>1, <1>2, PageTypes DEF PageInv, RunOK
<1>6. StreamOK'
  BY <1>2, WireShapes DEF StreamOK, Streaming
<1>7. CardsOK' /\ ScreenOwn'
  BY <1>1 DEF CardsOK, CardIsCurrent, ScreenOwn
<1>8. DueOK'
  <2>1. ~Streaming'
    BY <1>2 DEF Streaming
  <2>2. (~excused' /\ LoadUnderWay(active)') => LoadIsAlone'
    BY <1>1, <2>1 DEF LoadIsAlone
  <2>3. ScreenKeepsAnswers'
    BY DEF ScreenKeepsAnswers
  <2> QED
    BY <2>1, <2>2, <2>3 DEF DueOK
<1> QED
  BY <1>3, <1>4, <1>5, <1>6, <1>7, <1>8 DEF PageInv

LEMMA ShowsNothing ==
    ASSUME PageInv, ShowNothing, stream' = NoStream,
           UNCHANGED <<asked, server>>, deleting' \subseteq deleting
    PROVE  PageInv'
<1>1. /\ active' = None /\ loads' = loads /\ screen' = Blank /\ due' = {} /\ excused' = FALSE
      /\ skip' \in BOOLEAN /\ UNCHANGED <<asked, created, exists, home, db, paused, run, tokens>>
  BY DEF ShowNothing, ShowConversation, server, PageInv, PageTypeOK
<1>2. ~LoadUnderWay(active)'
  BY <1>1, PageTypes DEF LoadUnderWay
<1>3. LoadsOK'
  BY <1>1 DEF PageInv, LoadsOK
<1>4. deleting' \subseteq 1 .. created
  BY PageTypes
<1> QED
  BY <1>1, <1>2, <1>3, <1>4, PageTypes, Blanked

LEMMA LeavesPage ==
    ASSUME PageInv, Leave
    PROVE  PageInv'
<1>1. /\ active' = None /\ loads' = <<>> /\ screen' = Blank /\ due' = {} /\ excused' = FALSE
      /\ skip' = FALSE /\ stream' = NoStream /\ deleting' = {}
      /\ UNCHANGED <<asked, created, exists, home, db, paused, run, tokens>>
  BY DEF Leave, server
<1>2. loads' \in Seq(MessageLoad) /\ Len(loads') <= MaxLoads /\ ~LoadUnderWay(active)' /\ LoadsOK'
  BY <1>1, ChatAssumption DEF LoadUnderWay, LoadsOK
<1> QED
  BY <1>1, <1>2, PageTypes, Blanked

LEMMA SelectsConversation ==
    ASSUME PageInv, NEW c \in Convs, SelectConversation(c)
    PROVE  PageInv'
<1>1. /\ ~Streaming /\ c \in exists \cup deleting /\ ShowConversation(c, FALSE) /\ screen' = Blank
      /\ due' = {q \in Questions : home[q] = c /\ db[q] = "answered"}
      /\ excused' = (c = active \/ LoadUnderWay(c))
      /\ active' = c /\ skip' = FALSE
      /\ UNCHANGED <<stream, deleting, asked, created, exists, home, db, paused, run, tokens>>
  BY DEF SelectConversation, OpenConversation, ShowConversation, server
<1>2. /\ c \in 1 .. created /\ c # None /\ stream' = NoStream
  BY <1>1 DEF PageInv, PageTypeOK, StreamOK, None
<1>3. /\ excused' \in BOOLEAN /\ skip' \in BOOLEAN /\ exists' \subseteq exists /\ due' \subseteq Questions
      /\ \A q \in due' : home[q] = active' /\ active' # None /\ db[q] = "answered"
  BY <1>1, <1>2
<1>4. active' \in 0 .. created /\ deleting' \subseteq 1 .. created
  BY <1>1, <1>2, PageTypes
<1>5. CASE c = active
  <2>1. loads' = loads /\ excused'
    BY <1>1, <1>5 DEF ShowConversation
  <2>2. LoadsOK'
    BY <1>1, <2>1 DEF PageInv, LoadsOK
  <2> QED
    BY <1>3, <1>4, <1>1, <1>2, <2>1, <2>2, PageTypes, Blanked
<1>6. CASE c # active
  <2> DEFINE new == [conv |-> c, read |-> FALSE, rows |-> [q \in Questions |-> "off"]]
  <2>1. Len(loads) < MaxLoads /\ loads' = Append(loads, new)
    BY <1>1, <1>2, <1>6 DEF ShowConversation
  <2>2. new \in MessageLoad /\ new.conv = c /\ ~new.read /\ \A q \in Questions : new.rows[q] = "off"
    BY DEF MessageLoad
  <2> HIDE DEF new
  <2>3. loads \in Seq(MessageLoad) /\ Len(loads) \in Nat /\ MaxLoads \in Nat
    BY ChatAssumption DEF PageInv, PageTypeOK
  <2>4. /\ loads' \in Seq(MessageLoad) /\ Len(loads') = Len(loads) + 1 /\ Len(loads') <= MaxLoads
        /\ loads'[Len(loads) + 1] = new
        /\ \A i \in DOMAIN loads : loads'[i] = loads[i]
        /\ \A i \in DOMAIN loads' : i \in DOMAIN loads \/ i = Len(loads) + 1
        /\ Len(loads) + 1 \in DOMAIN loads'
    BY <2>1, <2>2, <2>3
  <2>5. LoadsOK'
    <3>1. \A i \in DOMAIN loads : /\ loads'[i].conv <= created'
                                  /\ \A q \in Questions : loads'[i].rows[q] # "off" => home'[q] = loads'[i].conv
      BY <1>1, <2>4 DEF PageInv, LoadsOK
    <3>2. new.conv <= created
      BY <1>2, <2>2, PageTypes
    <3> QED
      BY <1>1, <2>2, <2>4, <3>1, <3>2 DEF LoadsOK
  <2>6. ~excused' => /\ LoadUnderWay(active)'
                     /\ \A i \in DOMAIN loads' : loads'[i].conv = c => i = Len(loads) + 1
    BY <1>1, <2>2, <2>4 DEF LoadUnderWay
  <2> QED
    <3>1. ~excused' => /\ LoadUnderWay(active)'
                       /\ \A i \in DOMAIN loads' : loads'[i].conv = active' => ~loads'[i].read
                       /\ \A i, j \in DOMAIN loads' :
                            (loads'[i].conv = active' /\ loads'[j].conv = active') => i = j
      BY <1>1, <2>2, <2>4, <2>6
    <3> QED
      BY <1>3, <1>4, <1>1, <1>2, <2>4, <2>5, <3>1, Blanked
<1> QED
  BY <1>5, <1>6

\* Nothing happens but to a card's buttons or to the list of conversations.
LEMMA PageStays ==
    ASSUME PageInv, UNCHANGED <<active, skip, loads, stream, asked, created, home, db, paused,
                                run, tokens, due, excused>>,
           exists' \subseteq exists, deleting' \subseteq 1 .. created, screen' \in [Questions -> Entry],
           \A q \in Questions : /\ screen'[q].state = screen[q].state
                                /\ screen'[q].live = screen[q].live
                                /\ screen'[q].card = screen[q].card
                                /\ screen'[q].token = screen[q].token
    PROVE  PageInv'
<1>1. PageTypeOK'
  <2>1. exists' \subseteq 1 .. created
    BY PageTypes
  <2> QED
    BY <2>1 DEF PageInv, PageTypeOK
<1>2. StoredOK' /\ LoadsOK'
  BY DEF PageInv, StoredOK, LoadsOK
<1>3. RunOK'
  BY PageParts, PageTypes DEF RunOK
<1>4. StreamOK'
  <2>1. LoadUnderWay(home[stream.q])' <=> LoadUnderWay(home[stream.q])
    BY DEF LoadUnderWay
  <2>2. Streaming /\ StreamStands => StreamStands'
    BY <2>1, PageTypes DEF StreamStands
  <2> QED
    BY <2>2, PageParts, PageTypes DEF StreamOK, Streaming
<1>5. CardsOK'
  BY DEF PageInv, CardsOK, CardIsCurrent, Streaming
<1>6. ScreenOwn'
  BY DEF PageInv, ScreenOwn
<1>7. DueOK'
  <2>1. LoadUnderWay(active)' <=> LoadUnderWay(active)
    BY DEF LoadUnderWay
  <2>2. LoadIsAlone => LoadIsAlone'
    BY DEF LoadIsAlone, Streaming
  <2>3. ScreenKeepsAnswers'
    BY <2>1, PageParts, PageTypes DEF DueOK, ScreenKeepsAnswers
  <2>4. (Streaming /\ ~excused)' => screen'[stream'.q].live
    BY PageParts, PageTypes DEF DueOK, Streaming
  <2> QED
    BY <2>1, <2>2, <2>3, <2>4 DEF PageInv, DueOK
<1> QED
  BY <1>1, <1>2, <1>3, <1>4, <1>5, <1>6, <1>7 DEF PageInv

LEMMA DeletesConversation ==
    ASSUME PageInv, NEW c \in Convs, DeleteConversation(c) \/ DeletionReturns(c)
    PROVE  PageInv'
<1>1. CASE DeleteConversation(c)
  <2>1. /\ exists' \subseteq exists /\ deleting' \subseteq 1 .. created
        /\ UNCHANGED <<active, skip, screen, loads, stream, asked, created, home, db, paused,
                       run, tokens, due, excused>>
    BY <1>1, PageTypes DEF DeleteConversation, page, history
  <2> QED
    BY <2>1, PageParts, PageStays DEF PageTypeOK
<1>2. CASE DeletionReturns(c)
  <2>1. deleting' \subseteq deleting /\ UNCHANGED <<stream, asked, server>>
    BY <1>2 DEF DeletionReturns
  <2>2. CASE active = c /\ ~Streaming
    <3>1. ShowNothing /\ stream' = NoStream
      BY <1>2, <2>1, <2>2, PageTypes DEF DeletionReturns
    <3> QED
      BY <2>1, <3>1, ShowsNothing
  <2>3. CASE ~(active = c /\ ~Streaming)
    <3>1. /\ UNCHANGED <<active, skip, screen, loads, stream, asked, created, exists, home, db, paused,
                         run, tokens, due, excused>>
          /\ deleting' \subseteq 1 .. created
      BY <1>2, <2>1, <2>3, PageTypes DEF DeletionReturns, history, server
    <3> QED
      BY <3>1, PageParts, PageStays DEF PageTypeOK
  <2> QED
    BY <2>2, <2>3
<1> QED
  BY <1>1, <1>2

LEMMA AsksQuestion ==
    ASSUME PageInv, NEW saved \in BOOLEAN, AskQuestion(saved)
    PROVE  PageInv'
<1> DEFINE q == asked + 1
           entry == [Shown("asked") EXCEPT !.live = TRUE]
           conv == IF saved THEN None ELSE active
<1>1. /\ ~Streaming /\ asked < MaxQuestions /\ asked' = q /\ ~PendingCard
      /\ stream' = [NoStream EXCEPT !.kind = "question", !.q = q, !.conv = conv]
      /\ UNCHANGED <<deleting, created, exists, home, db, paused, run, tokens>>
  BY DEF AskQuestion, SendQuestion, server
<1>2. q \in Questions /\ home[q] = None /\ db[q] = "off" /\ q > asked
  BY <1>1, PageParts, PageTypes DEF StoredOK, Questions
<1>3. /\ entry \in Entry /\ entry.state = "asked" /\ entry.live = TRUE /\ entry.card = "none"
      /\ entry.token = None
  BY DEF Shown, Entry
<1>4. /\ stream' \in [kind : {"none", "question", "review"}, q : 0 .. q, conv : 0 .. created,
                      token : 0 .. MaxTokens, open : BOOLEAN, wire : UnnamedWires \cup NamedWires]
      /\ stream'.kind = "question" /\ stream'.q = q /\ stream'.wire = <<>> /\ ~stream'.open
      /\ stream'.conv = conv
  <2>1. conv \in 0 .. created /\ q \in 0 .. q /\ None \in 0 .. MaxTokens
    BY <1>2, PageTypes DEF Questions
  <2> QED
    BY <1>1, <2>1, WireShapes DEF NoStream
<1>5. /\ active' = conv /\ skip' \in BOOLEAN /\ loads' = loads
      /\ screen' \in [Questions -> Entry] /\ due' \subseteq due /\ excused' \in BOOLEAN
      /\ screen'[q] = entry
      /\ \A p \in Questions \ {q} : screen'[p] = IF saved THEN Blank[p] ELSE screen[p]
      /\ ~saved => due' = due
      /\ saved => due' = {}
      /\ LoadUnderWay(conv) => excused'
      /\ ~excused' => saved \/ ~excused
  <2>1. CASE saved
    <3>1. /\ ShowConversation(None, skip) /\ screen' = [Blank EXCEPT ![q] = entry]
          /\ due' = {} /\ excused' = FALSE
      BY <2>1 DEF AskQuestion, SendQuestion
    <3>2. active' = None /\ loads' = loads /\ skip' \in BOOLEAN
      BY <3>1, PageTypes DEF ShowConversation
    <3>3. ~LoadUnderWay(None)
      BY PageTypes DEF LoadUnderWay
    <3> HIDE DEF entry
    <3> QED
      BY <1>2, <1>3, <2>1, <3>1, <3>2, <3>3, NothingShown
  <2>2. CASE ~saved
    <3>1. /\ screen' = [screen EXCEPT ![q] = entry] /\ excused' = (excused \/ LoadUnderWay(active))
          /\ UNCHANGED <<active, skip, loads, due>>
      BY <2>2 DEF AskQuestion, SendQuestion
    <3> HIDE DEF entry
    <3>2. screen \in [Questions -> Entry]
      BY DEF PageInv, PageTypeOK
    <3> QED
      BY <1>2, <1>3, <2>2, <3>1, <3>2, PageTypes
  <2> QED
    BY <2>1, <2>2
<1>6. /\ \A p \in Questions : screen'[p].card # "pending"
      /\ \A p \in Questions : screen'[p].card # "none" => p # q /\ ~saved /\ screen'[p] = screen[p]
      /\ \A p \in Questions \ {q} : screen'[p].state # "off" => ~saved /\ screen'[p] = screen[p]
  <2>1. \A p \in Questions : screen[p].card # "pending"
    BY <1>1 DEF PendingCard
  <2>2. /\ screen'[q].card = "none"
        /\ \A p \in Questions \ {q} : screen'[p] = IF saved THEN Blank[p] ELSE screen[p]
    BY <1>3, <1>5
  <2> HIDE DEF entry, q, conv
  <2>3. \A p \in Questions \ {q} : saved => screen'[p].card = "none" /\ screen'[p].state = "off"
    BY <2>2, NothingShown
  <2>4. \A p \in Questions \ {q} : ~saved => screen'[p] = screen[p]
    BY <2>2
  <2> QED
    BY <2>1, <2>2, <2>3, <2>4
<1>7. Streaming'
  BY <1>4 DEF Streaming
<1>8. conv \in 0 .. created /\ q \in Nat
  BY <1>2, PageTypes DEF Questions
<1> HIDE DEF entry, q, conv
<1>9. PageTypeOK'
  <2>1. \A p \in Questions : (screen'[p].card = "none") <=> (screen'[p].token = None)
    BY <1>2, <1>3, <1>5, NothingShown DEF PageInv, PageTypeOK
  <2>2. q \in 0 .. MaxQuestions /\ 0 .. asked \subseteq 0 .. q
    BY <1>2, PageTypes DEF Questions, q
  <2>3. run' \in [q : 0 .. q, conv : 0 .. created, was : 0 .. tokens]
    BY <1>1, <2>2 DEF PageInv, PageTypeOK
  <2> QED
    BY <1>1, <1>4, <1>5, <1>8, <2>1, <2>2, <2>3, PageParts, PageTypes DEF PageTypeOK
<1>10. StoredOK' /\ LoadsOK'
  <2>1. \A p \in Questions : p > q => p > asked
    BY PageTypes DEF Questions, q
  <2> QED
    BY <1>1, <1>5, <2>1 DEF PageInv, StoredOK, LoadsOK
<1>11. RunOK'
  <2>1. run # NoRun => run.q # q
    BY <1>2, PageParts, PageTypes DEF PageTypeOK
  <2> QED
    BY <1>1, <1>4, <1>6, <2>1, PageParts, PageTypes DEF RunOK
<1>12. StreamOK'
  BY <1>1, <1>2, <1>4, <1>5, <1>7, WireShapes, PageTypes DEF StreamOK
<1>13. CardsOK'
  BY <1>1, <1>5, <1>6 DEF PageInv, CardsOK, CardIsCurrent, conv
<1>14. ScreenOwn'
  <2>1. \A p \in Questions : screen[p].state \in {"asked", "answered"} => home[p] = active /\ active # None
    BY <1>1, PageParts, PageTypes DEF ScreenOwn
  <2> QED
    BY <1>1, <1>2, <1>3, <1>4, <1>5, <1>6, <2>1 DEF ScreenOwn, conv
<1>15. DueOK'
  <2>1. LoadUnderWay(active)' => excused'
    BY <1>5 DEF LoadUnderWay
  <2>2. q \notin due'
    BY <1>2, <1>5 DEF PageInv, DueOK
  <2>3. ScreenKeepsAnswers'
    <3> SUFFICES ASSUME ~excused', NEW p \in due', home[p] \in exists
                 PROVE  screen'[p].state = "answered"
      BY <1>1 DEF ScreenKeepsAnswers
    <3>1. ~saved /\ ~excused /\ p \in due /\ p \in Questions \ {q}
      BY <1>5, <2>2, PageTypes
    <3>2. ~LoadUnderWay(active)
      BY <1>5, <3>1 DEF conv
    <3>3. screen[p].state = "answered"
      BY <3>1, <3>2 DEF PageInv, DueOK, ScreenKeepsAnswers
    <3> QED
      BY <1>5, <3>1, <3>3
  <2>4. \A p \in due' : home'[p] = active' /\ active' # None /\ db'[p] = "answered"
    BY <1>1, <1>5 DEF PageInv, DueOK, conv
  <2> QED
    BY <1>3, <1>4, <1>5, <2>1, <2>3, <2>4 DEF DueOK
<1> QED
  BY <1>9, <1>10, <1>11, <1>12, <1>13, <1>14, <1>15 DEF PageInv

LEMMA ReviewsBusy ==
    ASSUME PageInv, NEW q \in Questions, Review(q), Streaming
    PROVE  PageInv'
<1> DEFINE entry == [screen[q] EXCEPT !.submitting = TRUE]
<1>1. /\ screen' = [screen EXCEPT ![q] = entry]
      /\ UNCHANGED <<active, skip, loads, stream, deleting, asked, created, exists, home, db, paused,
                     run, tokens, due, excused>>
  BY DEF Review, server, history
<1>2. /\ entry \in Entry /\ entry.state = screen[q].state /\ entry.live = screen[q].live
      /\ entry.card = screen[q].card /\ entry.token = screen[q].token
  BY PageTypes DEF Entry
<1> HIDE DEF entry
<1>3. screen \in [Questions -> Entry]
  BY PageParts DEF PageTypeOK
<1>4. \A p \in Questions : screen'[p] = IF p = q THEN entry ELSE screen[p]
  BY <1>1, <1>3
<1> QED
  BY <1>1, <1>2, <1>3, <1>4, PageTypes, PageStays

LEMMA ReviewsIdle ==
    ASSUME PageInv, NEW q \in Questions, Review(q), ~Streaming
    PROVE  PageInv'
<1> DEFINE entry == [screen[q] EXCEPT !.submitting = TRUE, !.card = "decided"]
<1>1. /\ screen' = [screen EXCEPT ![q] = entry] /\ screen[q].card = "pending"
      /\ stream' = [NoStream EXCEPT !.kind = "review", !.q = q, !.conv = home[q],
                                    !.token = screen[q].token]
      /\ UNCHANGED <<active, skip, loads, deleting, asked, created, exists, home, db, paused,
                     run, tokens, due, excused>>
  BY DEF Review, server, history
<1>2. /\ screen[q].live /\ home[q] = active /\ active # None /\ db[q] # "answered"
      /\ \A p \in Questions : screen[p].card = "pending" => p = q
      /\ q \in 0 .. asked
  <2>1. q <= asked
    BY <1>1, PageParts, PageTypes DEF CardsOK, StoredOK, Questions
  <2> QED
    BY <1>1, <2>1, PageParts, PageTypes DEF CardsOK, Questions
<1>3. /\ entry \in Entry /\ entry.state = screen[q].state /\ (entry.live <=> screen[q].live)
      /\ entry.card = "decided" /\ entry.token = screen[q].token
  BY PageTypes DEF Entry
<1>4. screen \in [Questions -> Entry] /\ screen[q].token # None
  BY <1>1, PageParts DEF PageTypeOK
<1>5. /\ stream' \in [kind : {"none", "question", "review"}, q : 0 .. asked, conv : 0 .. created,
                      token : 0 .. MaxTokens, open : BOOLEAN, wire : UnnamedWires \cup NamedWires]
      /\ stream'.kind = "review" /\ stream'.q = q /\ stream'.wire = <<>> /\ ~stream'.open
      /\ stream'.conv = home[q]
  <2>1. home[q] \in 0 .. created /\ screen[q].token \in 0 .. MaxTokens
    BY PageTypes DEF Entry, Tokens
  <2> QED
    BY <1>1, <1>2, <2>1, WireShapes DEF NoStream
<1> HIDE DEF entry
<1>6. \A p \in Questions : screen'[p] = IF p = q THEN entry ELSE screen[p]
  BY <1>1, <1>4
<1>7. Streaming' /\ \A p \in Questions : screen'[p].card # "pending"
  BY <1>2, <1>3, <1>5, <1>6 DEF Streaming
<1>8. PageTypeOK'
  <2>1. screen' \in [Questions -> Entry]
    BY <1>1, <1>3, <1>4
  <2>2. \A p \in Questions : (screen'[p].card = "none") <=> (screen'[p].token = None)
    BY <1>3, <1>4, <1>6, PageParts DEF PageTypeOK
  <2> QED
    BY <1>1, <1>5, <2>1, <2>2, PageParts DEF PageTypeOK
<1>9. StoredOK' /\ LoadsOK'
  BY <1>1, PageParts DEF StoredOK, LoadsOK
<1>10. RunOK'
  <2>1. run # NoRun => run.q # q
    BY <1>1, PageParts DEF RunOK
  <2> QED
    BY <1>1, <1>5, <1>7, <2>1, PageParts, PageTypes DEF RunOK
<1>11. StreamOK'
  BY <1>1, <1>2, <1>5, <1>7, WireShapes, PageTypes DEF StreamOK
<1>12. CardsOK'
  <2>1. \A p \in Questions : screen'[p].card # "none" => screen'[p].live /\ home'[p] = active' /\ active' # None
    BY <1>1, <1>2, <1>3, <1>6, PageParts DEF CardsOK
  <2>2. CardIsCurrent'
    BY <1>7 DEF CardIsCurrent
  <2> QED
    BY <1>7, <2>1, <2>2 DEF CardsOK
<1>13. ScreenOwn'
  BY <1>1, <1>3, <1>6, PageParts, PageTypes DEF ScreenOwn
<1>14. DueOK'
  <2>1. (LoadUnderWay(active) <=> LoadUnderWay(active)') /\ active' = active /\ excused' = excused
    BY <1>1 DEF LoadUnderWay
  <2>2. ~(~excused /\ LoadUnderWay(active))
    BY <1>1, PageParts DEF DueOK, LoadIsAlone
  <2>3. ScreenKeepsAnswers'
    BY <1>1, <1>3, <1>6, <2>1, PageParts, PageTypes DEF DueOK, ScreenKeepsAnswers
  <2>4. screen'[stream'.q].live
    BY <1>2, <1>3, <1>5, <1>6
  <2> QED
    BY <1>1, <2>1, <2>2, <2>3, <2>4, PageParts DEF DueOK
<1> QED
  BY <1>8, <1>9, <1>10, <1>11, <1>12, <1>13, <1>14 DEF PageInv

-----------------------------------------------------------------------------
(* The page: message loads *)

LEMMA MessagesRead ==
    ASSUME PageInv, NEW i \in DOMAIN loads, ReadMessages(i)
    PROVE  PageInv'
<1> DEFINE c == loads[i].conv
           rows == [q \in Questions |-> IF home[q] = c THEN db[q] ELSE "off"]
           new == [loads[i] EXCEPT !.read = TRUE, !.rows = rows]
<1>1. /\ loads' = [loads EXCEPT ![i] = new]
      /\ UNCHANGED <<active, skip, screen, stream, deleting, asked, created, exists, home, db, paused,
                     run, tokens, due, excused>>
  BY DEF ReadMessages, server, history
<1>2. loads[i] \in MessageLoad /\ rows \in [Questions -> {"off", "asked", "answered"}]
  BY PageTypes
<1>3. new \in MessageLoad /\ new.conv = c /\ new.rows = rows
  BY <1>2 DEF MessageLoad
<1>4. \A q \in Questions : rows[q] = IF home[q] = c THEN db[q] ELSE "off"
  OBVIOUS
<1> HIDE DEF new, rows
<1>5. /\ loads' \in Seq(MessageLoad) /\ Len(loads') = Len(loads) /\ DOMAIN loads' = DOMAIN loads
      /\ \A j \in DOMAIN loads : loads'[j] = IF j = i THEN new ELSE loads[j]
  BY <1>1, <1>3, PageTypes
<1>6. PageTypeOK' /\ StoredOK' /\ RunOK' /\ CardsOK' /\ ScreenOwn'
  <2>1. PageTypeOK'
    BY <1>1, <1>5, PageParts DEF PageTypeOK
  <2>2. StoredOK' /\ RunOK'
    BY <1>1, PageParts DEF StoredOK, RunOK
  <2>3. CardsOK' /\ ScreenOwn'
    BY <1>1, PageParts DEF CardsOK, CardIsCurrent, ScreenOwn, Streaming
  <2> QED
    BY <2>1, <2>2, <2>3
<1>7. LoadsOK'
  BY <1>1, <1>3, <1>4, <1>5, PageParts DEF LoadsOK
<1>9. LoadUnderWay(active)' <=> LoadUnderWay(active)
  BY <1>1, <1>3, <1>5 DEF LoadUnderWay
<1>10. StreamOK'
  <2>1. StreamStands => StreamStands'
    BY <1>1, <1>3, <1>5 DEF StreamStands, LoadUnderWay
  <2> QED
    BY <1>1, <2>1, PageParts DEF StreamOK, Streaming
<1>11. DueOK'
  <2>1. LoadIsAlone => LoadIsAlone'
    <3>1. \A q \in due : home[q] = active /\ db[q] = "answered" /\ q \in Questions
      BY PageParts, PageTypes DEF DueOK
    <3> QED
      BY <1>1, <1>3, <1>4, <1>5, <3>1 DEF LoadIsAlone, Streaming
  <2>2. ScreenKeepsAnswers'
    BY <1>1, <1>9, PageParts DEF DueOK, ScreenKeepsAnswers
  <2> QED
    BY <1>1, <1>9, <2>1, <2>2, PageParts DEF DueOK, Streaming
<1> QED
  BY <1>6, <1>7, <1>10, <1>11 DEF PageInv

\* The rows that have arrived, in place of what was shown.
LEMMA RowsShown ==
    ASSUME PageInv, NEW i \in DOMAIN loads, ShowMessages(i)
    PROVE  /\ screen' \in [Questions -> Entry]
           /\ \A q \in Questions : /\ screen'[q].state = loads[i].rows[q] /\ ~screen'[q].live
                                   /\ screen'[q].card = "none" /\ screen'[q].token = None
           /\ \A q \in Questions : screen'[q].state # "off" => home[q] = loads[i].conv
<1>1. loads[i].rows \in [Questions -> {"off", "asked", "answered"}]
  BY PageTypes DEF MessageLoad
<1>2. \A state \in {"off", "asked", "answered"} :
        /\ Shown(state) \in Entry /\ Shown(state).state = state /\ ~Shown(state).live
        /\ Shown(state).card = "none" /\ Shown(state).token = None
  BY DEF Shown, Entry
<1>3. screen' = [q \in Questions |-> Shown(loads[i].rows[q])]
  BY DEF ShowMessages
<1>4. \A q \in Questions : loads[i].rows[q] # "off" => home[q] = loads[i].conv
  BY PageParts DEF LoadsOK
<1> QED
  BY <1>1, <1>2, <1>3, <1>4

\* A load that has ended, with or without what it has read.
LEMMA LoadEnds ==
    ASSUME PageInv, NEW i \in DOMAIN loads, MessagesArrive(i) \/ LoadFails(i)
    PROVE  PageInv'
<1>1. /\ loads' = RemoveAt(loads, i)
      /\ UNCHANGED <<active, skip, stream, deleting, asked, created, exists, home, db, paused,
                     run, tokens, due>>
  BY DEF MessagesArrive, LoadFails, server, history
<1>2. /\ loads' \in Seq(MessageLoad) /\ Len(loads') < Len(loads)
      /\ \A j \in DOMAIN loads' : \E k \in DOMAIN loads : k # i /\ loads'[j] = loads[k]
      /\ \A k \in DOMAIN loads : k # i => \E j \in DOMAIN loads' : loads'[j] = loads[k]
      /\ \A j1, j2 \in DOMAIN loads' : j1 # j2 =>
           \E k1, k2 \in DOMAIN loads : k1 # k2 /\ loads'[j1] = loads[k1] /\ loads'[j2] = loads[k2]
  <2>1. loads \in Seq(MessageLoad)
    BY PageTypes
  <2>2. loads' \in Seq(MessageLoad) /\ Fewer(loads', loads, i)
    BY <1>1, <2>1, FewerLoads
  <2> QED
    BY <2>2 DEF Fewer
<1>3. excused' \in BOOLEAN /\ (excused => excused')
  <2>1. CASE MessagesArrive(i)
    BY <2>1, PageTypes DEF MessagesArrive, history
  <2>2. CASE LoadFails(i)
    <3>1. excused' = (excused \/ active = loads[i].conv)
      BY <2>2 DEF LoadFails
    <3> QED
      BY <3>1
  <2> QED
    BY <2>1, <2>2
<1>4. /\ screen' \in [Questions -> Entry]
      /\ screen' = screen \/ (active = loads[i].conv /\ ShowMessages(i) /\ loads[i].read)
  <2>1. screen \in [Questions -> Entry]
    BY PageParts DEF PageTypeOK
  <2>2. CASE LoadFails(i)
    BY <2>1, <2>2 DEF LoadFails
  <2>3. CASE MessagesArrive(i)
    BY <2>1, <2>3, RowsShown DEF MessagesArrive
  <2> QED
    BY <2>2, <2>3
<1>5. loads[i].conv # None /\ (active = loads[i].conv => LoadUnderWay(active))
  BY PageTypes DEF LoadUnderWay
<1>6. \A q \in Questions :
        \/ screen'[q] = screen[q]
        \/ /\ ~screen'[q].live /\ screen'[q].card = "none" /\ screen'[q].token = None
           /\ screen'[q].state # "off" => home[q] = active
           /\ screen'[q].state # "failed" /\ active # None /\ LoadUnderWay(active)
  <2>1. \A q \in Questions : loads[i].rows[q] # "failed"
    BY PageTypes DEF MessageLoad
  <2> QED
    BY <1>4, <1>5, <2>1, RowsShown
<1>7. LoadUnderWay(active)' => LoadUnderWay(active)
  BY <1>1, <1>2 DEF LoadUnderWay
<1>8. PageTypeOK'
  <2>1. \A q \in Questions : (screen'[q].card = "none") <=> (screen'[q].token = None)
    BY <1>6, PageParts DEF PageTypeOK
  <2>2. Len(loads') <= MaxLoads
    BY <1>2, PageTypes
  <2> QED
    BY <1>1, <1>2, <1>3, <1>4, <2>1, <2>2, PageParts DEF PageTypeOK
<1>9. StoredOK' /\ LoadsOK'
  <2>1. StoredOK'
    BY <1>1, PageParts DEF StoredOK
  <2>2. LoadsOK'
    BY <1>1, <1>2, PageParts DEF LoadsOK
  <2> QED
    BY <2>1, <2>2
<1>10. RunOK'
  BY <1>1, <1>6, PageParts, PageTypes DEF RunOK
<1>11. StreamOK'
  <2>1. LoadUnderWay(home[stream.q])' => LoadUnderWay(home[stream.q])
    BY <1>1, <1>2 DEF LoadUnderWay
  <2>2. Streaming => (StreamStands => StreamStands')
    BY <1>1, <1>6, <2>1, PageTypes DEF StreamStands
  <2> QED
    BY <1>1, <2>2, PageParts DEF StreamOK, Streaming
<1>12. CardsOK'
  <2>1. \A q \in Questions : screen'[q].card # "none" => screen'[q] = screen[q]
    BY <1>6
  <2> QED
    BY <1>1, <2>1, PageParts DEF CardsOK, CardIsCurrent, Streaming
<1>13. ScreenOwn'
  BY <1>1, <1>6, PageParts DEF ScreenOwn
<1>14. DueOK'
  <2>1. (Streaming /\ ~excused)' => screen'[stream'.q].live
    <3>1. Streaming /\ ~excused => ~LoadUnderWay(active)
      BY PageParts DEF DueOK, LoadIsAlone
    <3> QED
      BY <1>1, <1>3, <1>6, <3>1, PageParts, PageTypes DEF DueOK, Streaming
  <2>2. LoadIsAlone => LoadIsAlone'
    <3>1. \A q \in Questions : screen[q].card = "none" => screen'[q].card = "none"
      BY <1>6
    <3> SUFFICES ASSUME LoadIsAlone PROVE LoadIsAlone'
      OBVIOUS
    <3>2. \A j \in DOMAIN loads' : (loads'[j].conv = active /\ loads'[j].read) =>
             \A q \in due : loads'[j].rows[q] = "answered"
      BY <1>2 DEF LoadIsAlone
    <3>3. \A j1, j2 \in DOMAIN loads' :
             (loads'[j1].conv = active /\ loads'[j2].conv = active) => j1 = j2
      <4> SUFFICES ASSUME NEW j1 \in DOMAIN loads', NEW j2 \in DOMAIN loads', j1 # j2,
                          loads'[j1].conv = active, loads'[j2].conv = active
                   PROVE  FALSE
        OBVIOUS
      <4>1. PICK k1, k2 \in DOMAIN loads : k1 # k2 /\ loads'[j1] = loads[k1] /\ loads'[j2] = loads[k2]
        BY <1>2
      <4> QED
        BY <4>1 DEF LoadIsAlone
    <3> QED
      BY <1>1, <3>1, <3>2, <3>3 DEF LoadIsAlone, Streaming
  <2>3. ScreenKeepsAnswers'
    <3> SUFFICES ASSUME ~excused', ~LoadUnderWay(active)', NEW q \in due, home[q] \in exists
                 PROVE  screen'[q].state = "answered"
      BY <1>1 DEF ScreenKeepsAnswers
    <3>1. q \in Questions /\ ~excused
      BY <1>3, PageTypes
    <3>2. CASE LoadUnderWay(active)
      <4>1. PICK k \in DOMAIN loads : loads[k].conv = active
        BY <3>2 DEF LoadUnderWay
      <4>2. k = i
        BY <1>1, <1>2, <4>1 DEF LoadUnderWay
      <4>3. loads[i].conv = active /\ ShowMessages(i) /\ loads[i].read
        BY <4>1, <4>2 DEF MessagesArrive, LoadFails
      <4>4. loads[i].rows[q] = "answered"
        BY <3>1, <3>2, <4>3, PageParts DEF DueOK, LoadIsAlone
      <4> QED
        BY <3>1, <4>3, <4>4, RowsShown
    <3>3. CASE ~LoadUnderWay(active)
      <4>1. screen'[q] = screen[q]
        BY <1>6, <3>1, <3>3
      <4> QED
        BY <3>1, <3>3, <4>1, PageParts DEF DueOK, ScreenKeepsAnswers
    <3> QED
      BY <3>2, <3>3
  <2> QED
    BY <1>1, <1>3, <1>7, <2>1, <2>2, <2>3, PageParts DEF DueOK
<1> QED
  BY <1>8, <1>9, <1>10, <1>11, <1>12, <1>13, <1>14 DEF PageInv

-----------------------------------------------------------------------------
(* The page: how the server answers *)

LEMMA ErrorOutcome ==
    /\ Signal("error") \in Outcomes /\ Signal("done") \in Outcomes
    /\ Signal("error") # Signal("done") /\ \A t : Signal("error") # Approval(t) /\ Signal("done") # Approval(t)
    /\ Refusal = <<Signal("error"), Signal("end")>>
  BY DEF Outcomes, Signal, Approval, Refusal

LEMMA RefusalShape ==
    /\ Refusal \in NamedWires /\ Refusal # <<>> /\ Refusal # <<Signal("end")>>
    /\ ~(Refusal \in UnnamedWires) /\ ~Unsettled(Refusal)
    /\ ~Brings(Refusal, Signal("done")) /\ \A t : ~Brings(Refusal, Approval(t))
  BY ErrorOutcome, OutcomeShapes

LEMMA StreamType ==
    ASSUME PageInv
    PROVE  /\ stream.kind \in {"none", "question", "review"} /\ stream.token \in 0 .. MaxTokens
           /\ stream.wire \in UnnamedWires \cup NamedWires /\ stream.open \in BOOLEAN
  BY PageParts DEF PageTypeOK

\* The stream, opened or closed, with this still to read.
Moved(opened, wire) == [stream EXCEPT !.open = opened, !.wire = wire]

LEMMA StreamMoves ==
    ASSUME PageInv, NEW opened \in BOOLEAN, NEW wire \in UnnamedWires \cup NamedWires
    PROVE  /\ \A n \in Nat : created <= n =>
                Moved(opened, wire) \in
                    [kind : {"none", "question", "review"}, q : 0 .. asked, conv : 0 .. n,
                     token : 0 .. MaxTokens, open : BOOLEAN, wire : UnnamedWires \cup NamedWires]
           /\ Moved(opened, wire).kind = stream.kind /\ Moved(opened, wire).q = stream.q
           /\ Moved(opened, wire).conv = stream.conv
           /\ (Moved(opened, wire).open <=> opened) /\ Moved(opened, wire).wire = wire
<1>1. stream \in [kind : {"none", "question", "review"}, q : 0 .. asked, conv : 0 .. created,
                  token : 0 .. MaxTokens, open : BOOLEAN, wire : UnnamedWires \cup NamedWires]
  BY PageParts DEF PageTypeOK
<1>2. \A n \in Nat : created <= n => 0 .. created \subseteq 0 .. n
  BY PageTypes
<1>3. \A n \in Nat : created <= n =>
        stream \in [kind : {"none", "question", "review"}, q : 0 .. asked, conv : 0 .. n,
                    token : 0 .. MaxTokens, open : BOOLEAN, wire : UnnamedWires \cup NamedWires]
  BY <1>1, <1>2
<1>4. ASSUME NEW n \in Nat, created <= n
      PROVE  Moved(opened, wire) \in
                    [kind : {"none", "question", "review"}, q : 0 .. asked, conv : 0 .. n,
                     token : 0 .. MaxTokens, open : BOOLEAN, wire : UnnamedWires \cup NamedWires]
  BY <1>3, <1>4 DEF Moved
<1> QED
  BY <1>1, <1>4 DEF Moved

LEMMA QuestionAccepted ==
    ASSUME PageInv, AcceptQuestion
    PROVE  PageInv'
<1> DEFINE q == stream.q
<1>1. /\ stream.kind = "question" /\ ~stream.open /\ StoreConversation
      /\ home' = [home EXCEPT ![q] = Target] /\ db' = [db EXCEPT ![q] = "asked"]
      /\ UNCHANGED <<active, skip, screen, loads, deleting, asked, tokens, due, excused>>
  BY DEF AcceptQuestion, history
<1>2. /\ Streaming /\ q \in Questions /\ home[q] = None /\ stream.conv = active
      /\ stream.wire = <<>> /\ q \in 0 .. asked
  BY <1>1, PageParts, PageTypes DEF StreamOK, Streaming
<1>3. /\ Target \in Convs /\ Target # None /\ Target \in 1 .. created' /\ created' \in Nat
      /\ created' \in 0 .. MaxConvs /\ created <= created' /\ 0 .. created \subseteq 0 .. created'
      /\ exists' \subseteq 1 .. created'
      /\ \A c \in 0 .. created : c \in exists' => c \in exists
      /\ stream.conv \in {None, Target}
      /\ stream.conv = None => Target = created + 1
  <2>1. CASE stream.conv = None
    <3>1. Target = created + 1 /\ Target \in Convs /\ created' = Target /\ exists' = exists \cup {Target}
      BY <1>1, <2>1, PageTypes DEF StoreConversation, Target
    <3> HIDE DEF Target
    <3> QED
      BY <2>1, <3>1, PageTypes DEF Convs
  <2>2. CASE stream.conv # None
    <3>1. Target = stream.conv /\ Target \in exists /\ created' = created /\ exists' = exists \cup {Target}
      BY <1>1, <2>2 DEF StoreConversation, Target
    <3>2. created \in 0 .. MaxConvs
      BY PageParts DEF PageTypeOK
    <3> HIDE DEF Target
    <3> QED
      BY <2>2, <3>1, <3>2, PageTypes
  <2> QED
    BY <2>1, <2>2
<1>4. \/ /\ run = NoRun /\ run' = [q |-> q, conv |-> Target, was |-> paused[Target]]
         /\ paused' = [paused EXCEPT ![Target] = None]
         /\ stream' = [stream EXCEPT !.open = TRUE, !.wire = <<Signal("conversation")>>]
      \/ /\ stream' = [stream EXCEPT !.open = TRUE, !.wire = Refusal]
         /\ UNCHANGED <<run, paused>>
  BY DEF AcceptQuestion, Opened
<1>5. /\ stream' \in [kind : {"none", "question", "review"}, q : 0 .. asked, conv : 0 .. created',
                      token : 0 .. MaxTokens, open : BOOLEAN, wire : UnnamedWires \cup NamedWires]
      /\ stream'.kind = "question" /\ stream'.q = q /\ stream'.open /\ stream'.conv = stream.conv
      /\ \/ stream'.wire = <<Signal("conversation")>>
         \/ stream'.wire = Refusal
  <2>1. <<Signal("conversation")>> \in UnnamedWires \cup NamedWires /\ Refusal \in UnnamedWires \cup NamedWires
    BY WireShapes, RefusalShape
  <2>2. PICK wire \in {<<Signal("conversation")>>, Refusal} : stream' = [stream EXCEPT !.open = TRUE, !.wire = wire]
    BY <1>4
  <2>3. wire \in UnnamedWires \cup NamedWires
    BY <2>1, <2>2
  <2>4. stream' = Moved(TRUE, wire)
    BY <2>2 DEF Moved
  <2>5. /\ stream' \in [kind : {"none", "question", "review"}, q : 0 .. asked, conv : 0 .. created',
                      token : 0 .. MaxTokens, open : BOOLEAN, wire : UnnamedWires \cup NamedWires]
        /\ stream'.kind = stream.kind /\ stream'.q = stream.q /\ stream'.conv = stream.conv
        /\ stream'.open /\ stream'.wire = wire
    BY <1>3, <2>3, <2>4, StreamMoves
  <2> QED
    BY <1>1, <2>2, <2>5
<1> HIDE DEF q, Target
<1>6. /\ \A p \in Questions : home'[p] = IF p = q THEN Target ELSE home[p]
      /\ \A p \in Questions : db'[p] = IF p = q THEN "asked" ELSE db[p]
      /\ home' \in [Questions -> 0 .. created'] /\ db' \in [Questions -> {"off", "asked", "answered"}]
  <2>1. /\ home \in [Questions -> 0 .. created] /\ db \in [Questions -> {"off", "asked", "answered"}]
    BY PageParts DEF PageTypeOK
  <2>2. Target \in 0 .. created' /\ home \in [Questions -> 0 .. created']
    BY <1>3, <2>1
  <2> QED
    BY <1>1, <1>2, <2>1, <2>2
<1>7. Streaming' /\ \A p \in Questions : screen[p].card # "pending"
  BY <1>1, <1>2, <1>5, PageParts DEF CardsOK, Streaming
<1>8. \A p \in Questions : screen[p].card # "none" => p # q
  BY <1>2, PageParts DEF CardsOK
<1>9. /\ run' \in [q : 0 .. asked, conv : 0 .. created', was : 0 .. tokens]
      /\ paused' \in [Convs -> 0 .. tokens]
  <2>1. /\ run \in [q : 0 .. asked, conv : 0 .. created, was : 0 .. tokens]
        /\ paused \in [Convs -> 0 .. tokens] /\ None \in 0 .. tokens
    BY PageParts, PageTypes DEF PageTypeOK
  <2>2. run \in [q : 0 .. asked, conv : 0 .. created', was : 0 .. tokens]
    BY <1>3, <2>1
  <2>3. Target \in 0 .. created' /\ paused[Target] \in 0 .. tokens
    BY <1>3, <2>1
  <2> QED
    BY <1>2, <1>4, <2>1, <2>2, <2>3
<1>10. PageTypeOK'
  <2>1. active \in 0 .. created' /\ deleting \subseteq 1 .. created'
    BY <1>3, PageTypes
  <2> QED
    BY <1>1, <1>3, <1>5, <1>6, <1>9, <2>1, PageParts DEF PageTypeOK
<1>11. StoredOK'
  BY <1>1, <1>2, <1>3, <1>6, PageParts, PageTypes DEF StoredOK
<1>12. LoadsOK'
  <2>1. \A i \in DOMAIN loads : loads[i].conv <= created'
    BY <1>3, PageTypes
  <2>2. ASSUME NEW i \in DOMAIN loads, NEW p \in Questions, loads[i].rows[p] # "off"
        PROVE  home'[p] = loads[i].conv
    <3>1. home[p] = loads[i].conv
      BY <2>2, PageParts DEF LoadsOK
    <3>2. loads[i].conv # None
      BY PageTypes
    <3>3. p # q
      BY <1>2, <3>1, <3>2
    <3> QED
      BY <1>6, <3>1, <3>3
  <2> QED
    BY <1>1, <2>1, <2>2 DEF LoadsOK
<1>13. RunOK'
  <2>1. CASE UNCHANGED <<run, paused>>
    <3>1. run # NoRun => run.q # q /\ run.q \in Questions
      BY <1>1, PageParts, PageTypes DEF RunOK, q
    <3> QED
      BY <1>1, <1>5, <1>6, <2>1, <3>1, PageParts DEF RunOK
  <2>2. CASE /\ run' = [q |-> q, conv |-> Target, was |-> paused[Target]]
             /\ paused' = [paused EXCEPT ![Target] = None]
             /\ stream' = [stream EXCEPT !.open = TRUE, !.wire = <<Signal("conversation")>>]
    <3>1. stream'.wire = <<Signal("conversation")>>
      <4>1. stream' = Moved(TRUE, <<Signal("conversation")>>)
        BY <2>2 DEF Moved
      <4> QED
        BY <4>1, StreamMoves, WireShapes
    <3>2. paused'[Target] = None
      BY <1>3, <2>2, PageParts DEF PageTypeOK
    <3>3. run'.q = q /\ run'.conv = Target
      BY <2>2
    <3> QED
      BY <1>1, <1>2, <1>3, <1>5, <1>6, <1>7, <3>1, <3>2, <3>3, WireShapes, PageTypes DEF RunOK
  <2> QED
    BY <1>4, <2>1, <2>2
<1>14. StreamOK'
  <2>1. active = None => ~LoadUnderWay(Target)
    BY <1>2, <1>3, PageTypes DEF LoadUnderWay
  <2>2. home'[stream'.q] = Target /\ db'[stream'.q] = "asked"
    BY <1>2, <1>5, <1>6
  <2>3. ~LoadUnderWay(home[stream.q])' <=> ~LoadUnderWay(Target)
    BY <1>1, <2>2 DEF LoadUnderWay
  <2>4. StreamStands'
    BY <1>1, <1>2, <1>3, <1>5, <2>1, <2>2, <2>3, WireShapes, RefusalShape DEF StreamStands
  <2>5. ~Brings(stream'.wire, Signal("done")) /\ \A t : ~Brings(stream'.wire, Approval(t))
    BY <1>5, WireShapes, RefusalShape
  <2> QED
    BY <1>2, <1>3, <1>5, <1>7, <2>2, <2>4, <2>5, PageTypes DEF StreamOK
<1>15. CardsOK'
  BY <1>1, <1>6, <1>7, <1>8, PageParts DEF CardsOK, CardIsCurrent
<1>16. ScreenOwn'
  BY <1>1, <1>2, <1>5, <1>6, PageParts DEF ScreenOwn, q
<1>17. DueOK'
  <2>1. /\ q \notin due
        /\ \A p \in due : /\ p \in Questions /\ home'[p] = home[p] /\ db'[p] = db[p]
                           /\ home[p] \in 0 .. created
    BY <1>2, <1>6, PageParts, PageTypes DEF DueOK
  <2>2. LoadUnderWay(active)' <=> LoadUnderWay(active)
    BY <1>1 DEF LoadUnderWay
  <2>3. ~(~excused /\ LoadUnderWay(active))
    BY <1>2, PageParts DEF DueOK, LoadIsAlone
  <2>4. ScreenKeepsAnswers'
    BY <1>1, <1>3, <2>1, <2>2, PageParts DEF DueOK, ScreenKeepsAnswers
  <2>5. ~excused' => screen'[stream'.q].live
    BY <1>1, <1>2, <1>5, PageParts DEF DueOK, q
  <2> QED
    BY <1>1, <2>1, <2>2, <2>3, <2>4, <2>5, PageParts DEF DueOK
<1> QED
  BY <1>10, <1>11, <1>12, <1>13, <1>14, <1>15, <1>16, <1>17 DEF PageInv

LEMMA ReviewAccepted ==
    ASSUME PageInv, AcceptReview
    PROVE  PageInv'
<1> DEFINE q == stream.q
           c == stream.conv
<1>1. /\ stream.kind = "review" /\ ~stream.open /\ c \in exists
      /\ UNCHANGED <<active, skip, screen, loads, deleting, asked, created, exists, home, db, tokens,
                     due, excused>>
  BY DEF AcceptReview, history
<1>2. /\ Streaming /\ q \in Questions /\ q \in 0 .. asked /\ home[q] = active /\ c = active /\ active # None
      /\ stream.wire = <<>> /\ db[q] # "answered" /\ c \in Convs /\ c \in 0 .. created
      /\ created \in Nat /\ created <= created
  BY <1>1, PageParts, PageTypes DEF StreamOK, Streaming
<1>3. \E wire \in {<<>>, Refusal} :
        /\ stream' = Moved(TRUE, wire)
        /\ \/ /\ wire = <<>> /\ run = NoRun /\ run' = [q |-> q, conv |-> c, was |-> stream.token]
              /\ paused' = [paused EXCEPT ![c] = None] /\ stream.token = paused[c]
           \/ wire = Refusal /\ UNCHANGED <<run, paused>>
  <2>1. stream.wire = <<>> => [stream EXCEPT !.open = TRUE, !.wire = <<>>] = Moved(TRUE, <<>>)
    BY DEF Moved
  <2> QED
    BY <1>2, <2>1 DEF AcceptReview, Opened, Moved
<1>4. PICK wire \in {<<>>, Refusal} :
        /\ stream' = Moved(TRUE, wire)
        /\ \/ /\ wire = <<>> /\ run = NoRun /\ run' = [q |-> q, conv |-> c, was |-> stream.token]
              /\ paused' = [paused EXCEPT ![c] = None] /\ stream.token = paused[c]
           \/ wire = Refusal /\ UNCHANGED <<run, paused>>
  BY <1>3
<1>5. /\ stream' \in [kind : {"none", "question", "review"}, q : 0 .. asked, conv : 0 .. created,
                      token : 0 .. MaxTokens, open : BOOLEAN, wire : UnnamedWires \cup NamedWires]
      /\ stream'.kind = "review" /\ stream'.q = q /\ stream'.conv = c /\ stream'.open
      /\ stream'.wire = wire /\ wire \in NamedWires
  <2>1. wire \in NamedWires
    BY WireShapes, RefusalShape
  <2> QED
    BY <1>1, <1>2, <1>4, <2>1, StreamMoves
<1>6. /\ ~Brings(wire, Signal("done")) /\ \A t : ~Brings(wire, Approval(t))
  BY WireShapes, RefusalShape
<1> HIDE DEF q, c
<1>7. Streaming' /\ \A p \in Questions : screen[p].card # "pending"
  BY <1>1, <1>2, <1>5, PageParts DEF CardsOK, Streaming
<1>8. /\ run' \in [q : 0 .. asked, conv : 0 .. created, was : 0 .. tokens]
      /\ paused' \in [Convs -> 0 .. tokens]
  <2>1. /\ run \in [q : 0 .. asked, conv : 0 .. created, was : 0 .. tokens]
        /\ paused \in [Convs -> 0 .. tokens] /\ None \in 0 .. tokens
    BY PageParts, PageTypes DEF PageTypeOK
  <2> QED
    BY <1>2, <1>4, <2>1
<1>9. PageTypeOK'
  BY <1>1, <1>5, <1>8, PageParts DEF PageTypeOK
<1>10. StoredOK' /\ LoadsOK'
  BY <1>1, PageParts DEF StoredOK, LoadsOK
<1>11. RunOK'
  <2>1. CASE UNCHANGED <<run, paused>>
    <3>1. run # NoRun => run.q # q
      BY <1>1, PageParts DEF RunOK, q
    <3> QED
      BY <1>1, <1>5, <2>1, <3>1, PageParts DEF RunOK
  <2>2. CASE /\ wire = <<>> /\ run' = [q |-> q, conv |-> c, was |-> stream.token]
             /\ paused' = [paused EXCEPT ![c] = None]
    <3>1. paused'[c] = None
      BY <1>2, <2>2, PageParts DEF PageTypeOK
    <3>2. run'.q = q /\ run'.conv = c
      BY <2>2
    <3> QED
      BY <1>1, <1>2, <1>5, <1>7, <2>2, <3>1, <3>2, WireShapes, PageTypes DEF RunOK
  <2> QED
    BY <1>4, <2>1, <2>2
<1>12. StreamOK'
  BY <1>1, <1>2, <1>5, <1>6, <1>7, PageTypes DEF StreamOK
<1>13. CardsOK'
  BY <1>1, <1>7, PageParts DEF CardsOK, CardIsCurrent
<1>14. ScreenOwn'
  BY <1>1, <1>5, PageParts DEF ScreenOwn, q
<1>15. DueOK'
  <2>1. LoadUnderWay(active)' <=> LoadUnderWay(active)
    BY <1>1 DEF LoadUnderWay
  <2>2. ~(~excused /\ LoadUnderWay(active))
    BY <1>2, PageParts DEF DueOK, LoadIsAlone
  <2>3. ScreenKeepsAnswers'
    BY <1>1, <2>1, PageParts DEF DueOK, ScreenKeepsAnswers
  <2>4. ~excused' => screen'[stream'.q].live
    BY <1>1, <1>2, <1>5, PageParts DEF DueOK, q
  <2> QED
    BY <1>1, <2>1, <2>2, <2>3, <2>4, PageParts DEF DueOK
<1> QED
  BY <1>9, <1>10, <1>11, <1>12, <1>13, <1>14, <1>15 DEF PageInv

\* The stream is over: what is left of its question is on the page's conversation.
LEMMA StreamEnds ==
    ASSUME PageInv, Streaming, stream' = NoStream,
           UNCHANGED <<active, skip, loads, deleting, asked, home, db, paused, run, tokens, due>>,
           created' \in 0 .. MaxConvs, created <= created', exists' \subseteq 1 .. created',
           \A c \in 0 .. created : c \in exists' => c \in exists,
           excused' \in BOOLEAN, excused => excused',
           screen' \in [Questions -> Entry],
           \A p \in Questions \ {stream.q} : screen'[p] = screen[p],
           \/ /\ screen'[stream.q].live <=> screen[stream.q].live
              /\ screen'[stream.q].card = screen[stream.q].card
              /\ screen'[stream.q].token = screen[stream.q].token
           \/ screen'[stream.q].card = "none" /\ screen'[stream.q].token = None,
           screen'[stream.q].state \in {"asked", "answered"} => home[stream.q] = active /\ active # None,
           (~excused' /\ stream.q \in due /\ home[stream.q] \in exists /\ screen[stream.q].state = "answered")
              => screen'[stream.q].state = "answered"
    PROVE  PageInv'
<1>1. stream.q \in Questions /\ stream.q # None
  BY PageTypes
<1>2. stream'.kind = "none" /\ stream'.q = None /\ stream'.wire = <<>> /\ ~Streaming' /\ ~stream'.open
  BY DEF NoStream, Streaming
<1>3. /\ stream' \in [kind : {"none", "question", "review"}, q : 0 .. asked, conv : 0 .. created',
                      token : 0 .. MaxTokens, open : BOOLEAN, wire : UnnamedWires \cup NamedWires]
  <2>1. None \in 0 .. asked /\ None \in 0 .. created' /\ None \in 0 .. MaxTokens
    BY PageTypes
  <2> QED
    BY <2>1, WireShapes DEF NoStream
<1>4. 0 .. created \subseteq 0 .. created' /\ 1 .. created \subseteq 1 .. created' /\ created' \in Nat
  BY PageTypes
<1>5. PageTypeOK'
  <2>1. \A p \in Questions : (screen'[p].card = "none") <=> (screen'[p].token = None)
    BY PageParts DEF PageTypeOK
  <2>2. run' \in [q : 0 .. asked, conv : 0 .. created', was : 0 .. tokens]
    BY <1>4, PageParts DEF PageTypeOK
  <2>3. home' \in [Questions -> 0 .. created'] /\ active' \in 0 .. created' /\ deleting' \subseteq 1 .. created'
    BY <1>4, PageParts DEF PageTypeOK
  <2> QED
    BY <1>3, <2>1, <2>2, <2>3, PageParts DEF PageTypeOK
<1>6. StoredOK'
  BY PageParts DEF StoredOK
<1>7. LoadsOK'
  <2>1. \A i \in DOMAIN loads : loads[i].conv <= created'
    BY <1>4, PageTypes
  <2> QED
    BY <2>1, PageParts DEF LoadsOK
<1>8. \A p \in Questions : screen'[p].card # "none" =>
        /\ screen'[p].live <=> screen[p].live
        /\ screen'[p].card = screen[p].card /\ screen'[p].token = screen[p].token
  OBVIOUS
<1>9. RunOK'
  BY <1>2, <1>8, PageParts, PageTypes DEF RunOK
<1>10. StreamOK'
  BY <1>2, WireShapes DEF StreamOK
<1>11. CardsOK'
  <2>1. \A p \in Questions : screen'[p].card # "none" => screen'[p].live /\ home'[p] = active' /\ active' # None
    BY <1>8, PageParts DEF CardsOK
  <2>2. \A p \in Questions : screen'[p].card = "pending" =>
          db'[p] # "answered" /\ \A r \in Questions : screen'[r].card = "pending" => r = p
    BY <1>8, PageParts DEF CardsOK
  <2>3. CardIsCurrent'
    BY <1>8, PageParts, PageTypes DEF CardsOK, CardIsCurrent
  <2> QED
    BY <1>2, <2>1, <2>2, <2>3 DEF CardsOK
<1>12. ScreenOwn'
  BY PageParts DEF ScreenOwn
<1>13. DueOK'
  <2>1. LoadUnderWay(active)' <=> LoadUnderWay(active)
    BY DEF LoadUnderWay
  <2>2. ~excused => ~LoadUnderWay(active)
    BY PageParts DEF DueOK, LoadIsAlone
  <2>3. ScreenKeepsAnswers'
    <3> SUFFICES ASSUME ~excused', NEW p \in due, home[p] \in exists'
                 PROVE  screen'[p].state = "answered"
      BY DEF ScreenKeepsAnswers
    <3>1. home[p] \in exists /\ p \in Questions
      BY PageTypes
    <3>2. screen[p].state = "answered"
      BY <2>2, <3>1, PageParts DEF DueOK, ScreenKeepsAnswers
    <3> QED
      BY <3>1, <3>2
  <2> QED
    BY <1>2, <2>1, <2>2, <2>3, PageParts DEF DueOK
<1> QED
  BY <1>5, <1>6, <1>7, <1>9, <1>10, <1>11, <1>12, <1>13 DEF PageInv

LEMMA Updated ==
    ASSUME PageInv, Streaming, NEW entry \in Entry, Update(stream.q, entry)
    PROVE  /\ screen' \in [Questions -> Entry]
           /\ \A p \in Questions \ {stream.q} : screen'[p] = screen[p]
           /\ \/ screen[stream.q].live /\ screen'[stream.q] = entry
              \/ ~screen[stream.q].live /\ screen' = screen
<1>1. screen \in [Questions -> Entry] /\ stream.q \in Questions
  BY PageParts, PageTypes DEF PageTypeOK
<1> QED
  BY <1>1 DEF Update

Failed(q) == [screen[q] EXCEPT !.state = "failed"]

LEMMA FailedEntry ==
    ASSUME PageInv, NEW q \in Questions
    PROVE  /\ Failed(q) \in Entry /\ Failed(q).state = "failed"
           /\ Failed(q).live <=> screen[q].live
           /\ Failed(q).card = screen[q].card /\ Failed(q).token = screen[q].token
  BY PageTypes DEF Entry, Failed

\* A message that is not updated any more has been loaded.
LEMMA NotLive ==
    ASSUME PageInv, NEW q \in Questions, ~screen[q].live, screen[q].state \in {"asked", "answered"}
    PROVE  home[q] = active /\ active # None
  BY PageParts DEF ScreenOwn

LEMMA RequestRefused ==
    ASSUME PageInv, RefuseRequest
    PROVE  PageInv'
<1> DEFINE q == stream.q
           failed == Failed(q)
<1>1. /\ Streaming /\ ~stream.open /\ stream' = NoStream /\ excused' = excused
      /\ UNCHANGED <<active, skip, loads, deleting, asked, home, db, paused, run, tokens, due>>
      /\ UNCHANGED <<created, exists>> \/ (stream.kind = "question" /\ StoreConversation)
      /\ Update(q, failed) \/ Update(q, Shown("off"))
  BY DEF RefuseRequest, history, Failed
<1>2. q \in Questions /\ q \notin due
  BY <1>1, PageParts, PageTypes DEF StreamOK, DueOK
<1>3. /\ created' \in 0 .. MaxConvs /\ created <= created' /\ exists' \subseteq 1 .. created'
      /\ \A c \in 0 .. created : c \in exists' => c \in exists
  <2>1. created \in 0 .. MaxConvs
    BY PageParts DEF PageTypeOK
  <2>2. CASE UNCHANGED <<created, exists>>
    BY <2>1, <2>2, PageTypes
  <2>3. CASE StoreConversation
    <3>1. CASE stream.conv = None
      <4>1. Target = created + 1 /\ Target \in Convs /\ created' = Target /\ exists' = exists \cup {Target}
        BY <2>3, <3>1, PageTypes DEF StoreConversation, Target
      <4> HIDE DEF Target
      <4> QED
        BY <4>1, PageTypes DEF Convs
    <3>2. CASE stream.conv # None
      <4>1. Target = stream.conv /\ Target \in exists /\ created' = created /\ exists' = exists \cup {Target}
        BY <2>3, <3>2 DEF StoreConversation, Target
      <4> HIDE DEF Target
      <4> QED
        BY <2>1, <4>1, PageTypes
    <3> QED
      BY <3>1, <3>2
  <2> QED
    BY <1>1, <2>2, <2>3
<1>4. /\ Shown("off") \in Entry /\ Shown("off").state = "off" /\ Shown("off").card = "none"
      /\ Shown("off").token = None
  BY DEF Shown, Entry
<1>5. /\ failed \in Entry /\ failed.state = "failed" /\ (failed.live <=> screen[q].live)
      /\ failed.card = screen[q].card /\ failed.token = screen[q].token
  BY <1>2, FailedEntry
<1>6. PICK entry \in {failed, Shown("off")} : entry \in Entry /\ Update(q, entry)
  BY <1>1, <1>4, <1>5
<1>7. /\ screen' \in [Questions -> Entry]
      /\ \A p \in Questions \ {q} : screen'[p] = screen[p]
      /\ \/ screen[q].live /\ screen'[q] = entry
         \/ ~screen[q].live /\ screen' = screen
  BY <1>1, <1>6, Updated
<1> HIDE DEF failed
<1>8. \/ /\ screen'[q].live <=> screen[q].live
         /\ screen'[q].card = screen[q].card
         /\ screen'[q].token = screen[q].token
      \/ screen'[q].card = "none" /\ screen'[q].token = None
  BY <1>4, <1>5, <1>6, <1>7
<1>9. screen'[q].state \in {"asked", "answered"} => home[q] = active /\ active # None
  <2>1. entry.state \in {"failed", "off"}
    BY <1>4, <1>5, <1>6
  <2>2. screen'[q].state \in {"asked", "answered"} => ~screen[q].live /\ screen[q].state \in {"asked", "answered"}
    BY <1>7, <2>1
  <2> QED
    BY <1>2, <2>2, NotLive
<1> QED
  BY <1>1, <1>2, <1>3, <1>7, <1>8, <1>9, PageTypes, StreamEnds

LEMMA StreamBroken ==
    ASSUME PageInv, StreamBreaks
    PROVE  PageInv'
<1> DEFINE q == stream.q
           failed == Failed(q)
           kept == screen[q].state = "answered" /\ stream.kind = "review"
<1>1. /\ stream.open /\ stream' = NoStream
      /\ Update(q, IF kept THEN screen[q] ELSE failed)
      /\ excused' = (excused \/ (screen[q].state = "answered" /\ ~kept))
      /\ UNCHANGED <<active, skip, loads, deleting, asked, created, exists, home, db, paused, run,
                     tokens, due>>
  BY DEF StreamBreaks, server, Failed
<1>2. Streaming /\ q \in Questions
  BY <1>1, PageTypes DEF NoStream
<1>3. /\ excused' \in BOOLEAN /\ (excused => excused')
      /\ ~excused' => (screen[q].state = "answered" => kept)
  BY <1>1
<1>4. PICK entry \in {screen[q], failed} :
        /\ entry \in Entry /\ Update(q, entry)
        /\ (entry = screen[q] /\ kept) \/ (entry = failed /\ ~kept)
  BY <1>1, <1>2, FailedEntry, PageTypes
<1>5. /\ screen' \in [Questions -> Entry]
      /\ \A p \in Questions \ {q} : screen'[p] = screen[p]
      /\ \/ screen[q].live /\ screen'[q] = entry
         \/ ~screen[q].live /\ screen' = screen
  BY <1>2, <1>4, Updated
<1>6. /\ entry.live <=> screen[q].live
      /\ entry.card = screen[q].card /\ entry.token = screen[q].token
      /\ entry.state = "failed" \/ (kept /\ entry.state = screen[q].state)
  BY <1>2, <1>4, FailedEntry
<1>7. /\ screen'[q].live <=> screen[q].live
      /\ screen'[q].card = screen[q].card /\ screen'[q].token = screen[q].token
  BY <1>5, <1>6
<1>8. screen'[q].state \in {"asked", "answered"} => home[q] = active /\ active # None
  <2>1. kept => home[q] = active /\ active # None
    BY PageParts DEF StreamOK
  <2> HIDE DEF kept
  <2> QED
    BY <1>2, <1>5, <1>6, <2>1, NotLive
<1>9. (~excused' /\ screen[q].state = "answered") => screen'[q].state = "answered"
  <2> HIDE DEF kept
  <2> QED
    BY <1>3, <1>4, <1>5
<1>10. /\ created' \in 0 .. MaxConvs /\ created <= created' /\ exists' \subseteq 1 .. created'
  BY SMTT(30), <1>1, PageParts, PageTypes DEF PageTypeOK
<1> HIDE DEF failed, kept
<1> QED
  BY <1>1, <1>2, <1>3, <1>5, <1>7, <1>8, <1>9, <1>10, PageTypes, StreamEnds

\* What is being read, and what is left then.
LEMMA Reads ==
    ASSUME PageInv, NEW type \in {"conversation", "approval", "done", "error", "end"}, Reading(type)
    PROVE  /\ Streaming /\ stream.open /\ stream.q \in Questions
           /\ type = "end" => stream.wire = <<Signal("end")>>
           /\ type = "conversation" =>
                \/ stream.wire = <<Signal("conversation")>> /\ Tail(stream.wire) = <<>>
                \/ \E e \in Outcomes : /\ stream.wire = <<Signal("conversation"), e, Signal("end")>>
                                       /\ Tail(stream.wire) = <<e, Signal("end")>>
           /\ type \in {"approval", "done", "error"} =>
                \E e \in Outcomes : /\ e.type = type /\ stream.wire = <<e, Signal("end")>>
                                    /\ Head(stream.wire) = e /\ Tail(stream.wire) = <<Signal("end")>>
<1>1. stream.wire # <<>> /\ Head(stream.wire).type = type
  BY DEF Reading
<1>2. Streaming /\ stream.open
  <2>1. stream.wire # <<>> => Streaming
    BY PageTypes DEF NoStream
  <2> QED
    BY <1>1, <2>1, PageParts DEF StreamOK
<1>3. stream.q \in Questions
  BY <1>2, PageTypes
<1>4. \A e \in Outcomes : e.type \in {"done", "error", "approval"}
  BY OutcomeTypes
<1>5. Signal("conversation").type = "conversation" /\ Signal("end").type = "end"
  BY SignalTypes
<1>6. \/ stream.wire = <<Signal("conversation")>> /\ type = "conversation" /\ Tail(stream.wire) = <<>>
      \/ stream.wire = <<Signal("end")>> /\ type = "end"
      \/ \E e \in Outcomes : /\ e.type = type /\ stream.wire = <<e, Signal("end")>>
                             /\ Head(stream.wire) = e /\ Tail(stream.wire) = <<Signal("end")>>
      \/ type = "conversation" /\ \E e \in Outcomes :
           /\ stream.wire = <<Signal("conversation"), e, Signal("end")>>
           /\ Tail(stream.wire) = <<e, Signal("end")>>
  BY <1>1, <1>5, StreamType, WireCases, Zenon
<1> QED
  BY <1>2, <1>3, <1>4, <1>6, Zenon

LEMMA EndRead ==
    ASSUME PageInv, ReadEnd
    PROVE  PageInv'
<1> DEFINE q == stream.q
<1>1. /\ Reading("end") /\ stream' = NoStream
      /\ UNCHANGED <<active, skip, screen, loads, deleting, asked, created, exists, home, db, paused, run,
                     tokens, due, excused>>
  BY DEF ReadEnd, server, history
<1>2. Streaming /\ stream.open /\ stream.wire = <<Signal("end")>> /\ q \in Questions
  BY <1>1, Reads
<1>3. screen[q].state \in {"asked", "answered"} => home[q] = active /\ active # None
  <2>1. CASE stream.kind = "review"
    BY <2>1, PageParts DEF StreamOK
  <2>2. CASE stream.kind = "question"
    <3>1. home[q] # None /\ (active = home[q] \/ (screen[q].live => screen[q].state = "failed"))
      BY <1>2, <2>2, PageParts, WireShapes, RefusalShape DEF StreamOK, StreamStands
    <3> QED
      BY <1>2, <3>1, NotLive
  <2> QED
    BY <1>2, <2>1, <2>2, StreamType DEF Streaming
<1>4. /\ created' \in 0 .. MaxConvs /\ created <= created' /\ exists' \subseteq 1 .. created'
      /\ screen' \in [Questions -> Entry] /\ excused' \in BOOLEAN
  BY <1>1, PageParts, PageTypes DEF PageTypeOK
<1> QED
  BY <1>1, <1>2, <1>3, <1>4, StreamEnds

-----------------------------------------------------------------------------
(* The page: how a run ends *)

\* With outcome e, after which its thread waits under t.
LEMMA RunIsOver ==
    ASSUME PageInv, run # NoRun, NEW e \in Outcomes, Emit(<<e, Signal("end")>>), run' = NoRun,
           UNCHANGED <<active, skip, screen, loads, deleting, asked, created, exists, home, due, excused>>,
           tokens' \in 0 .. MaxTokens, tokens <= tokens', NEW t \in 0 .. tokens',
           paused' = [paused EXCEPT ![run.conv] = t],
           db' = IF e = Signal("done") THEN [db EXCEPT ![run.q] = "answered"] ELSE db,
           \A s : e = Approval(s) => t = s
    PROVE  PageInv'
<1> DEFINE q == stream.q
           wire == stream.wire \o <<e, Signal("end")>>
           heard == stream.open /\ stream.q = run.q
<1>1. /\ run.q \in Questions /\ run.conv \in Convs /\ run.q # None /\ run.conv # None
      /\ run.conv = home[run.q] /\ paused[run.conv] = None /\ db[run.q] # "answered"
      /\ screen[run.q].card # "pending"
      /\ stream.q = run.q => stream.open /\ Unsettled(stream.wire)
  BY PageParts, PageTypes DEF RunOK
<1>2. \A p \in Questions : db'[p] = IF e = Signal("done") /\ p = run.q THEN "answered" ELSE db[p]
  BY <1>1, PageParts DEF PageTypeOK
<1>3. \A c \in Convs : paused'[c] = IF c = run.conv THEN t ELSE paused[c]
  BY <1>1, PageParts DEF PageTypeOK
<1>4. \A p \in Questions : home[p] \in exists => home[p] \in Convs
  BY PageTypes DEF Convs
<1>5. created \in Nat /\ created <= created /\ 0 .. tokens \subseteq 0 .. tokens'
  BY PageTypes
<1>6. heard => /\ stream.wire = <<>> => wire = <<e, Signal("end")>>
               /\ stream.wire # <<>> => /\ stream.wire = <<Signal("conversation")>>
                                        /\ wire = <<Signal("conversation"), e, Signal("end")>>
               /\ wire \in UnnamedWires \cup NamedWires
               /\ \A f : Brings(wire, f) <=> f = e
  <2> SUFFICES ASSUME heard
               PROVE  /\ stream.wire = <<>> => wire = <<e, Signal("end")>>
                      /\ stream.wire # <<>> => /\ stream.wire = <<Signal("conversation")>>
                                               /\ wire = <<Signal("conversation"), e, Signal("end")>>
                      /\ wire \in UnnamedWires \cup NamedWires
                      /\ \A f : Brings(wire, f) <=> f = e
    OBVIOUS
  <2>1. /\ stream.wire = <<>> => wire = <<e, Signal("end")>>
        /\ stream.wire # <<>> => /\ stream.wire = <<Signal("conversation")>>
                                 /\ wire = <<Signal("conversation"), e, Signal("end")>>
    BY <1>1, Writing
  <2> HIDE DEF wire
  <2>2. \/ wire = <<e, Signal("end")>>
        \/ wire = <<Signal("conversation"), e, Signal("end")>>
    BY <2>1
  <2>3. wire \in UnnamedWires \cup NamedWires /\ \A f : Brings(wire, f) <=> f = e
    <3>1. CASE wire = <<e, Signal("end")>>
      <4>1. wire \in NamedWires /\ \A f : Brings(wire, f) <=> f = e
        BY <3>1, OutcomeShapes
      <4> QED
        BY <4>1
    <3>2. CASE wire = <<Signal("conversation"), e, Signal("end")>>
      <4>1. wire \in UnnamedWires /\ \A f : Brings(wire, f) <=> f = e
        BY <3>2, OutcomeShapes
      <4> QED
        BY <4>1
    <3> QED
      BY <2>2, <3>1, <3>2
  <2> QED
    BY <2>1, <2>3
<1>7. /\ heard => stream' = Moved(TRUE, wire)
      /\ ~heard => stream' = stream
  <2>1. stream.open \in BOOLEAN /\ (heard => stream = [stream EXCEPT !.open = TRUE])
    BY PageParts DEF PageTypeOK
  <2> QED
    BY <2>1 DEF Emit, Moved
<1> HIDE DEF wire
<1>8. /\ stream' \in [kind : {"none", "question", "review"}, q : 0 .. asked, conv : 0 .. created,
                      token : 0 .. MaxTokens, open : BOOLEAN, wire : UnnamedWires \cup NamedWires]
      /\ stream'.kind = stream.kind /\ stream'.q = q /\ stream'.conv = stream.conv
      /\ stream'.open <=> stream.open
      /\ heard => stream'.wire = wire
      /\ ~heard => stream'.wire = stream.wire /\ stream' = stream
  <2> HIDE DEF wire, heard
  <2>1. CASE heard
    <3>1. wire \in UnnamedWires \cup NamedWires /\ stream' = Moved(TRUE, wire) /\ stream.open
      BY <1>6, <1>7, <2>1 DEF heard
    <3>2. /\ Moved(TRUE, wire) \in [kind : {"none", "question", "review"}, q : 0 .. asked, conv : 0 .. created,
                      token : 0 .. MaxTokens, open : BOOLEAN, wire : UnnamedWires \cup NamedWires]
          /\ Moved(TRUE, wire).kind = stream.kind /\ Moved(TRUE, wire).q = stream.q
          /\ Moved(TRUE, wire).conv = stream.conv
          /\ (Moved(TRUE, wire).open <=> TRUE) /\ Moved(TRUE, wire).wire = wire
      BY <1>5, <3>1, StreamMoves
    <3> QED
      BY <2>1, <3>1, <3>2
  <2>2. CASE ~heard
    BY <1>7, <2>2, PageParts DEF PageTypeOK
  <2> QED
    BY <2>1, <2>2
<1>9. Streaming' <=> Streaming
  BY <1>8 DEF Streaming
<1>10. ~heard => stream.q # run.q
  BY <1>1
<1> HIDE DEF heard
<1>11. heard => stream.open /\ q = run.q /\ Streaming
  BY <1>1, PageTypes DEF heard
<1>12. PageTypeOK'
  <2>1. run' \in [q : 0 .. asked, conv : 0 .. created, was : 0 .. tokens']
    <3>1. None \in 0 .. asked /\ None \in 0 .. created /\ None \in 0 .. tokens'
      BY <1>5, PageTypes
    <3> QED
      BY <3>1 DEF NoRun
  <2>2. paused' \in [Convs -> 0 .. tokens']
    BY <1>1, <1>5, PageParts DEF PageTypeOK
  <2>3. db' \in [Questions -> {"off", "asked", "answered"}]
    BY <1>1, PageParts DEF PageTypeOK
  <2> QED
    BY <1>8, <2>1, <2>2, <2>3, PageParts DEF PageTypeOK
<1>13. StoredOK'
  BY <1>1, <1>2, PageParts DEF StoredOK
<1>14. LoadsOK' /\ RunOK'
  BY PageParts DEF LoadsOK, RunOK
<1>15. StreamOK'
  <2>1. LoadUnderWay(home[stream.q])' <=> LoadUnderWay(home[stream.q])
    BY <1>8 DEF LoadUnderWay
  <2>2. CASE heard
    <3>1. q \in Questions /\ db[q] # "answered" /\ home'[stream'.q] = home[q] /\ home[q] = run.conv
      BY <1>1, <1>8, <1>11, <2>2
    <3>2. stream.wire \in NamedWires => wire \in NamedWires
      BY <1>6, <2>2, WireShapes, OutcomeShapes
    <3>3. stream.wire \in UnnamedWires => wire \in UnnamedWires
      BY <1>6, <2>2, WireShapes, OutcomeShapes
    <3>4. stream.wire # Refusal /\ stream.wire # <<Signal("end")>>
      BY <1>1, <1>11, <2>2, WireShapes, RefusalShape
    <3>5. stream.kind = "question" => home[q] # None /\ StreamStands'
      BY <1>8, <1>11, <2>1, <2>2, <3>2, <3>3, <3>4, PageParts DEF StreamOK, StreamStands
    <3>6. Brings(wire, Signal("done")) => db'[q] = "answered"
      BY <1>1, <1>2, <1>6, <1>11, <2>2
    <3>7. db'[q] = "answered" => Brings(wire, Signal("done"))
      BY <1>2, <1>6, <2>2, <3>1
    <3>8. \A s \in Tokens : Brings(wire, Approval(s)) => paused'[home[q]] = s
      BY <1>1, <1>3, <1>6, <2>2, <3>1
    <3>9. stream.kind = "review" => /\ home[q] = active /\ stream.conv = active /\ active # None
                                    /\ wire \in NamedWires
      BY <3>2, PageParts DEF StreamOK
    <3> QED
      BY SMTT(30), <1>8, <1>9, <1>11, <2>2, <3>1, <3>5, <3>6, <3>7, <3>8, <3>9, PageTypes DEF StreamOK
  <2>3. CASE ~heard
    <3>1. stream' = stream /\ stream.q # run.q
      BY <1>8, <1>10, <2>3
    <3>2. CASE Streaming
      <4>1. q \in Questions /\ db'[q] = db[q]
        BY <1>2, <3>1, <3>2, PageTypes
      <4>2. \A s \in Tokens : Brings(stream.wire, Approval(s)) =>
              (home[q] \in exists => paused'[home[q]] = s)
        <5>1. \A s \in Tokens : s # None
          BY DEF Tokens, None
        <5> QED
          BY <1>1, <1>3, <1>4, <4>1, <5>1, PageParts DEF StreamOK
      <4>3. StreamStands => StreamStands'
        BY <2>1, <3>1 DEF StreamStands
      <4> QED
        BY <1>9, <3>1, <3>2, <4>1, <4>2, <4>3, PageParts DEF StreamOK
    <3>3. CASE ~Streaming
      <4>1. stream'.kind = "none" /\ stream' = NoStream /\ stream'.wire = <<>>
        BY <3>1, <3>3, PageTypes DEF NoStream
      <4> QED
        BY <1>9, <3>3, <4>1, WireShapes DEF StreamOK
    <3> QED
      BY <3>2, <3>3
  <2> QED
    BY <2>2, <2>3
<1>16. CardsOK'
  <2>1. \A p \in Questions : screen[p].card = "pending" => p # run.q /\ db'[p] = db[p]
    BY <1>1, <1>2
  <2>2. CardIsCurrent'
    <3> SUFFICES ASSUME NEW p \in Questions, screen[p].card = "pending", home[p] \in exists
                 PROVE  paused'[home[p]] = screen[p].token
      BY DEF CardIsCurrent
    <3>1. paused[home[p]] = screen[p].token
      BY PageParts DEF CardsOK, CardIsCurrent
    <3>2. screen[p].token # None
      BY PageParts DEF PageTypeOK
    <3> QED
      BY <1>1, <1>3, <1>4, <3>1, <3>2
  <2> QED
    BY <1>8, <1>9, <2>1, <2>2, PageParts DEF CardsOK
<1>17. ScreenOwn'
  BY <1>8, PageParts DEF ScreenOwn
<1>18. DueOK'
  <2>1. LoadUnderWay(active)' <=> LoadUnderWay(active)
    BY DEF LoadUnderWay
  <2>2. LoadIsAlone => LoadIsAlone'
    BY <1>9 DEF LoadIsAlone
  <2>3. ScreenKeepsAnswers'
    BY <2>1, PageParts DEF DueOK, ScreenKeepsAnswers
  <2>4. \A p \in due : home[p] = active /\ active # None /\ db'[p] = "answered"
    BY SMTT(30), <1>1, <1>2, PageParts, PageTypes DEF DueOK
  <2> QED
    BY <1>8, <1>9, <2>1, <2>2, <2>3, <2>4, PageParts DEF DueOK
<1> QED
  BY <1>12, <1>13, <1>14, <1>15, <1>16, <1>17, <1>18 DEF PageInv

LEMMA RunEnding ==
    ASSUME PageInv, RunEnds
    PROVE  PageInv'
<1>1. tokens \in 0 .. MaxTokens /\ tokens \in Nat /\ MaxTokens \in Nat
  BY PageParts, PageTypes DEF PageTypeOK
<1>2. CASE RunPauses
  <2> DEFINE t == tokens + 1
             e == [type |-> "approval", token |-> t]
  <2>1. /\ run # NoRun /\ tokens' = t /\ paused' = [paused EXCEPT ![run.conv] = t] /\ t \in Tokens
        /\ Emit(<<e, Signal("end")>>) /\ run' = NoRun /\ db' = db
        /\ UNCHANGED <<active, skip, screen, loads, deleting, asked, created, exists, home, due, excused>>
    BY <1>1, <1>2 DEF RunPauses, history, Tokens
  <2>2. e \in Outcomes /\ e # Signal("done") /\ \A s : e = Approval(s) => t = s
    BY <2>1 DEF Outcomes, Approval, Signal
  <2>3. t \in 0 .. MaxTokens /\ tokens <= t /\ t \in 0 .. t
    BY <1>1, <2>1 DEF Tokens
  <2> HIDE DEF t, e
  <2> QED
    BY <2>1, <2>2, <2>3, RunIsOver
<1>3. CASE RunAnswers
  <2>1. /\ run.conv \in exists /\ tokens' = tokens /\ paused' = paused /\ run' = NoRun
        /\ db' = [db EXCEPT ![run.q] = "answered"] /\ Emit(<<Signal("done"), Signal("end")>>)
        /\ UNCHANGED <<active, skip, screen, loads, deleting, asked, created, exists, home, due, excused>>
    BY <1>3 DEF RunAnswers, history
  <2>2. run # NoRun
    BY <2>1, PageTypes DEF NoRun
  <2>3. paused[run.conv] = None /\ None = 0 /\ paused \in [Convs -> 0 .. tokens]
    BY <2>2, PageParts, PageTypes DEF RunOK, PageTypeOK
  <2>4. paused' = [paused EXCEPT ![run.conv] = None]
    BY <2>1, <2>3
  <2>5. None \in 0 .. tokens /\ tokens <= tokens
    BY <1>1, <2>3
  <2> QED
    BY <1>1, <2>1, <2>2, <2>4, <2>5, ErrorOutcome, RunIsOver
<1>4. CASE RunFails
  <2>1. PICK t \in {None, run.was} : paused' = [paused EXCEPT ![run.conv] = t]
    BY <1>4 DEF RunFails
  <2>2. /\ run # NoRun /\ tokens' = tokens /\ run' = NoRun /\ db' = db
        /\ Emit(<<Signal("error"), Signal("end")>>)
        /\ UNCHANGED <<active, skip, screen, loads, deleting, asked, created, exists, home, due, excused>>
    BY <1>4, ErrorOutcome DEF RunFails, history
  <2>3. t \in 0 .. tokens /\ tokens <= tokens
    <3>1. run.was \in 0 .. tokens /\ None = 0
      BY PageParts, PageTypes DEF PageTypeOK
    <3> QED
      BY <1>1, <2>1, <3>1
  <2> QED
    BY <1>1, <2>1, <2>2, <2>3, ErrorOutcome, RunIsOver
<1> QED
  BY <1>2, <1>3, <1>4 DEF RunEnds

-----------------------------------------------------------------------------
(* The page: what it reads *)

LEMMA ConversationRead ==
    ASSUME PageInv, ReadConversation
    PROVE  PageInv'
<1> DEFINE q == stream.q
           wire == Tail(stream.wire)
<1>1. /\ Reading("conversation") /\ ShowConversation(home[q], TRUE)
      /\ stream' = Moved(stream.open, wire)
      /\ UNCHANGED <<screen, deleting, asked, created, exists, home, db, paused, run, tokens, due, excused>>
  <2>1. [stream EXCEPT !.wire = Tail(@)] = Moved(stream.open, wire)
    BY StreamType, PageParts DEF Moved, PageTypeOK
  <2> QED
    BY <2>1 DEF ReadConversation, JoinConversation, NextEvent, server, history
<1>2. /\ Streaming /\ stream.open /\ q \in Questions
      /\ \/ stream.wire = <<Signal("conversation")>> /\ wire = <<>>
         \/ \E e \in Outcomes : /\ stream.wire = <<Signal("conversation"), e, Signal("end")>>
                                /\ wire = <<e, Signal("end")>>
  BY <1>1, Reads
<1> HIDE DEF wire
<1>3. /\ stream.wire \in UnnamedWires /\ ~(stream.wire \in NamedWires) /\ wire \in NamedWires
      /\ stream.wire # <<Signal("end")>> /\ stream.wire # Refusal
      /\ Unsettled(stream.wire) => Unsettled(wire)
      /\ \A f : Brings(wire, f) <=> Brings(stream.wire, f)
  <2>1. CASE stream.wire = <<Signal("conversation")>> /\ wire = <<>>
    BY <2>1, WireShapes, RefusalShape
  <2>2. ASSUME NEW e \in Outcomes, stream.wire = <<Signal("conversation"), e, Signal("end")>>,
               wire = <<e, Signal("end")>>
        PROVE  <1>3!:
    BY <2>2, OutcomeShapes, RefusalShape
  <2> QED
    BY <1>2, <2>1, <2>2
<1>4. /\ stream.kind = "question" /\ home[q] # None /\ stream.conv = active
      /\ stream.conv \in {None, home[q]} /\ (active = None => ~LoadUnderWay(home[q]))
  <2>1. stream.kind = "question"
    BY <1>2, <1>3, PageParts, StreamType DEF StreamOK, Streaming
  <2> QED
    BY <1>2, <1>3, <2>1, PageParts DEF StreamOK, StreamStands
<1>5. /\ active' = home[q] /\ skip' \in BOOLEAN /\ loads' = loads
      /\ active # None => active' = active
  BY <1>1, <1>4 DEF ShowConversation
<1>6. /\ stream' \in [kind : {"none", "question", "review"}, q : 0 .. asked, conv : 0 .. created,
                      token : 0 .. MaxTokens, open : BOOLEAN, wire : UnnamedWires \cup NamedWires]
      /\ stream'.kind = stream.kind /\ stream'.q = q /\ stream'.conv = stream.conv
      /\ stream'.open /\ stream'.wire = wire
  <2>1. stream.open \in BOOLEAN /\ wire \in UnnamedWires \cup NamedWires
        /\ created \in Nat /\ created <= created
    BY <1>3, StreamType, PageTypes
  <2> QED
    BY <1>1, <1>2, <2>1, StreamMoves
<1>7. Streaming'
  BY <1>2, <1>6 DEF Streaming
<1>8. PageTypeOK'
  <2>1. active' \in 0 .. created
    BY <1>2, <1>5, PageTypes
  <2> QED
    BY <1>1, <1>5, <1>6, <2>1, PageParts DEF PageTypeOK
<1>9. StoredOK' /\ LoadsOK'
  BY <1>1, <1>5, PageParts DEF StoredOK, LoadsOK
<1>10. RunOK'
  BY <1>1, <1>3, <1>6, PageParts DEF RunOK
<1>11. StreamOK'
  <2>1. StreamStands'
    BY <1>1, <1>3, <1>5, <1>6 DEF StreamStands
  <2> QED
    BY <1>1, <1>2, <1>3, <1>4, <1>6, <1>7, <2>1, WireShapes, PageTypes, PageParts DEF StreamOK
<1>12. CardsOK'
  BY <1>1, <1>2, <1>5, <1>6, PageParts DEF CardsOK, CardIsCurrent
<1>13. ScreenOwn'
  BY <1>1, <1>5, <1>6, PageParts DEF ScreenOwn
<1>14. DueOK'
  <2>1. \A p \in due : home[p] = active' /\ active' # None /\ db[p] = "answered" /\ active' = active
    BY <1>5, PageParts DEF DueOK
  <2>2. ~(~excused /\ LoadUnderWay(active))
    BY <1>2, PageParts DEF DueOK, LoadIsAlone
  <2>3. LoadUnderWay(active)' => (LoadUnderWay(active) /\ active' = active)
    BY <1>4, <1>5 DEF LoadUnderWay
  <2>4. ScreenKeepsAnswers'
    BY <1>1, <2>1, <2>2, PageParts DEF DueOK, ScreenKeepsAnswers
  <2>5. ~excused' => screen'[stream'.q].live
    BY <1>1, <1>2, <1>6, PageParts DEF DueOK
  <2> QED
    BY <1>1, <2>1, <2>2, <2>3, <2>4, <2>5 DEF DueOK
<1> QED
  BY <1>8, <1>9, <1>10, <1>11, <1>12, <1>13, <1>14 DEF PageInv

\* What an outcome that is read leaves: only its end.
LEMMA OutcomeRead ==
    ASSUME PageInv, stream.open, NEW e \in Outcomes, stream.wire = <<e, Signal("end")>>,
           stream' = Moved(stream.open, <<Signal("end")>>),
           UNCHANGED <<active, skip, loads, deleting, asked, created, exists, home, db, paused, run,
                       tokens, excused>>,
           screen' \in [Questions -> Entry],
           \A p \in Questions \ {stream.q} : screen'[p] = screen[p],
           screen'[stream.q].live <=> screen[stream.q].live,
           ~screen[stream.q].live => screen' = screen,
           (screen'[stream.q].card = "none") <=> (screen'[stream.q].token = None),
           screen'[stream.q].card # "none" =>
             screen'[stream.q].live /\ home[stream.q] = active /\ active # None,
           screen'[stream.q].card = "pending" =>
             /\ db[stream.q] # "answered"
             /\ home[stream.q] \in exists => paused[home[stream.q]] = screen'[stream.q].token,
           e = Signal("error") => (screen'[stream.q].live => screen'[stream.q].state = "failed"),
           due' \subseteq due \cup {stream.q},
           stream.q \in due' => /\ home[stream.q] = active /\ active # None /\ db[stream.q] = "answered"
                                /\ ~excused => screen'[stream.q].state = "answered"
    PROVE  PageInv'
<1> DEFINE q == stream.q
<1>1. q \in Questions /\ Streaming
  <2>1. stream.wire # <<>>
    BY OutcomeShapes
  <2> QED
    BY <2>1, PageTypes DEF NoStream
<1>2. /\ stream.wire \in NamedWires /\ ~(stream.wire \in UnnamedWires) /\ ~Unsettled(stream.wire)
      /\ stream.wire # <<Signal("end")>> /\ (stream.wire = Refusal => e = Signal("error"))
  <2>1. \A f, g : <<f, g>> = <<e, g>> => e = f
    OBVIOUS
  <2>2. stream.wire = Refusal => e = Signal("error")
    BY <2>1, ErrorOutcome
  <2> QED
    BY ZenonT(30), <2>2, OutcomeShapes
<1>3. /\ stream' \in [kind : {"none", "question", "review"}, q : 0 .. asked, conv : 0 .. created,
                      token : 0 .. MaxTokens, open : BOOLEAN, wire : UnnamedWires \cup NamedWires]
      /\ stream'.kind = stream.kind /\ stream'.q = q /\ stream'.conv = stream.conv
      /\ stream'.open /\ stream'.wire = <<Signal("end")>>
  <2>1. stream.open \in BOOLEAN /\ <<Signal("end")>> \in UnnamedWires \cup NamedWires
        /\ created \in Nat /\ created <= created
    BY WireShapes, StreamType, PageTypes
  <2> QED
    BY <2>1, StreamMoves
<1>4. Streaming'
  BY <1>1, <1>3 DEF Streaming
<1>5. run # NoRun => run.q # q /\ run.q \in Questions
  BY <1>2, PageParts, PageTypes DEF RunOK
<1> HIDE DEF q
<1>6. PageTypeOK'
  <2>1. \A p \in Questions : (screen'[p].card = "none") <=> (screen'[p].token = None)
    <3>1. \A p \in Questions : (screen[p].card = "none") <=> (screen[p].token = None)
      BY PageParts DEF PageTypeOK
    <3>2. \A p \in Questions : p # q => screen'[p] = screen[p]
      BY DEF q
    <3> QED
      BY <3>1, <3>2 DEF q
  <2>2. due' \subseteq Questions
    BY <1>1, PageTypes DEF q
  <2> QED
    BY <1>3, <2>1, <2>2, PageParts DEF PageTypeOK
<1>7. StoredOK' /\ LoadsOK'
  BY PageParts DEF StoredOK, LoadsOK
<1>8. RunOK'
  <2>1. run # NoRun => screen'[run.q] = screen[run.q]
    BY <1>5 DEF q
  <2> QED
    BY <1>3, <1>5, <2>1, PageParts DEF RunOK
<1>9. StreamOK'
  <2>1. StreamStands => StreamStands'
    BY <1>2, <1>3, WireShapes DEF StreamStands, q
  <2>2. \A f : ~Brings(stream'.wire, f)
    BY <1>3, WireShapes
  <2>3. stream'.wire \in NamedWires /\ home'[stream'.q] = home[q]
    BY <1>3, WireShapes
  <2>4. stream'.kind = "review" => /\ home'[stream'.q] = active' /\ stream'.conv = active'
                                   /\ active' # None
    BY <1>3, <2>3, PageParts DEF StreamOK, q
  <2>5. stream'.kind = "question" => home'[stream'.q] # None /\ StreamStands'
    BY <1>3, <2>1, <2>3, PageParts DEF StreamOK, q
  <2>6. stream'.q # None
    BY <1>1, <1>3, PageTypes
  <2> QED
    BY <1>3, <1>4, <2>2, <2>3, <2>4, <2>5, <2>6 DEF StreamOK
<1>10. CardsOK'
  <2>1. \A p \in Questions : screen'[p].card # "none" => screen'[p].live /\ home[p] = active /\ active # None
    BY PageParts DEF CardsOK, q
  <2>2. \A p \in Questions : screen'[p].card = "pending" => p = q
    BY <1>1, PageParts DEF CardsOK, q
  <2>3. CardIsCurrent'
    BY <2>2 DEF CardIsCurrent, q
  <2> QED
    BY <1>3, <2>1, <2>2, <2>3 DEF CardsOK, q
<1>11. ScreenOwn'
  BY <1>3, PageParts DEF ScreenOwn, q
<1>12. DueOK'
  <2>1. LoadUnderWay(active)' <=> LoadUnderWay(active)
    BY DEF LoadUnderWay
  <2>2. ~(~excused /\ LoadUnderWay(active))
    BY <1>1, PageParts DEF DueOK, LoadIsAlone
  <2>3. \A p \in due' : home[p] = active /\ active # None /\ db[p] = "answered"
    BY PageParts DEF DueOK, q
  <2>4. ScreenKeepsAnswers'
    <3> SUFFICES ASSUME ~excused, NEW p \in due', home[p] \in exists
                 PROVE  screen'[p].state = "answered"
      BY DEF ScreenKeepsAnswers
    <3>1. CASE p = q
      BY <3>1 DEF q
    <3>2. CASE p # q
      <4>1. p \in due /\ p \in Questions /\ screen'[p] = screen[p]
        BY <3>2, PageTypes DEF q
      <4> QED
        BY <2>2, <4>1, PageParts DEF DueOK, ScreenKeepsAnswers
    <3> QED
      BY <3>1, <3>2
  <2>5. ~excused => screen'[q].live
    BY <1>1, PageParts DEF DueOK, q
  <2> QED
    BY <1>3, <2>1, <2>2, <2>3, <2>4, <2>5 DEF DueOK
<1> QED
  BY <1>6, <1>7, <1>8, <1>9, <1>10, <1>11, <1>12 DEF PageInv

\* An outcome that is read from a stream that was not refused.
LEMMA OutcomeAtHand ==
    ASSUME PageInv, NEW type \in {"approval", "done", "error"}, Reading(type), NextEvent
    PROVE  /\ stream.open /\ Streaming /\ stream.q \in Questions
           /\ \E e \in Outcomes :
                /\ e.type = type /\ stream.wire = <<e, Signal("end")>> /\ Head(stream.wire) = e
                /\ stream' = Moved(stream.open, <<Signal("end")>>)
                /\ \A f : Brings(stream.wire, f) <=> f = e
                /\ e # Signal("done") => db[stream.q] # "answered"
                /\ e # Signal("error") => home[stream.q] = active /\ active # None
<1>1. /\ Streaming /\ stream.open /\ stream.q \in Questions
      /\ \E e \in Outcomes : /\ e.type = type /\ stream.wire = <<e, Signal("end")>>
                             /\ Head(stream.wire) = e /\ Tail(stream.wire) = <<Signal("end")>>
  <2>1. type \in {"conversation", "approval", "done", "error", "end"}
    OBVIOUS
  <2> QED
    BY <2>1, Reads
<1>2. PICK e \in Outcomes : /\ e.type = type /\ stream.wire = <<e, Signal("end")>>
                            /\ Head(stream.wire) = e /\ Tail(stream.wire) = <<Signal("end")>>
  BY <1>1
<1>3. stream' = Moved(stream.open, <<Signal("end")>>)
  <2>1. [stream EXCEPT !.wire = Tail(@)] = Moved(stream.open, Tail(stream.wire))
    BY PageParts DEF Moved, PageTypeOK
  <2> QED
    BY <1>2, <2>1 DEF NextEvent
<1>4. \A f : Brings(stream.wire, f) <=> f = e
  <2>1. \A f : Brings(<<e, Signal("end")>>, f) <=> f = e
    BY OutcomeShapes
  <2>2. stream.wire = <<e, Signal("end")>>
    BY <1>2
  <2> QED
    BY <2>1, <2>2
<1>5. stream.wire \in NamedWires /\ ~(stream.wire \in UnnamedWires) /\ stream.wire # <<Signal("end")>>
  BY <1>2, OutcomeShapes
<1>6. e # Signal("done") => db[stream.q] # "answered"
  BY <1>1, <1>4, <1>5, PageParts DEF StreamOK
<1>7. e # Signal("error") => home[stream.q] = active /\ active # None
  <2>1. e # Signal("error") => stream.wire # Refusal
    <3>1. \A f, g : <<f, g>> = <<e, g>> => e = f
      OBVIOUS
    <3> QED
      BY <1>2, <3>1, ErrorOutcome
  <2>2. CASE stream.kind = "review"
    BY <2>2, PageParts DEF StreamOK
  <2>3. CASE stream.kind = "question"
    BY <1>1, <1>5, <2>1, <2>3, PageParts DEF StreamOK, StreamStands
  <2> QED
    BY <1>1, <2>2, <2>3, StreamType DEF Streaming
<1> QED
  BY <1>1, <1>2, <1>3, <1>4, <1>6, <1>7

LEMMA ApprovalRead ==
    ASSUME PageInv, ReadApproval
    PROVE  PageInv'
<1> DEFINE q == stream.q
           card == [screen[q] EXCEPT !.card = "pending", !.token = Head(stream.wire).token,
                                     !.submitting = @ /\ screen[q].card = "pending"]
<1>1. /\ Reading("approval") /\ NextEvent /\ Update(q, card)
      /\ UNCHANGED <<active, skip, loads, deleting, asked, created, exists, home, db, paused, run,
                     tokens, due, excused>>
  BY DEF ReadApproval, server, history
<1>2. PICK e \in Outcomes :
        /\ e.type = "approval" /\ stream.wire = <<e, Signal("end")>> /\ Head(stream.wire) = e
        /\ stream' = Moved(stream.open, <<Signal("end")>>)
        /\ \A f : Brings(stream.wire, f) <=> f = e
        /\ e # Signal("done") => db[q] # "answered"
        /\ e # Signal("error") => home[q] = active /\ active # None
  BY <1>1, OutcomeAtHand
<1>3. stream.open /\ Streaming /\ q \in Questions
  BY <1>1, OutcomeAtHand
<1>4. e.token \in Tokens /\ e = Approval(e.token) /\ e # Signal("done") /\ e # Signal("error")
  BY <1>2, OutcomeTypes, ErrorOutcome
<1>5. home[q] = active /\ active # None /\ db[q] # "answered"
  BY <1>2, <1>4
<1>6. home[q] \in exists => paused[home[q]] = e.token
  BY <1>2, <1>4, PageParts DEF StreamOK
<1>7. /\ card \in Entry /\ card.card = "pending" /\ card.token = e.token
      /\ (card.live <=> screen[q].live)
  <2>1. screen[q] \in Entry
    BY <1>3, PageTypes
  <2> QED
    BY <1>2, <1>4, <2>1 DEF Entry
<1> HIDE DEF card
<1>8. /\ screen' \in [Questions -> Entry]
      /\ \A p \in Questions \ {q} : screen'[p] = screen[p]
      /\ \/ screen[q].live /\ screen'[q] = card
         \/ ~screen[q].live /\ screen' = screen
  BY <1>1, <1>3, <1>7, Updated
<1>9. q \notin due
  BY <1>5, PageParts DEF DueOK
<1>10. (screen'[q].card = "none") <=> (screen'[q].token = None)
  <2>1. e.token # None
    BY <1>4 DEF Tokens, None
  <2> QED
    BY <1>3, <1>7, <1>8, <2>1, PageParts DEF PageTypeOK
<1>11. /\ screen'[q].live <=> screen[q].live
       /\ ~screen[q].live => screen' = screen
       /\ screen'[q].card # "none" => screen'[q].live
  BY <1>3, <1>7, <1>8, PageParts DEF CardsOK
<1>12. screen'[q].card = "pending" =>
         /\ db[q] # "answered"
         /\ home[q] \in exists => paused[home[q]] = screen'[q].token
  BY <1>3, <1>5, <1>6, <1>7, <1>8, PageParts DEF CardsOK, CardIsCurrent
<1> QED
  BY <1>1, <1>2, <1>3, <1>4, <1>5, <1>8, <1>9, <1>10, <1>11, <1>12, OutcomeRead

LEMMA DoneRead ==
    ASSUME PageInv, ReadDone
    PROVE  PageInv'
<1> DEFINE q == stream.q
           answer == [Shown("answered") EXCEPT !.live = TRUE]
<1>1. /\ Reading("done") /\ NextEvent /\ Update(q, answer) /\ due' = due \cup {q}
      /\ UNCHANGED <<active, skip, loads, deleting, asked, created, exists, home, db, paused, run,
                     tokens, excused>>
  BY DEF ReadDone, Finish, server
<1>2. PICK e \in Outcomes :
        /\ e.type = "done" /\ stream.wire = <<e, Signal("end")>>
        /\ stream' = Moved(stream.open, <<Signal("end")>>)
        /\ \A f : Brings(stream.wire, f) <=> f = e
        /\ e # Signal("error") => home[q] = active /\ active # None
  BY <1>1, OutcomeAtHand
<1>3. stream.open /\ Streaming /\ q \in Questions
  BY <1>1, OutcomeAtHand
<1>4. e = Signal("done") /\ e # Signal("error")
  BY <1>2, OutcomeTypes, ErrorOutcome
<1>5. home[q] = active /\ active # None /\ db[q] = "answered"
  BY <1>2, <1>4, PageParts DEF StreamOK
<1>6. /\ answer \in Entry /\ answer.state = "answered" /\ answer.card = "none"
      /\ answer.token = None /\ answer.live
  BY DEF Shown, Entry
<1> HIDE DEF answer
<1>7. /\ screen' \in [Questions -> Entry]
      /\ \A p \in Questions \ {q} : screen'[p] = screen[p]
      /\ \/ screen[q].live /\ screen'[q] = answer
         \/ ~screen[q].live /\ screen' = screen
  BY <1>1, <1>3, <1>6, Updated
<1>8. (screen'[q].card = "none") <=> (screen'[q].token = None)
  BY <1>3, <1>6, <1>7, PageParts DEF PageTypeOK
<1>9. /\ screen'[q].live <=> screen[q].live
      /\ ~screen[q].live => screen' = screen
      /\ screen'[q].card = "none"
  BY <1>3, <1>6, <1>7, PageParts DEF CardsOK
<1>10. ~excused => screen'[q].state = "answered"
  BY <1>3, <1>6, <1>7, PageParts DEF DueOK
<1> QED
  BY <1>1, <1>2, <1>3, <1>4, <1>5, <1>7, <1>8, <1>9, <1>10, OutcomeRead

LEMMA ErrorRead ==
    ASSUME PageInv, ReadError
    PROVE  PageInv'
<1> DEFINE q == stream.q
<1>1. /\ Reading("error") /\ NextEvent /\ Update(q, Failed(q))
      /\ UNCHANGED <<active, skip, loads, deleting, asked, created, exists, home, db, paused, run,
                     tokens, due, excused>>
  BY DEF ReadError, Failed, server, history
<1>2. PICK e \in Outcomes :
        /\ e.type = "error" /\ stream.wire = <<e, Signal("end")>>
        /\ stream' = Moved(stream.open, <<Signal("end")>>)
        /\ e # Signal("done") => db[q] # "answered"
  BY <1>1, OutcomeAtHand
<1>3. stream.open /\ Streaming /\ q \in Questions
  BY <1>1, OutcomeAtHand
<1>4. e = Signal("error") /\ db[q] # "answered"
  BY <1>2, OutcomeTypes, ErrorOutcome
<1>5. q \notin due
  BY <1>4, PageParts DEF DueOK
<1>6. /\ Failed(q) \in Entry /\ Failed(q).state = "failed"
      /\ Failed(q).live <=> screen[q].live
      /\ Failed(q).card = screen[q].card /\ Failed(q).token = screen[q].token
  BY <1>3, FailedEntry
<1>7. /\ screen' \in [Questions -> Entry]
      /\ \A p \in Questions \ {q} : screen'[p] = screen[p]
      /\ \/ screen[q].live /\ screen'[q] = Failed(q)
         \/ ~screen[q].live /\ screen' = screen
  BY <1>1, <1>3, <1>6, Updated
<1>8. /\ screen'[q].live <=> screen[q].live
      /\ ~screen[q].live => screen' = screen
      /\ screen'[q].card = screen[q].card /\ screen'[q].token = screen[q].token
      /\ screen'[q].live => screen'[q].state = "failed"
  BY <1>6, <1>7
<1>9. (screen'[q].card = "none") <=> (screen'[q].token = None)
  BY <1>3, <1>8, PageParts DEF PageTypeOK
<1>10. /\ screen'[q].card # "none" => screen'[q].live /\ home[q] = active /\ active # None
       /\ screen'[q].card = "pending" =>
            /\ db[q] # "answered"
            /\ home[q] \in exists => paused[home[q]] = screen'[q].token
  BY <1>3, <1>8, PageParts DEF CardsOK, CardIsCurrent
<1> QED
  BY <1>1, <1>2, <1>3, <1>5, <1>7, <1>8, <1>9, <1>10, OutcomeRead

-----------------------------------------------------------------------------
(* The page: theorems *)

LEMMA PageInit ==
    ChatInit => PageInv
<1> SUFFICES ASSUME ChatInit
             PROVE  PageInv
  OBVIOUS
<1>1. {MaxConvs, MaxQuestions, MaxTokens, MaxLoads} \subseteq Nat \ {0}
  BY ChatAssumption
<1>2. /\ active = None /\ skip = FALSE /\ screen = Blank /\ loads = <<>> /\ stream = NoStream
      /\ deleting = {} /\ asked = 0 /\ created = 0 /\ exists = {} /\ run = NoRun /\ tokens = 0
      /\ due = {} /\ excused = FALSE /\ home = [q \in Questions |-> None]
      /\ db = [q \in Questions |-> "off"] /\ paused = [c \in Convs |-> None]
  BY DEF ChatInit
<1>3. /\ stream \in [kind : {"none", "question", "review"}, q : 0 .. asked, conv : 0 .. created,
                     token : 0 .. MaxTokens, open : BOOLEAN, wire : UnnamedWires \cup NamedWires]
      /\ run \in [q : 0 .. asked, conv : 0 .. created, was : 0 .. tokens]
      /\ stream.kind = "none" /\ stream.wire = <<>>
  <2>1. 0 \in 0 .. 0 /\ 0 \in 0 .. MaxTokens
    BY <1>1
  <2> QED
    BY <1>2, <2>1, WireShapes DEF NoStream, NoRun, None
<1>4. PageTypeOK
  <2>1. loads \in Seq(MessageLoad) /\ Len(loads) <= MaxLoads
    BY <1>1, <1>2
  <2>2. /\ home \in [Questions -> 0 .. created] /\ db \in [Questions -> {"off", "asked", "answered"}]
        /\ paused \in [Convs -> 0 .. tokens]
    BY <1>2 DEF None
  <2>3. /\ screen \in [Questions -> Entry]
        /\ \A q \in Questions : (screen[q].card = "none") <=> (screen[q].token = None)
    BY <1>2, NothingShown
  <2>4. /\ active \in 0 .. created /\ asked \in 0 .. MaxQuestions /\ created \in 0 .. MaxConvs
        /\ tokens \in 0 .. MaxTokens
    BY <1>1, <1>2 DEF None
  <2>5. /\ skip \in BOOLEAN /\ excused \in BOOLEAN /\ due \subseteq Questions
        /\ exists \subseteq 1 .. created /\ deleting \subseteq 1 .. created
    BY <1>2
  <2> QED
    BY <1>3, <2>1, <2>2, <2>3, <2>4, <2>5 DEF PageTypeOK
<1>5. StoredOK /\ LoadsOK /\ RunOK
  BY <1>2 DEF StoredOK, LoadsOK, RunOK
<1>6. StreamOK
  BY <1>2, <1>3, WireShapes DEF StreamOK, Streaming
<1>7. CardsOK /\ ScreenOwn
  BY <1>2, NothingShown DEF CardsOK, CardIsCurrent, ScreenOwn
<1>8. DueOK
  BY <1>2, <1>3 DEF DueOK, ScreenKeepsAnswers, LoadUnderWay, Streaming
<1> QED
  BY <1>4, <1>5, <1>6, <1>7, <1>8 DEF PageInv

LEMMA PageSteps ==
    PageInv /\ [ChatNext]_chatVars => PageInv'
<1> SUFFICES ASSUME PageInv, [ChatNext]_chatVars
             PROVE  PageInv'
  OBVIOUS
<1>1. CASE UserActs
  <2>1. CASE NewConversation
    <3>1. ShowNothing /\ stream' = NoStream /\ UNCHANGED <<asked, server>> /\ deleting' \subseteq deleting
      BY <2>1, PageTypes DEF NewConversation
    <3> QED
      BY <3>1, ShowsNothing
  <2>2. CASE Leave
    BY <2>2, LeavesPage
  <2>3. ASSUME NEW saved \in BOOLEAN, AskQuestion(saved)
        PROVE  PageInv'
    BY <2>3, AsksQuestion
  <2>4. ASSUME NEW q \in Questions, Review(q)
        PROVE  PageInv'
    BY <2>4, ReviewsBusy, ReviewsIdle
  <2>5. ASSUME NEW c \in Convs, SelectConversation(c) \/ DeleteConversation(c)
        PROVE  PageInv'
    BY <2>5, SelectsConversation, DeletesConversation
  <2> QED
    BY <1>1, <2>1, <2>2, <2>3, <2>4, <2>5 DEF UserActs
<1>2. CASE RequestAnswered
  BY <1>2, QuestionAccepted, ReviewAccepted, RequestRefused DEF RequestAnswered
<1>3. CASE RunEnds
  BY <1>3, RunEnding
<1>4. CASE ReadEvent
  BY <1>4, ConversationRead, ApprovalRead, DoneRead, ErrorRead, EndRead DEF ReadEvent
<1>5. CASE StreamBreaks
  BY <1>5, StreamBroken
<1>6. ASSUME NEW c \in Convs, DeletionReturns(c)
      PROVE  PageInv'
  BY <1>6, DeletesConversation
<1>7. ASSUME NEW i \in DOMAIN loads, ReadMessages(i) \/ MessagesArrive(i) \/ LoadFails(i)
      PROVE  PageInv'
  BY <1>7, MessagesRead, LoadEnds
<1>8. CASE UNCHANGED chatVars
  <2>1. /\ UNCHANGED <<active, skip, loads, stream, asked, created, home, db, paused,
                       run, tokens, due, excused>>
        /\ screen' = screen /\ exists' = exists /\ deleting' = deleting
    BY <1>8 DEF chatVars, page, server, history
  <2>2. exists' \subseteq exists /\ deleting' \subseteq 1 .. created /\ screen' \in [Questions -> Entry]
    BY <2>1, PageParts, PageTypes DEF PageTypeOK
  <2> QED
    BY <2>1, <2>2, PageStays
<1> QED
  BY <1>1, <1>2, <1>3, <1>4, <1>5, <1>6, <1>7, <1>8 DEF ChatNext

LEMMA PageInductive ==
    ChatSpec => []PageInv
  BY PageInit, PageSteps, PTL DEF ChatSpec

LEMMA WireEvents ==
    ASSUME NEW wire \in UnnamedWires \cup NamedWires
    PROVE  \A i \in DOMAIN wire : wire[i] \in Event
<1>1. Signal("conversation") \in Event /\ Signal("end") \in Event
  BY SignalTypes
<1>2. ASSUME NEW e \in Outcomes
      PROVE  /\ \A i \in DOMAIN <<e, Signal("end")>> : <<e, Signal("end")>>[i] \in Event
             /\ \A i \in DOMAIN <<Signal("conversation"), e, Signal("end")>> :
                  <<Signal("conversation"), e, Signal("end")>>[i] \in Event
  <2>1. e \in Event
    BY OutcomeTypes
  <2>2. \A i \in DOMAIN <<e, Signal("end")>> : <<e, Signal("end")>>[i] \in Event
    BY <1>1, <2>1
  <2>3. \A i \in DOMAIN <<Signal("conversation"), e, Signal("end")>> :
          <<Signal("conversation"), e, Signal("end")>>[i] \in Event
    BY <1>1, <2>1
  <2> QED
    BY <2>2, <2>3
<1>3. CASE wire = <<>>
  BY <1>3
<1>4. CASE wire = <<Signal("conversation")>>
  BY <1>1, <1>4
<1>5. CASE wire = <<Signal("end")>>
  BY <1>1, <1>5
<1> QED
  BY <1>2, <1>3, <1>4, <1>5, WireCases, Zenon

\* Type correctness of the page and of what it knows of the server, with a
\* card having a token exactly if there is one (pages/Chat.tsx).
THEOREM PageIsTyped == ChatSpec => []ChatTypeOK
<1>1. PageInv => ChatTypeOK
  <2> SUFFICES ASSUME PageInv
               PROVE  ChatTypeOK
    OBVIOUS
  <2>1. active \in Convs \cup {None} /\ exists \subseteq 1 .. created /\ deleting \subseteq 1 .. created
    BY PageTypes DEF Convs, None
  <2>2. \A i \in DOMAIN stream.wire : stream.wire[i] \in Event
    BY StreamType, WireEvents
  <2>3. \A q \in Questions : (screen[q].card = "none") = (screen[q].token = None)
    BY PageParts DEF PageTypeOK
  <2> QED
    BY <2>1, <2>2, <2>3, PageParts, PageTypes DEF ChatTypeOK, PageTypeOK
<1> QED
  BY <1>1, PageInductive, PTL

\* A question on the screen, its answer or its card belongs to the conversation
\* the page is on, whatever loads, deletions and streams cross a selection: what
\* is asked next continues what is seen.
THEOREM ScreenIsOfTheActive == ChatSpec => []ScreenIsActive
<1>1. PageInv => ScreenIsActive
  BY PageParts DEF ScreenOwn, ScreenIsActive
<1> QED
  BY <1>1, PageInductive, PTL

\* What is stored of a conversation when it is selected, and every answer read
\* since, stays on the screen, but for the five ways excused names: no late load,
\* crossing stream or deletion of another conversation takes an answer away.
THEOREM AnswersStayOnScreen == ChatSpec => []ScreenKeepsAnswers
<1>1. PageInv => ScreenKeepsAnswers
  BY PageParts DEF DueOK
<1> QED
  BY <1>1, PageInductive, PTL

\* A card that can be answered holds the token its thread is paused under: no
\* later question, failed run or broken stream leaves a stale card behind.
THEOREM PendingCardIsCurrent == ChatSpec => []CardIsCurrent
<1>1. PageInv => CardIsCurrent
  BY PageParts DEF CardsOK
<1> QED
  BY <1>1, PageInductive, PTL
=============================================================================
