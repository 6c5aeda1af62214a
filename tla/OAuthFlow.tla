----------------------------- MODULE OAuthFlow -----------------------------
(***************************************************************************)
(* Logging in, and linking an account, through a provider: what one        *)
(* browser, with several tabs, does to its session.                        *)
(*                                                                         *)
(* A flow puts a random state into the session and leaves for the provider; *)
(* the callback compares and takes it out again.  When the provider's      *)
(* email is that of an account, the callback leaves a signed token in the  *)
(* session and shows a page that asks to confirm the link; the answer says *)
(* yes or no, the rest is in the token.                                    *)
(*                                                                         *)
(* A request loads the whole session when it begins and saves the whole of *)
(* it when it ends, if it has changed it: the last one wins.  A login      *)
(* throws the session away and starts another.  The accounts are those of  *)
(* AccountLinks, whose steps are the committed transactions of             *)
(* OAuthAccounts.                                                          *)
(***************************************************************************)
EXTENDS Naturals

CONSTANTS Users, Emails,
          Ids,       \* accounts at the providers
          Providers,
          Provider,  \* Provider[i]: where i is an account
          Email,     \* Email[i]: its verified email
          Flows,     \* the states that may be drawn: each is new
          Keys,      \* session keys
          Requests,  \* requests of the browser in flight
          MaxOverlaps, \* bound on requests that begin while another is in flight
          None

ASSUME ConstantsAssumption ==
    /\ Provider \in [Ids -> Providers]
    /\ Email \in [Ids -> Emails]
    /\ MaxOverlaps \in Nat
    /\ None \notin Users \cup Emails \cup Ids \cup Flows \cup Keys

VARIABLES row, accounts, \* the accounts and their provider links
          store,   \* store[k]: the session kept under k, None when there is none
          cookie,  \* the session key the browser sends
          flow,    \* flow[f]: what f was drawn for
          req,     \* req[r]: the request in slot r
          past,    \* what has happened so far (history)
          overlaps \* how often a request began while another was in flight (history)

sessions == <<store, cookie>>
history == <<past, overlaps>>
vars == <<row, accounts, sessions, flow, req, history>>

Links == INSTANCE AccountLinks

Pending == [id : Ids, user : Users]
Session == [user : Users \cup {None}, state : Flows \cup {None}, pending : Pending \cup {None}]
NewSession == [user |-> None, state |-> None, pending |-> None]

Flow == [provider : Providers, action : {"login", "link"}, owner : Users \cup {None}]

ASSUME NoneIsNoRecord == None \notin Session \cup Pending \cup Flow

\* shown: the confirmation page shown last; open: the flow begun last, until it is
\* used or given up; used: the flows accepted, twice: those accepted again, lost:
\* those accepted by a request that died before it saved the session.
\* All of it is forgotten when two requests overlap.
Past == [shown : Pending \cup {None}, open : Flows \cup {None},
         used : SUBSET Flows, twice : SUBSET Flows, lost : SUBSET Flows]
Overlapped == past = None
Remember(new) == past' = (IF Overlapped THEN None ELSE new) /\ UNCHANGED overlaps

Steps == {"idle", "loaded", "exchange", "link", "lookup", "enter", "confirm",
          "login", "show", "save"}
Request == [step : Steps, key : Keys \cup {None}, data : Session,
            user : Users \cup {None}, flow : Flows \cup {None}, id : Ids \cup {None}]
Idle == [step |-> "idle", key |-> None, data |-> NewSession,
         user |-> None, flow |-> None, id |-> None]

Active(u) == row[u].status = "active"
Owns(u, i) == [owner |-> u, id |-> i] \in accounts

\* A key nobody has.
Fresh(k) == store[k] = None /\ cookie # k /\ \A r \in Requests : req[r].key # k

Goto(r, step) == req' = [req EXCEPT ![r].step = step]
End(r) == req' = [req EXCEPT ![r] = Idle]

Init ==
    /\ row \in [Users -> [status : {"active", "suspended"}, email : Emails]
                         \cup {[status |-> "absent", email |-> None]}]
    /\ Links!Init
    /\ store = [k \in Keys |-> None]
    /\ cookie = None
    /\ flow = [f \in Flows |-> None]
    /\ req = [r \in Requests |-> Idle]
    /\ past = [shown |-> None, open |-> None, used |-> {}, twice |-> {}, lost |-> {}]
    /\ overlaps = 0

-----------------------------------------------------------------------------
(* Any request                                                             *)

\* The session is loaded, get_current_user reads the active user it names.
Load(r) ==
    LET found == cookie # None /\ store[cookie] # None
        data  == IF found THEN store[cookie] ELSE NewSession IN
    /\ req[r].step = "idle"
    /\ req' = [req EXCEPT ![r] =
          [Idle EXCEPT !.step = "loaded", !.key = IF found THEN cookie ELSE None,
                       !.data = data,
                       !.user = IF data.user # None /\ Active(data.user) THEN data.user ELSE None]]
    /\ IF \A s \in Requests \ {r} : req[s].step = "idle" THEN UNCHANGED history
       ELSE overlaps < MaxOverlaps /\ overlaps' = overlaps + 1 /\ past' = None
    /\ UNCHANGED <<row, accounts, sessions, flow>>

\* It leaves the session alone: most pages, and every check that fails.
Finish(r) ==
    /\ req[r].step = "loaded"
    /\ End(r)
    /\ UNCHANGED <<row, accounts, sessions, flow, history>>

\* set_browser_timezone changes another part of the session.
SetTimezone(r) ==
    /\ req[r].step = "loaded"
    /\ Goto(r, "save")
    /\ UNCHANGED <<row, accounts, sessions, flow, history>>

\* The end of a request that has changed its session: a session of its own is
\* created, one that is gone is not (SessionInterrupted), any other replaced.
Save(r) ==
    /\ req[r].step \in {"save", "show"}
    /\ \/ \E k \in Keys :
             /\ IF req[r].key = None THEN Fresh(k) ELSE k = req[r].key /\ store[k] # None
             /\ store' = [store EXCEPT ![k] = req[r].data]
             /\ cookie' = k
             /\ Remember([past EXCEPT
                   !.shown = IF req[r].step = "show"
                             THEN [id |-> req[r].id, user |-> req[r].user] ELSE @,
                   !.open = IF req[r].flow # None /\ req[r].data.state = req[r].flow
                            THEN req[r].flow ELSE @])
       \/ /\ req[r].key # None
          /\ store[req[r].key] = None
          /\ UNCHANGED <<sessions, history>>
    /\ End(r)
    /\ UNCHANGED <<row, accounts, flow>>

\* login_user: the session is flushed, all but the timezone is given up, and the
\* user gets a session under a new key.
Login(r) ==
    \E k \in Keys :
        /\ req[r].step = "login"
        /\ Fresh(k)
        /\ store' = [j \in Keys |-> IF j = k THEN [NewSession EXCEPT !.user = req[r].user]
                                    ELSE IF j = req[r].key THEN None ELSE store[j]]
        /\ cookie' = k
        /\ Remember([past EXCEPT !.open = None])
        /\ End(r)
        /\ UNCHANGED <<row, accounts, flow>>

\* login_view, with a password, where nobody is logged in.
PasswordLogin(r, u) ==
    /\ req[r].step = "loaded"
    /\ req[r].user = None
    /\ Active(u)
    /\ req' = [req EXCEPT ![r].step = "login", ![r].user = u]
    /\ UNCHANGED <<row, accounts, sessions, flow, history>>

\* logout_user
Logout(r) ==
    /\ req[r].step = "loaded"
    /\ req[r].key # None
    /\ store' = [store EXCEPT ![req[r].key] = None]
    /\ cookie' = None
    /\ Remember([past EXCEPT !.open = None])
    /\ End(r)
    /\ UNCHANGED <<row, accounts, flow>>

-----------------------------------------------------------------------------
(* begin_oauth_flow: oauth_start_view and oauth_link_start_view            *)

Start(r, f, p, action) ==
    /\ req[r].step = "loaded"
    /\ flow[f] = None
    /\ action = "link" => req[r].user # None
    /\ flow' = [flow EXCEPT ![f] =
          [provider |-> p, action |-> action,
           owner |-> IF action = "link" THEN req[r].user ELSE None]]
    /\ req' = [req EXCEPT ![r].step = "save", ![r].flow = f, ![r].data.state = f]
    /\ UNCHANGED <<row, accounts, sessions, history>>

-----------------------------------------------------------------------------
(* oauth_callback_view                                                     *)

\* The session loaded holds the state of the callback, for this provider.
Callback(r, i) ==
    LET f == req[r].data.state IN
    /\ req[r].step = "loaded"
    /\ f # None
    /\ Provider[i] = flow[f].provider
    /\ req' = [req EXCEPT ![r].step = "exchange", ![r].flow = f, ![r].id = i]
    /\ UNCHANGED <<row, accounts, sessions, flow, history>>

\* Mutation: a state is given up when the exchange fails.
ExchangeFailsForGood(r) ==
    /\ req[r].step = "exchange"
    /\ req' = [req EXCEPT ![r].step = "save", ![r].data.state = None]
    /\ UNCHANGED <<row, accounts, sessions, flow, history>>

\* The provider refuses or does not answer: the session is as it was.
ExchangeFails(r) ==
    /\ req[r].step = "exchange"
    /\ End(r)
    /\ UNCHANGED <<row, accounts, sessions, flow, history>>

Accept(f) == Remember([past EXCEPT !.open = IF @ = f THEN None ELSE @,
                                   !.used = @ \cup {f},
                                   !.twice = @ \cup ({f} \cap past.used)])

\* Mutation: the state is not taken out of the session.
ExchangeKeepsState(r) ==
    /\ req[r].step = "exchange"
    /\ Goto(r, IF flow[req[r].flow].action = "link" THEN "link" ELSE "lookup")
    /\ Accept(req[r].flow)
    /\ UNCHANGED <<row, accounts, sessions, flow>>

\* The profile is there: the state is taken out of the copy of the session.
Exchange(r) ==
    /\ req[r].step = "exchange"
    /\ req' = [req EXCEPT ![r].step = IF flow[req[r].flow].action = "link" THEN "link" ELSE "lookup",
                          ![r].data.state = None]
    /\ Accept(req[r].flow)
    /\ UNCHANGED <<row, accounts, sessions, flow>>

\* link_oauth_account_to_user, as it commits.
LinkAccount(u, i) ==
    /\ row[u].email = Email[i]
    /\ \/ Links!Link(u, i)
       \/ Active(u) /\ Owns(u, i) /\ UNCHANGED <<row, accounts>>

LinkRefused(u, i) ==
    /\ \/ row[u].email # Email[i]
       \/ ~Active(u)
       \/ ~Owns(u, i) /\ \/ ~Links!Unlinked(i)
                         \/ \E a \in accounts : a.owner = u /\ Provider[a.id] = Provider[i]
    /\ UNCHANGED <<row, accounts>>

\* The user logged in is the one who began the flow, and gets the link if it may.
LinkCallback(r) ==
    LET u == req[r].user IN
    /\ req[r].step = "link"
    /\ IF u = None \/ u # flow[req[r].flow].owner THEN UNCHANGED <<row, accounts>>
       ELSE LinkAccount(u, req[r].id) \/ LinkRefused(u, req[r].id)
    /\ Goto(r, "save")
    /\ UNCHANGED <<sessions, flow, history>>

\* Mutation: a token that is there is kept.
LookupKeepsPending(r) ==
    LET i == req[r].id
        known == {u \in Users : row[u].email = Email[i] /\ Active(u)} IN
    /\ req[r].step = "lookup"
    /\ IF Links!Unlinked(i) /\ known # {}
       THEN \E u \in known :
               req' = [req EXCEPT ![r].step = "show", ![r].user = u,
                          ![r].data.pending = IF @ = None THEN [id |-> i, user |-> u] ELSE @]
       ELSE Goto(r, "enter")
    /\ UNCHANGED <<row, accounts, sessions, flow, history>>

\* Nobody has the provider account, and an active user its email: ask first.
Lookup(r) ==
    LET i == req[r].id
        known == {u \in Users : row[u].email = Email[i] /\ Active(u)} IN
    /\ req[r].step = "lookup"
    /\ IF Links!Unlinked(i) /\ known # {}
       THEN \E u \in known :
               req' = [req EXCEPT ![r].step = "show", ![r].user = u,
                                  ![r].data.pending = [id |-> i, user |-> u]]
       ELSE Goto(r, "enter")
    /\ UNCHANGED <<row, accounts, sessions, flow, history>>

\* get_or_create_user_from_oauth_profile, as it commits.
Enter(r) ==
    LET i == req[r].id IN
    /\ req[r].step = "enter"
    /\ \/ \E u \in Users : /\ Owns(u, i)
                           /\ Active(u)
                           /\ req' = [req EXCEPT ![r].step = "login", ![r].user = u]
                           /\ UNCHANGED <<row, accounts>>
       \/ \E u \in Users : /\ Links!Join(u, i, Email[i])
                           /\ req' = [req EXCEPT ![r].step = "login", ![r].user = u]
       \/ /\ \/ \E u \in Users : Owns(u, i) /\ ~Active(u)
             \/ Links!Unlinked(i) /\ \E u \in Users : row[u].email = Email[i]
          /\ Goto(r, "save")
          /\ UNCHANGED <<row, accounts>>
    /\ UNCHANGED <<sessions, flow, history>>

-----------------------------------------------------------------------------
(* oauth_confirm_existing_account_view                                     *)

\* The token is taken out of the copy; it may have expired, the answer may be no.
Confirm(r) ==
    LET p == req[r].data.pending IN
    /\ req[r].step = "loaded"
    /\ p # None
    /\ \/ req' = [req EXCEPT ![r].step = "save", ![r].data.pending = None]
       \/ /\ Active(p.user)
          /\ req' = [req EXCEPT ![r].step = "confirm", ![r].data.pending = None,
                                ![r].user = p.user, ![r].id = p.id]
    /\ UNCHANGED <<row, accounts, sessions, flow, history>>

ConfirmLink(r) ==
    /\ req[r].step = "confirm"
    /\ \/ LinkAccount(req[r].user, req[r].id) /\ Goto(r, "login")
       \/ LinkRefused(req[r].user, req[r].id) /\ Goto(r, "save")
    /\ UNCHANGED <<sessions, flow, history>>

-----------------------------------------------------------------------------
(* Elsewhere                                                               *)

\* A session reaches its age, well after the last request that used it.
Expire(k) ==
    /\ store[k] # None
    /\ \A r \in Requests : req[r].key # k
    /\ store' = [store EXCEPT ![k] = None]
    /\ Remember([past EXCEPT !.open = IF cookie = k THEN None ELSE @])
    /\ UNCHANGED <<row, accounts, cookie, flow, req>>

\* r has accepted the state of its flow: its copy of the session is without it.
Taken(r) == req[r].flow # None /\ req[r].data.state = None

\* An error nobody catches (a deadlock in link_oauth_account_to_user or
\* get_or_create_user_from_oauth_profile) or a dead process ends the request: with
\* a response of 500 SessionMiddleware saves nothing, and what was taken out of the
\* copy is still in the session.  What has been committed stays; in login_user the
\* session may have been flushed and no other created.
Dies(r) ==
    /\ req[r].step \notin {"idle", "loaded"}
    /\ \/ /\ UNCHANGED sessions
          /\ Remember([past EXCEPT !.open = IF Taken(r) THEN req[r].flow ELSE @,
                                   !.lost = IF Taken(r) THEN @ \cup {req[r].flow} ELSE @])
       \/ /\ req[r].step = "login"
          /\ req[r].key # None
          /\ store' = [store EXCEPT ![req[r].key] = None]
          /\ cookie' = cookie
          /\ Remember([past EXCEPT !.open = None])
    /\ End(r)
    /\ UNCHANGED <<row, accounts, flow>>

Next ==
    \/ \E r \in Requests :
          \/ Load(r) \/ Finish(r) \/ SetTimezone(r) \/ Save(r) \/ Login(r) \/ Logout(r)
          \/ \E u \in Users : PasswordLogin(r, u)
          \/ \E f \in Flows, p \in Providers, action \in {"login", "link"} : Start(r, f, p, action)
          \/ \E i \in Ids : Callback(r, i)
          \/ ExchangeFails(r) \/ Exchange(r) \/ LinkCallback(r) \/ Lookup(r) \/ Enter(r)
          \/ Confirm(r) \/ ConfirmLink(r) \/ Dies(r)
    \/ \E k \in Keys : Expire(k)

Spec == Init /\ [][Next]_vars

-----------------------------------------------------------------------------

\* The shapes of the state.
TypeOK ==
    /\ store \in [Keys -> Session \cup {None}]
    /\ cookie \in Keys \cup {None}
    /\ flow \in [Flows -> Flow \cup {None}]
    /\ req \in [Requests -> Request]
    /\ past \in Past \cup {None}
    /\ overlaps \in 0..MaxOverlaps

\* A callback URL works once: whatever is reloaded, retried or begun anew in
\* between, the state of a flow is accepted a second time only if the request that
\* accepted it first died before it saved the session, or if two requests of the
\* browser have overlapped, one of which may have saved it back.
StateUsedOnce == ~Overlapped => past.twice \subseteq past.lost

\* The flow a visitor began last can be finished: unless requests overlap, its
\* state stays in the session until its callback is accepted, though other
\* flows were begun before it, failed callbacks came in and confirmations
\* were asked for, given or refused; and it is there still when the request that
\* accepted it dies.
LastFlowCanFinish ==
    ~Overlapped =>
        past.open = None \/ (/\ cookie # None
                             /\ store[cookie] # None
                             /\ store[cookie].state = past.open)

\* An account of a provider is linked to somebody who asked for it: to the user
\* who began the flow while logged in, or as the confirmation page shown last
\* said, unless requests overlapped.
LinkedAsAsked ==
    [][\A u \in Users, i \in Ids :
        row[u].status = "active" /\ ~Owns(u, i) /\ Owns(u, i)' =>
            \E r \in Requests :
                /\ req[r].id = i
                /\ \/ req[r].step = "link" /\ flow[req[r].flow].owner = u
                   \/ req[r].step = "confirm" /\ (Overlapped \/ past.shown = [id |-> i, user |-> u])]_vars

=============================================================================
