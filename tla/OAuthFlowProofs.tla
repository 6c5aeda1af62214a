-------------------------- MODULE OAuthFlowProofs --------------------------
(***************************************************************************)
(* As long as the requests of a browser follow one another, a flow is      *)
(* accepted once, or again after a request died with it, the last one      *)
(* begun can be finished, and an account is linked as the page shown last  *)
(* said; a flow begun to link an account links it to who began it whatever *)
(* overlaps.                                                               *)
(***************************************************************************)
EXTENDS OAuthFlow, TLAPS

\* What a request carries at its step.
Shape(q) ==
    /\ q.step \in {"exchange", "link", "lookup", "enter", "confirm", "show"} => q.id # None
    /\ q.step \in {"exchange", "link"} => q.flow # None
    /\ q.step \in {"confirm", "show"} => q.user # None

StateInv == TypeOK /\ \A r \in Requests : Shape(req[r])

\* A state that may be accepted: not used, or used by a request that died.
Unused(f) == flow[f] # None /\ (f \in past.used => f \in past.lost)
Stored == cookie # None /\ store[cookie] # None

\* It has accepted the state of its flow, and not saved the session yet.
Took(q) == q.step # "idle" /\ q.flow # None /\ q.data.state = None

\* What a request relies on: its copy is that of the browser's session, but for the
\* state it has put in or taken out and the token it has taken out or is to show.
Carried(q) ==
    /\ IF q.key = None THEN ~Stored ELSE q.key = cookie /\ Stored
    /\ q.data.state # None => Unused(q.data.state)
    /\ q.step = "loaded" => q.flow = None
    /\ q.step = "exchange" => q.flow = q.data.state
    /\ q.step \in {"loaded", "exchange"} =>
          q.data.state = IF Stored THEN store[cookie].state ELSE None
    /\ Took(q) => Stored /\ store[cookie].state = q.flow /\ flow[q.flow] # None
    /\ IF q.step = "show" THEN q.data.pending = [id |-> q.id, user |-> q.user]
       ELSE q.data.pending \in {None, past.shown}
    /\ q.step = "confirm" => past.shown = [id |-> q.id, user |-> q.user]
    /\ past.open # None =>
          \/ q.data.state = past.open
          \/ q.step = "save" /\ q.flow # None /\ q.data.state = q.flow

Alone == \A r, s \in Requests : req[r].step # "idle" /\ req[s].step # "idle" => r = s

\* The session kept is as the flows and pages so far left it, but for a state that has
\* been accepted and is about to go.
SessionRight ==
    /\ past.open # None => Stored /\ store[cookie].state = past.open
    /\ Stored => store[cookie].pending \in {None, past.shown}
    /\ Stored => \/ store[cookie].state = None
                 \/ Unused(store[cookie].state)
                 \/ \E r \in Requests : Took(req[r]) /\ req[r].flow = store[cookie].state

CalmInv == ~Overlapped =>
    /\ Alone
    /\ past.twice \subseteq past.lost
    /\ \A f \in past.used : flow[f] # None
    /\ SessionRight
    /\ \A r \in Requests : req[r].step # "idle" => Carried(req[r])

IInv == StateInv /\ CalmInv

-----------------------------------------------------------------------------
(* Shapes, whatever overlaps                                               *)

LEMMA Nones ==
    /\ None \notin Users /\ None \notin Emails /\ None \notin Ids /\ None \notin Flows
    /\ None \notin Keys /\ None \notin Session /\ None \notin Pending /\ None \notin Flow
BY ConstantsAssumption, NoneIsNoRecord

LEMMA Shapes ==
    /\ NewSession \in Session
    /\ Idle \in Request /\ Shape(Idle)
BY DEF NewSession, Session, Idle, Request, Steps, Shape

\* What a request that is neither idle nor new may be at its step.
LEMMA Parts ==
    ASSUME NEW q \in Request, Shape(q)
    PROVE  /\ q.data \in Session
           /\ q.data.state \in Flows \cup {None} /\ q.data.pending \in Pending \cup {None}
           /\ q.key \in Keys \cup {None} /\ q.user \in Users \cup {None}
           /\ q.flow \in Flows \cup {None}
           /\ q.step \in {"exchange", "link", "lookup", "enter", "confirm", "show"} => q.id \in Ids
           /\ q.step \in {"exchange", "link"} => q.flow \in Flows
           /\ q.step \in {"confirm", "show"} => q.user \in Users
BY Nones DEF Request, Session, Shape

LEMMA OneMoved ==
    ASSUME StateInv, NEW r \in Requests, req' = [req EXCEPT ![r] = req'[r]],
           req'[r] \in Request, Shape(req'[r])
    PROVE  req' \in [Requests -> Request] /\ \A s \in Requests : Shape(req'[s])
BY DEF StateInv, TypeOK

\* A request that only moves on: it gets new parts, the session and the past stay.
LEMMA MovesOn ==
    ASSUME StateInv, NEW r \in Requests, req' = [req EXCEPT ![r] = req'[r]],
           req'[r] \in Request, Shape(req'[r]), UNCHANGED <<sessions, flow, history>>
    PROVE  StateInv'
<1>1. req' \in [Requests -> Request] /\ \A s \in Requests : Shape(req'[s])
    BY OneMoved
<1> QED
    BY <1>1 DEF StateInv, TypeOK, sessions, history, Shape

LEMMA InitIInv == Init => IInv
<1> SUFFICES ASSUME Init PROVE IInv
    OBVIOUS
<1>1. StateInv
    <2>1. past \in Past
        BY DEF Init, Past
    <2>2. overlaps \in 0..MaxOverlaps
        BY ConstantsAssumption DEF Init
    <2> QED
        BY <2>1, <2>2, Shapes DEF Init, StateInv, TypeOK
<1>2. CalmInv
    BY DEF Init, CalmInv, Alone, SessionRight, Stored, Idle
<1> QED
    BY <1>1, <1>2 DEF IInv

-----------------------------------------------------------------------------
(* Requests that move on                                                   *)

\* What the invariant says of the only request in flight.
LEMMA TheOne ==
    ASSUME IInv, NEW r \in Requests, req[r].step # "idle", ~Overlapped
    PROVE  /\ Carried(req[r]) /\ SessionRight
           /\ \A s \in Requests \ {r} : req[s].step = "idle"
           /\ past \in Past /\ past.twice \subseteq past.lost
           /\ \A f \in past.used : flow[f] # None
BY DEF IInv, CalmInv, Alone, StateInv, TypeOK, Overlapped

\* It still holds the flow it has accepted.
Stays(q, new) == Took(new) /\ new.flow = q.flow

LEMMA CalmMovesOn ==
    ASSUME IInv, NEW r \in Requests, req[r].step # "idle",
           req' = [req EXCEPT ![r] = req'[r]], UNCHANGED <<sessions, flow, history>>,
           ~Overlapped /\ Carried(req[r]) /\ Took(req[r]) => Stays(req[r], req'[r]),
           ~Overlapped /\ Carried(req[r]) /\ req'[r].step # "idle" => Carried(req'[r])
    PROVE  CalmInv'
<1> SUFFICES ASSUME ~Overlapped' PROVE CalmInv'
    BY DEF CalmInv
<1>0. /\ ~Overlapped /\ store' = store /\ cookie' = cookie /\ past' = past /\ flow' = flow
      /\ req \in [Requests -> Request]
    BY DEF Overlapped, sessions, history, IInv, StateInv, TypeOK
<1>1. \A s \in Requests : s # r => req'[s] = req[s] /\ req[s].step = "idle"
    BY <1>0, TheOne
<1>2. Alone'
    BY <1>1 DEF Alone
<1>3. \A s \in Requests : req'[s].step # "idle" => Carried(req'[s])
    BY <1>0, <1>1, TheOne
<1>4. (\A s \in Requests : req[s].step # "idle" => Carried(req[s]))'
    BY <1>0, <1>3 DEF Carried, Unused, Stored, Took
<1>5. SessionRight'
    <2>1. ASSUME NEW s \in Requests, Took(req[s])
          PROVE  Took(req'[r]) /\ req'[r].flow = req[s].flow
        <3>1. s = r /\ Carried(req[r])
            BY <1>0, <1>1, <2>1, TheOne DEF Took
        <3> QED
            BY <1>0, <2>1, <3>1 DEF Stays
    <2>2. SessionRight
        BY <1>0, TheOne
    <2>3. (\E s \in Requests : Took(req[s]) /\ req[s].flow = store[cookie].state) =>
              \E s \in Requests : Took(req'[s]) /\ req'[s].flow = store[cookie].state
        BY <2>1
    <2> QED
        BY <1>0, <2>2, <2>3 DEF SessionRight, Stored, Unused, Took
<1> QED
    BY <1>0, <1>2, <1>4, <1>5, TheOne DEF CalmInv

\* Both together, for the steps below.
LEMMA OnwardStep ==
    ASSUME IInv, NEW r \in Requests, req[r].step # "idle",
           req' = [req EXCEPT ![r] = req'[r]], UNCHANGED <<sessions, flow, history>>,
           req'[r] \in Request, Shape(req'[r]),
           ~Overlapped /\ Carried(req[r]) /\ Took(req[r]) => Stays(req[r], req'[r]),
           ~Overlapped /\ Carried(req[r]) /\ req'[r].step # "idle" => Carried(req'[r])
    PROVE  IInv'
BY MovesOn, CalmMovesOn DEF IInv

LEMMA EndStep ==
    ASSUME IInv, NEW r \in Requests, req[r].step \in {"loaded", "exchange"}, End(r),
           UNCHANGED <<row, accounts, sessions, flow, history>>
    PROVE  IInv'
<1>1. req'[r] = Idle /\ req' = [req EXCEPT ![r] = req'[r]]
    BY DEF End, IInv, StateInv, TypeOK
<1>2. Idle.step = "idle"
    BY DEF Idle
<1>3. Carried(req[r]) => ~Took(req[r])
    BY DEF Carried, Took
<1> QED
    BY <1>1, <1>2, <1>3, Shapes, OnwardStep

LEMMA GotoStep ==
    ASSUME IInv, NEW r \in Requests, NEW step \in {"enter", "save"},
           req[r].step \in {"loaded", "link", "lookup", "enter"},
           req[r].step # "loaded" \/ step = "save",
           step = "enter" => req[r].step = "lookup", Goto(r, step),
           UNCHANGED <<sessions, flow, history>>
    PROVE  IInv'
<1> DEFINE q == req'[r]
<1>0. req[r] \in Request /\ Shape(req[r])
    BY DEF IInv, StateInv, TypeOK
<1>1. q = [req[r] EXCEPT !.step = step] /\ req' = [req EXCEPT ![r] = q]
    BY DEF Goto, IInv, StateInv, TypeOK
<1>2. q \in Request /\ Shape(q) /\ req[r].step # "idle"
    BY <1>0, <1>1 DEF Request, Steps, Shape
<1>3. Carried(req[r]) => Carried(q)
    BY <1>0, <1>1 DEF Carried, Request, Took
<1>4. Took(req[r]) => Stays(req[r], q)
    BY <1>0, <1>1 DEF Took, Stays, Request
<1> QED
    BY <1>1, <1>2, <1>3, <1>4, OnwardStep

LEMMA PasswordLoginStep ==
    ASSUME IInv, NEW r \in Requests, NEW u \in Users, PasswordLogin(r, u)
    PROVE  IInv'
<1> DEFINE q == req'[r]
<1>0. req[r] \in Request /\ Shape(req[r])
    BY DEF IInv, StateInv, TypeOK
<1>1. /\ q = [req[r] EXCEPT !.step = "login", !.user = u]
      /\ req' = [req EXCEPT ![r] = q] /\ req[r].step = "loaded"
    BY DEF PasswordLogin, IInv, StateInv, TypeOK
<1>2. q \in Request /\ Shape(q)
    BY <1>0, <1>1 DEF Request, Steps, Shape
<1>3. Carried(req[r]) => Carried(q)
    BY <1>0, <1>1 DEF Carried, Request, Took
<1>4. Took(req[r]) => Stays(req[r], q)
    BY <1>0, <1>1 DEF Took, Stays, Request
<1> QED
    BY <1>1, <1>2, <1>3, <1>4, OnwardStep DEF PasswordLogin

LEMMA CallbackStep ==
    ASSUME IInv, NEW r \in Requests, NEW i \in Ids, Callback(r, i)
    PROVE  IInv'
<1> DEFINE q == req'[r]
<1>0. req[r] \in Request /\ Shape(req[r])
    BY DEF IInv, StateInv, TypeOK
<1>1. /\ q = [req[r] EXCEPT !.step = "exchange", !.flow = req[r].data.state, !.id = i]
      /\ req' = [req EXCEPT ![r] = q] /\ req[r].step = "loaded" /\ req[r].data.state # None
    BY DEF Callback, IInv, StateInv, TypeOK
<1>2. req[r].data.state \in Flows
    BY <1>0, <1>1, Parts
<1>3. /\ q \in Request /\ q.step = "exchange" /\ q.flow = req[r].data.state /\ q.id = i
      /\ q.data = req[r].data /\ q.key = req[r].key
    BY <1>0, <1>1, <1>2 DEF Request, Steps
<1>4. Shape(q)
    BY <1>1, <1>2, <1>3, Nones DEF Shape
<1>5. Carried(req[r]) => Carried(q) /\ ~Took(req[r])
    BY <1>1, <1>3 DEF Carried, Took
<1> QED
    BY <1>1, <1>3, <1>4, <1>5, OnwardStep DEF Callback

LEMMA LinkCallbackStep ==
    ASSUME IInv, NEW r \in Requests, LinkCallback(r)
    PROVE  IInv'
BY GotoStep DEF LinkCallback

LEMMA LookupStep ==
    ASSUME IInv, NEW r \in Requests, Lookup(r)
    PROVE  IInv'
<1>0. req[r] \in Request /\ Shape(req[r]) /\ req[r].step = "lookup"
    BY DEF IInv, StateInv, TypeOK, Lookup
<1>1. CASE Goto(r, "enter")
    BY <1>0, <1>1, GotoStep DEF Lookup
<1>2. ASSUME NEW u \in Users,
             req' = [req EXCEPT ![r].step = "show", ![r].user = u,
                                ![r].data.pending = [id |-> req[r].id, user |-> u]]
      PROVE  IInv'
    <2> DEFINE q == req'[r]
               d == [req[r].data EXCEPT !.pending = [id |-> req[r].id, user |-> u]]
    <2>1. /\ q = [req[r] EXCEPT !.step = "show", !.user = u, !.data = d]
          /\ req' = [req EXCEPT ![r] = q]
        BY <1>2 DEF IInv, StateInv, TypeOK, Request, Session
    <2>2. req[r].id \in Ids /\ req[r].data \in Session
        BY <1>0, Parts
    <2>3. d \in Session
        BY <2>2 DEF Session, Pending
    <2>4. /\ d.state = req[r].data.state
          /\ d.pending = [id |-> req[r].id, user |-> u]
        BY <2>2 DEF Session
    <2> HIDE DEF d
    <2>5. /\ q \in Request /\ q.step = "show" /\ q.user = u /\ q.data = d
          /\ q.id = req[r].id /\ q.key = req[r].key /\ q.flow = req[r].flow
        BY <1>0, <2>1, <2>3 DEF Request, Steps
    <2>6. Shape(q)
        BY <2>2, <2>5, Nones DEF Shape
    <2>7. Carried(req[r]) => Carried(q)
        BY <1>0, <2>4, <2>5 DEF Carried, Took
    <2>8. Took(req[r]) => Stays(req[r], q)
        BY <2>4, <2>5 DEF Took, Stays
    <2> QED
        BY <1>0, <2>1, <2>5, <2>6, <2>7, <2>8, OnwardStep DEF Lookup
<1> QED
    BY <1>1, <1>2 DEF Lookup

LEMMA EnterStep ==
    ASSUME IInv, NEW r \in Requests, Enter(r)
    PROVE  IInv'
<1>0. /\ req[r] \in Request /\ Shape(req[r]) /\ req[r].step = "enter"
      /\ UNCHANGED <<sessions, flow, history>>
    BY DEF IInv, StateInv, TypeOK, Enter
<1>1. CASE Goto(r, "save")
    BY <1>0, <1>1, GotoStep
<1>2. ASSUME NEW u \in Users, req' = [req EXCEPT ![r].step = "login", ![r].user = u]
      PROVE  IInv'
    <2> DEFINE q == req'[r]
    <2>1. q = [req[r] EXCEPT !.step = "login", !.user = u] /\ req' = [req EXCEPT ![r] = q]
        BY <1>2 DEF IInv, StateInv, TypeOK
    <2>2. q \in Request /\ Shape(q)
        BY <1>0, <2>1 DEF Request, Steps, Shape
    <2>3. Carried(req[r]) => Carried(q)
        BY <1>0, <2>1 DEF Carried, Request, Took
    <2>4. Took(req[r]) => Stays(req[r], q)
        BY <1>0, <2>1 DEF Took, Stays, Request
    <2> QED
        BY <1>0, <2>1, <2>2, <2>3, <2>4, OnwardStep
<1> QED
    BY <1>1, <1>2 DEF Enter

LEMMA ConfirmStep ==
    ASSUME IInv, NEW r \in Requests, Confirm(r)
    PROVE  IInv'
<1> DEFINE q == req'[r]
           p == req[r].data.pending
           d == [req[r].data EXCEPT !.pending = None]
<1>0. /\ req[r] \in Request /\ Shape(req[r]) /\ req[r].step = "loaded" /\ p \in Pending
      /\ UNCHANGED <<sessions, flow, history>>
    BY Parts DEF IInv, StateInv, TypeOK, Confirm
<1>1. d \in Session /\ d.pending = None /\ d.state = req[r].data.state
    BY <1>0 DEF Request, Session
<1> HIDE DEF d
<1>2. CASE req' = [req EXCEPT ![r].step = "save", ![r].data.pending = None]
    <2>1. q = [req[r] EXCEPT !.step = "save", !.data = d] /\ req' = [req EXCEPT ![r] = q]
        BY <1>2 DEF IInv, StateInv, TypeOK, Request, d
    <2>2. q \in Request /\ Shape(q)
        BY <1>0, <1>1, <2>1 DEF Request, Steps, Shape
    <2>3. Carried(req[r]) => Carried(q) /\ ~Took(req[r])
        BY <1>0, <1>1, <2>1 DEF Carried, Request, Took
    <2> QED
        BY <1>0, <2>1, <2>2, <2>3, OnwardStep
<1>3. CASE req' = [req EXCEPT ![r].step = "confirm", ![r].data.pending = None,
                              ![r].user = p.user, ![r].id = p.id]
    <2>1. /\ q = [req[r] EXCEPT !.step = "confirm", !.data = d, !.user = p.user, !.id = p.id]
          /\ req' = [req EXCEPT ![r] = q]
        BY <1>3 DEF IInv, StateInv, TypeOK, Request, d
    <2>2. p = [id |-> p.id, user |-> p.user] /\ p # None /\ p.id \in Ids /\ p.user \in Users
        BY <1>0, Nones DEF Pending
    <2>3. /\ q \in Request /\ q.step = "confirm" /\ q.user = p.user /\ q.data = d
          /\ q.id = p.id /\ q.key = req[r].key /\ q.flow = req[r].flow
        BY <1>0, <1>1, <2>1, <2>2 DEF Request, Steps
    <2>4. Shape(q)
        BY <1>0, <2>2, <2>3, Nones DEF Shape
    <2>5. Carried(req[r]) => Carried(q) /\ ~Took(req[r])
        BY <1>0, <1>1, <2>2, <2>3 DEF Carried, Took
    <2> QED
        BY <1>0, <2>1, <2>3, <2>4, <2>5, OnwardStep
<1> QED
    BY <1>2, <1>3 DEF Confirm

LEMMA ConfirmLinkStep ==
    ASSUME IInv, NEW r \in Requests, ConfirmLink(r)
    PROVE  IInv'
<1> DEFINE q == req'[r]
<1>0. /\ req[r] \in Request /\ Shape(req[r]) /\ req[r].step = "confirm"
      /\ UNCHANGED <<sessions, flow, history>>
    BY DEF IInv, StateInv, TypeOK, ConfirmLink
<1>1. PICK step \in {"login", "save"} : Goto(r, step)
    BY DEF ConfirmLink
<1>2. q = [req[r] EXCEPT !.step = step] /\ req' = [req EXCEPT ![r] = q]
    BY <1>1 DEF Goto, IInv, StateInv, TypeOK
<1>3. q \in Request /\ Shape(q)
    BY <1>0, <1>2 DEF Request, Steps, Shape
<1>4. Carried(req[r]) => Carried(q)
    BY <1>0, <1>2 DEF Carried, Request, Took
<1>5. Took(req[r]) => Stays(req[r], q)
    BY <1>0, <1>2 DEF Took, Stays, Request
<1> QED
    BY <1>0, <1>2, <1>3, <1>4, <1>5, OnwardStep

-----------------------------------------------------------------------------
(* Requests that change the session or what has happened                   *)

\* A request that goes back to idle leaves none in flight.
LEMMA NoneLeft ==
    ASSUME IInv, NEW r \in Requests, req[r].step # "idle", ~Overlapped, End(r)
    PROVE  \A s \in Requests : req'[s].step = "idle"
<1>1. \A s \in Requests \ {r} : req[s].step = "idle"
    BY TheOne
<1> QED
    BY <1>1 DEF End, Idle, IInv, StateInv, TypeOK

LEMMA Ended ==
    ASSUME IInv, NEW r \in Requests, End(r)
    PROVE  req' \in [Requests -> Request] /\ \A s \in Requests : Shape(req'[s])
BY Shapes DEF End, IInv, StateInv, TypeOK

LEMMA LoadStep ==
    ASSUME IInv, NEW r \in Requests, Load(r)
    PROVE  IInv'
<1> DEFINE data == IF Stored THEN store[cookie] ELSE NewSession
           key == IF Stored THEN cookie ELSE None
           user == IF data.user # None /\ Active(data.user) THEN data.user ELSE None
           q == [Idle EXCEPT !.step = "loaded", !.key = key, !.data = data, !.user = user]
<1>0. /\ TypeOK /\ \A s \in Requests : Shape(req[s])
      /\ req \in [Requests -> Request] /\ req[r].step = "idle"
      /\ UNCHANGED <<store, cookie, flow>>
    BY DEF IInv, StateInv, TypeOK, Load, sessions
<1>1. req' = [req EXCEPT ![r] = q]
    BY Zenon DEF Load, Stored
<1>2. data \in Session /\ key \in Keys \cup {None}
    BY <1>0, Shapes DEF TypeOK, Stored
<1>3. user \in Users \cup {None}
    BY <1>2 DEF Session
<1> HIDE DEF data, key, user
<1>4. /\ q \in Request /\ q.step = "loaded" /\ q.key = key /\ q.data = data
      /\ q.flow = None
    BY <1>2, <1>3, Shapes DEF Request, Steps, Idle
<1> HIDE DEF q
<1>5. req'[r] = q /\ \A s \in Requests \ {r} : req'[s] = req[s]
    BY <1>0, <1>1
<1>6. req' \in [Requests -> Request] /\ \A s \in Requests : Shape(req'[s])
    BY <1>0, <1>1, <1>4, <1>5 DEF Shape
<1>7. past' \in Past \cup {None} /\ overlaps' \in 0..MaxOverlaps
    BY <1>0, ConstantsAssumption DEF Load, TypeOK, history
<1>8. StateInv'
    BY <1>0, <1>6, <1>7 DEF StateInv, TypeOK
<1>9. ASSUME ~Overlapped' PROVE CalmInv'
    <2>1. /\ \A s \in Requests : req[s].step = "idle"
          /\ past' = past /\ ~Overlapped
        BY <1>0, <1>9 DEF Load, Overlapped, history
    <2>2. /\ past.twice \subseteq past.lost /\ SessionRight
          /\ \A f \in past.used : flow[f] # None
        BY <2>1 DEF IInv, CalmInv
    <2>3. \A s \in Requests : ~Took(req[s])
        BY <2>1 DEF Took
    <2>4. Stored => \/ store[cookie].state = None
                    \/ Unused(store[cookie].state)
        BY <2>2, <2>3 DEF SessionRight
    <2>5. SessionRight'
        BY <1>0, <2>1, <2>2, <2>4 DEF SessionRight, Stored, Unused
    <2>6. /\ NewSession.state = None /\ NewSession.pending = None
          /\ None \notin Keys
        BY Nones DEF NewSession
    <2>7. Carried(q)
        <3>1. CASE Stored
            <4>1. data = store[cookie] /\ key = cookie /\ cookie # None
                BY <3>1 DEF data, key, Stored
            <4> QED
                BY <3>1, <4>1, <1>4, <2>2, <2>4 DEF Carried, SessionRight, Took
        <3>2. CASE ~Stored
            <4>1. data = NewSession /\ key = None
                BY <3>2 DEF data, key
            <4> QED
                BY <3>2, <4>1, <1>4, <2>2, <2>6 DEF Carried, SessionRight, Took
        <3> QED
            BY <3>1, <3>2
    <2>8. \A s \in Requests : req'[s].step # "idle" => s = r /\ Carried(req'[s])
        BY <1>5, <2>1, <2>7
    <2>9. Alone' /\ (\A s \in Requests : req[s].step # "idle" => Carried(req[s]))'
        BY <1>0, <2>1, <2>8 DEF Alone, Carried, Unused, Stored, Took
    <2> QED
        BY <1>0, <2>1, <2>2, <2>5, <2>9 DEF CalmInv
<1> QED
    BY <1>8, <1>9 DEF IInv, CalmInv

LEMMA StartStep ==
    ASSUME IInv, NEW r \in Requests, NEW f \in Flows, NEW p \in Providers,
           NEW action \in {"login", "link"}, Start(r, f, p, action)
    PROVE  IInv'
<1> DEFINE drawn == [provider |-> p, action |-> action,
                     owner |-> IF action = "link" THEN req[r].user ELSE None]
           d == [req[r].data EXCEPT !.state = f]
           q == req'[r]
<1>0. /\ TypeOK /\ req[r] \in Request /\ Shape(req[r]) /\ req[r].step = "loaded"
      /\ flow[f] = None /\ flow' = [flow EXCEPT ![f] = drawn]
      /\ UNCHANGED <<store, cookie, past, overlaps>>
    BY DEF IInv, StateInv, TypeOK, Start, sessions, history
<1>1. drawn \in Flow /\ req[r].data \in Session
    BY <1>0 DEF Request, Flow
<1>2. d \in Session /\ d.state = f /\ d.pending = req[r].data.pending
    BY <1>1 DEF Session
<1>3. q = [req[r] EXCEPT !.step = "save", !.flow = f, !.data = d] /\ req' = [req EXCEPT ![r] = q]
    BY <1>0, <1>1 DEF Start, TypeOK, Request
<1> HIDE DEF drawn, d
<1>4. /\ q \in Request /\ q.step = "save" /\ q.flow = f /\ q.data = d /\ q.key = req[r].key
    BY <1>0, <1>2, <1>3 DEF Request, Steps
<1>5. Shape(q)
    BY <1>4 DEF Shape
<1>6. req' \in [Requests -> Request] /\ \A s \in Requests : Shape(req'[s])
    BY <1>3, <1>4, <1>5, OneMoved DEF IInv
<1>7. flow' \in [Flows -> Flow \cup {None}] /\ flow'[f] # None
    BY <1>0, <1>1, Nones DEF TypeOK
<1>8. StateInv'
    BY <1>0, <1>6, <1>7 DEF StateInv, TypeOK
<1>9. ASSUME ~Overlapped' PROVE CalmInv'
    <2>1. /\ ~Overlapped /\ Carried(req[r]) /\ SessionRight
          /\ \A s \in Requests \ {r} : req[s].step = "idle"
          /\ past \in Past /\ past.twice \subseteq past.lost
          /\ \A g \in past.used : flow[g] # None
        BY <1>0, <1>9, TheOne DEF Overlapped
    <2>2. Unused(f)' /\ \A g \in Flows : Unused(g) => Unused(g)'
        BY <1>0, <1>7, <2>1 DEF Unused, TypeOK
    <2>3. \A g \in past.used : flow'[g] # None
        BY <1>0, <1>7, <2>1 DEF TypeOK, Past
    <2>4. \A s \in Requests : req'[s].step # "idle" => s = r
        BY <1>0, <1>3, <2>1 DEF TypeOK
    <2>5. Carried(req[r])'
        BY <1>0, <1>2, <1>4, <2>1, <2>2, Nones DEF Carried, Stored, Took
    <2>6. Alone' /\ (\A s \in Requests : req[s].step # "idle" => Carried(req[s]))'
        BY <2>4, <2>5 DEF Alone
    <2>7. SessionRight'
        <3>1. \A s \in Requests : ~Took(req[s])
            BY <1>0, <2>1 DEF Took, Carried
        <3>2. Stored => store[cookie].state \in Flows \cup {None}
            BY <1>0 DEF TypeOK, Stored, Session
        <3> QED
            BY <1>0, <2>1, <2>2, <3>1, <3>2 DEF SessionRight, Stored
    <2> QED
        BY <1>0, <2>1, <2>3, <2>6, <2>7 DEF CalmInv
<1> QED
    BY <1>8, <1>9 DEF IInv, CalmInv

LEMMA ExchangeStep ==
    ASSUME IInv, NEW r \in Requests, Exchange(r)
    PROVE  IInv'
<1> DEFINE f == req[r].flow
           step == IF flow[f].action = "link" THEN "link" ELSE "lookup"
           d == [req[r].data EXCEPT !.state = None]
           new == [past EXCEPT !.open = IF @ = f THEN None ELSE @,
                               !.used = @ \cup {f},
                               !.twice = @ \cup ({f} \cap past.used)]
           q == req'[r]
<1>0. /\ TypeOK /\ req[r] \in Request /\ Shape(req[r]) /\ req[r].step = "exchange"
      /\ UNCHANGED <<store, cookie, flow>>
    BY DEF IInv, StateInv, TypeOK, Exchange, sessions
<1>1. /\ f \in Flows /\ req[r].data \in Session
      /\ step \in {"link", "lookup"}
    BY <1>0, Parts
<1>2. d \in Session /\ d.state = None /\ d.pending = req[r].data.pending
    BY <1>1 DEF Session
<1>3. q = [req[r] EXCEPT !.step = step, !.data = d] /\ req' = [req EXCEPT ![r] = q]
    BY <1>0, <1>1 DEF Exchange, TypeOK, Request
<1>4. past' = (IF Overlapped THEN None ELSE new) /\ UNCHANGED overlaps
    BY DEF Exchange, Accept, Remember
<1>5. Overlapped \/ new \in Past
    BY <1>0, <1>1 DEF TypeOK, Past, Overlapped
<1>6. ~Overlapped =>
          /\ new.shown = past.shown /\ new.open = IF past.open = f THEN None ELSE past.open
          /\ new.used = past.used \cup {f} /\ new.twice = past.twice \cup ({f} \cap past.used)
          /\ new.lost = past.lost
    BY <1>0 DEF TypeOK, Past, Overlapped
<1> HIDE DEF d, step, new
<1>7. /\ q \in Request /\ q.step = step /\ q.data = d /\ q.key = req[r].key
      /\ q.id = req[r].id /\ q.flow = f
    BY <1>0, <1>1, <1>2, <1>3 DEF Request, Steps
<1>8. Shape(q)
    BY <1>0, <1>1, <1>7 DEF Shape
<1>9. req' \in [Requests -> Request] /\ \A s \in Requests : Shape(req'[s])
    BY <1>3, <1>7, <1>8, OneMoved DEF IInv
<1>10. StateInv'
    BY <1>0, <1>4, <1>5, <1>9 DEF StateInv, TypeOK
<1>11. ASSUME ~Overlapped' PROVE CalmInv'
    <2>1. /\ ~Overlapped /\ past' = new
        BY <1>4, <1>11 DEF Overlapped
    <2>2. /\ Carried(req[r]) /\ SessionRight
          /\ \A s \in Requests \ {r} : req[s].step = "idle"
          /\ past \in Past /\ past.twice \subseteq past.lost
          /\ \A g \in past.used : flow[g] # None
        BY <1>0, <2>1, TheOne
    <2>3. f = req[r].data.state /\ Unused(f) /\ req[r].data.pending \in {None, past.shown}
        BY <1>0, <1>1, <2>2, Nones DEF Carried
    <2>4. past'.open = None /\ past'.shown = past.shown
        BY <1>0, <1>6, <2>1, <2>2, <2>3 DEF Carried
    <2>5. /\ past'.twice \subseteq past'.lost
          /\ \A g \in past'.used : flow'[g] # None
        BY <1>0, <1>6, <2>1, <2>2, <2>3 DEF Unused
    <2>6. \A s \in Requests : req'[s].step # "idle" => s = r
        BY <1>0, <1>3, <2>2 DEF TypeOK
    <2>a. Stored /\ store[cookie].state = f /\ f # None
        BY <1>0, <1>1, <2>2, <2>3, Nones DEF Carried
    <2>7. Carried(req[r])'
        BY <1>0, <1>1, <1>2, <1>7, <2>2, <2>3, <2>4, <2>a DEF Carried, Stored, Unused
    <2>8. Alone' /\ (\A s \in Requests : req[s].step # "idle" => Carried(req[s]))'
        BY <2>6, <2>7 DEF Alone
    <2>9. SessionRight'
        <3>1. Took(req'[r]) /\ req'[r].flow = store'[cookie'].state
            BY <1>0, <1>1, <1>2, <1>7, <2>a DEF Took
        <3>2. Stored' => store'[cookie'].pending \in {None, past'.shown}
            BY <1>0, <2>2, <2>4 DEF SessionRight, Stored
        <3>3. (\E s \in Requests : Took(req[s]) /\ req[s].flow = store[cookie].state)'
            BY <3>1 DEF Took
        <3> QED
            BY <2>4, <3>2, <3>3 DEF SessionRight
    <2> QED
        BY <2>5, <2>8, <2>9 DEF CalmInv
<1> QED
    BY <1>10, <1>11 DEF IInv, CalmInv

LEMMA SaveStep ==
    ASSUME IInv, NEW r \in Requests, Save(r)
    PROVE  IInv'
<1> DEFINE q == req[r]
           new == [past EXCEPT
                   !.shown = IF q.step = "show" THEN [id |-> q.id, user |-> q.user] ELSE @,
                   !.open = IF q.flow # None /\ q.data.state = q.flow THEN q.flow ELSE @]
<1>0. /\ TypeOK /\ q \in Request /\ Shape(q) /\ q.step \in {"save", "show"}
      /\ End(r) /\ UNCHANGED flow
      /\ q.data \in Session /\ q.key \in Keys \cup {None}
      /\ q.flow \in Flows \cup {None}
    BY Parts DEF IInv, StateInv, TypeOK, Save
<1>1. req' \in [Requests -> Request] /\ \A s \in Requests : Shape(req'[s])
    BY <1>0, Ended
<1>2. ASSUME NEW k \in Keys, store' = [store EXCEPT ![k] = q.data], cookie' = k, Remember(new)
      PROVE  IInv'
    <2>1. q.step = "show" => [id |-> q.id, user |-> q.user] \in Pending
        BY <1>0, Parts DEF Pending
    <2>2. Overlapped \/ new \in Past
        BY <1>0, <2>1 DEF TypeOK, Past, Overlapped
    <2>3. ~Overlapped =>
              /\ new.shown = IF q.step = "show" THEN [id |-> q.id, user |-> q.user] ELSE past.shown
              /\ new.open = IF q.flow # None /\ q.data.state = q.flow THEN q.flow ELSE past.open
              /\ new.used = past.used /\ new.twice = past.twice /\ new.lost = past.lost
        BY <1>0 DEF TypeOK, Past, Overlapped
    <2> HIDE DEF new
    <2>4. past' = (IF Overlapped THEN None ELSE new) /\ UNCHANGED overlaps
        BY <1>2 DEF Remember
    <2>5. StateInv'
        BY <1>0, <1>1, <1>2, <2>2, <2>4 DEF StateInv, TypeOK
    <2>6. ASSUME ~Overlapped' PROVE CalmInv'
        <3>1. /\ ~Overlapped /\ past' = new
            BY <2>4, <2>6 DEF Overlapped
        <3>2. /\ Carried(q) /\ past.twice \subseteq past.lost
              /\ \A g \in past.used : flow[g] # None
              /\ \A s \in Requests : req'[s].step = "idle"
            BY <1>0, <3>1, TheOne, NoneLeft
        <3>3. cookie' # None /\ store'[cookie'] = q.data
            BY <1>0, <1>2, Nones DEF TypeOK
        <3>4. past'.open # None => q.data.state = past'.open
            BY <2>3, <3>1, <3>2 DEF Carried
        <3>5. q.data.pending \in {None, past'.shown}
            BY <2>3, <3>1, <3>2 DEF Carried
        <3>6. q.data.state # None => flow'[q.data.state] # None
                  /\ (q.data.state \in past'.used => q.data.state \in past'.lost)
            BY <1>0, <2>3, <3>1, <3>2 DEF Carried, Unused
        <3>7. SessionRight'
            BY <1>0, <3>3, <3>4, <3>5, <3>6, Nones DEF SessionRight, Stored, Unused
        <3> QED
            BY <1>0, <2>3, <3>1, <3>2, <3>7 DEF CalmInv, Alone
    <2> QED
        BY <2>5, <2>6 DEF IInv, CalmInv
<1>3. ASSUME q.key # None, store[q.key] = None, UNCHANGED <<sessions, history>>
      PROVE  IInv'
    <2>1. StateInv'
        BY <1>0, <1>1, <1>3 DEF StateInv, TypeOK, sessions, history
    <2>2. Overlapped
        BY <1>0, <1>3, TheOne DEF Carried, Stored
    <2> QED
        BY <1>3, <2>1, <2>2 DEF IInv, CalmInv, Overlapped, history
<1> QED
    BY <1>2, <1>3 DEF Save

LEMMA LoginStep ==
    ASSUME IInv, NEW r \in Requests, Login(r)
    PROVE  IInv'
<1> DEFINE new == [past EXCEPT !.open = None]
<1>0. /\ TypeOK /\ req[r] \in Request /\ Shape(req[r]) /\ req[r].step = "login"
      /\ End(r) /\ UNCHANGED flow /\ Remember(new)
      /\ req[r].user \in Users \cup {None}
    BY Parts DEF IInv, StateInv, TypeOK, Login
<1> DEFINE d == [NewSession EXCEPT !.user = req[r].user]
<1>1. d \in Session /\ d.state = None /\ d.pending = None
    BY <1>0 DEF NewSession, Session
<1>2. PICK k \in Keys :
        /\ store' = [j \in Keys |-> IF j = k THEN d
                                    ELSE IF j = req[r].key THEN None ELSE store[j]]
        /\ cookie' = k
    BY DEF Login
<1> HIDE DEF d
<1>3. store' \in [Keys -> Session \cup {None}] /\ store'[cookie'] = d /\ cookie' \in Keys
    BY <1>0, <1>1, <1>2 DEF TypeOK
<1>4. req' \in [Requests -> Request] /\ \A s \in Requests : Shape(req'[s])
    BY <1>0, Ended
<1>5. Overlapped \/ new \in Past
    BY <1>0 DEF TypeOK, Past, Overlapped
<1>6. past' = (IF Overlapped THEN None ELSE new) /\ UNCHANGED overlaps
    BY <1>0 DEF Remember
<1>7. StateInv'
    BY <1>0, <1>3, <1>4, <1>5, <1>6 DEF StateInv, TypeOK
<1>8. ASSUME ~Overlapped' PROVE CalmInv'
    <2>1. ~Overlapped /\ past' = new
        BY <1>6, <1>8 DEF Overlapped
    <2>2. /\ past \in Past /\ past.twice \subseteq past.lost
          /\ \A g \in past.used : flow[g] # None
          /\ \A s \in Requests : req'[s].step = "idle"
        BY <1>0, <2>1, TheOne, NoneLeft
    <2>3. /\ past'.open = None /\ past'.used = past.used /\ past'.twice = past.twice
          /\ past'.lost = past.lost
        BY <2>1, <2>2 DEF Past
    <2>4. SessionRight'
        BY <1>1, <1>3, <2>3 DEF SessionRight, Stored
    <2> QED
        BY <1>0, <2>2, <2>3, <2>4 DEF CalmInv, Alone
<1> QED
    BY <1>7, <1>8 DEF IInv, CalmInv

LEMMA LogoutStep ==
    ASSUME IInv, NEW r \in Requests, Logout(r)
    PROVE  IInv'
<1> DEFINE new == [past EXCEPT !.open = None]
<1>0. /\ TypeOK /\ req[r].step = "loaded" /\ cookie' = None
      /\ End(r) /\ UNCHANGED flow /\ Remember(new)
    BY DEF IInv, StateInv, Logout
<1>1. store' \in [Keys -> Session \cup {None}]
    BY <1>0 DEF Logout, TypeOK
<1>2. req' \in [Requests -> Request] /\ \A s \in Requests : Shape(req'[s])
    BY <1>0, Ended
<1>3. Overlapped \/ new \in Past
    BY <1>0 DEF TypeOK, Past, Overlapped
<1>4. past' = (IF Overlapped THEN None ELSE new) /\ UNCHANGED overlaps
    BY <1>0 DEF Remember
<1>5. StateInv'
    BY <1>0, <1>1, <1>2, <1>3, <1>4 DEF StateInv, TypeOK
<1>6. ASSUME ~Overlapped' PROVE CalmInv'
    <2>1. ~Overlapped /\ past' = new
        BY <1>4, <1>6 DEF Overlapped
    <2>2. /\ past \in Past /\ past.twice \subseteq past.lost
          /\ \A g \in past.used : flow[g] # None
          /\ \A s \in Requests : req'[s].step = "idle"
        BY <1>0, <2>1, TheOne, NoneLeft
    <2>3. /\ past'.open = None /\ past'.used = past.used /\ past'.twice = past.twice
          /\ past'.lost = past.lost
        BY <2>1, <2>2 DEF Past
    <2>4. SessionRight'
        BY <1>0, <2>3 DEF SessionRight, Stored
    <2> QED
        BY <1>0, <2>2, <2>3, <2>4 DEF CalmInv, Alone
<1> QED
    BY <1>5, <1>6 DEF IInv, CalmInv

LEMMA ExpireStep ==
    ASSUME IInv, NEW k \in Keys, Expire(k)
    PROVE  IInv'
<1> DEFINE new == [past EXCEPT !.open = IF cookie = k THEN None ELSE @]
<1>0. /\ TypeOK /\ store' = [store EXCEPT ![k] = None] /\ store[k] # None
      /\ \A r \in Requests : req[r].key # k
      /\ UNCHANGED <<cookie, flow, req>> /\ Remember(new)
    BY DEF IInv, StateInv, Expire
<1>1. Overlapped \/ new \in Past
    BY <1>0 DEF TypeOK, Past, Overlapped
<1>2. past' = (IF Overlapped THEN None ELSE new) /\ UNCHANGED overlaps
    BY <1>0 DEF Remember
<1>3. StateInv'
    BY <1>0, <1>1, <1>2 DEF IInv, StateInv, TypeOK, Shape
<1>4. ASSUME ~Overlapped' PROVE CalmInv'
    <2>1. ~Overlapped /\ past' = new /\ past \in Past
        BY <1>0, <1>2, <1>4 DEF Overlapped, TypeOK
    <2>2. /\ past'.used = past.used /\ past'.twice = past.twice /\ past'.shown = past.shown
          /\ past'.lost = past.lost
          /\ past'.open = IF cookie = k THEN None ELSE past.open
        BY <2>1 DEF Past
    <2>3. /\ Alone /\ past.twice \subseteq past.lost /\ SessionRight
          /\ \A g \in past.used : flow[g] # None
          /\ \A r \in Requests : req[r].step # "idle" => Carried(req[r])
        BY <2>1 DEF IInv, CalmInv
    <2>4. /\ Stored' => Stored /\ cookie # k /\ store'[cookie] = store[cookie]
          /\ Stored /\ cookie # k => Stored'
        BY <1>0 DEF Stored, TypeOK
    <2>5. ASSUME NEW r \in Requests, req'[r].step # "idle" PROVE Carried(req[r])'
        <3>1. Carried(req[r]) /\ req'[r] = req[r]
            BY <1>0, <2>3, <2>5
        <3>2. IF req[r].key = None THEN ~Stored' ELSE req[r].key = cookie' /\ Stored'
            BY <1>0, <2>4, <3>1 DEF Carried
        <3> QED
            BY <1>0, <2>2, <2>4, <3>1, <3>2 DEF Carried, Unused, Took
    <2>6. SessionRight'
        BY <1>0, <2>2, <2>3, <2>4 DEF SessionRight, Unused, Took, Stored
    <2> QED
        BY <1>0, <2>2, <2>3, <2>5, <2>6 DEF CalmInv, Alone
<1> QED
    BY <1>3, <1>4 DEF IInv, CalmInv

\* What a request that dies has accepted is still in the session, and may be again.
LEMMA DiesStep ==
    ASSUME IInv, NEW r \in Requests, Dies(r)
    PROVE  IInv'
<1> DEFINE q == req[r]
           new == [past EXCEPT !.open = IF Taken(r) THEN q.flow ELSE @,
                               !.lost = IF Taken(r) THEN @ \cup {q.flow} ELSE @]
           gone == [past EXCEPT !.open = None]
<1>0. /\ TypeOK /\ q \in Request /\ Shape(q) /\ q.step # "idle"
      /\ End(r) /\ UNCHANGED flow
      /\ q.flow \in Flows \cup {None}
    BY Parts DEF IInv, StateInv, TypeOK, Dies
<1>1. req' \in [Requests -> Request] /\ \A s \in Requests : Shape(req'[s])
    BY <1>0, Ended
<1>2. Taken(r) <=> Took(q)
    BY <1>0 DEF Taken, Took
<1>3. ASSUME UNCHANGED sessions, Remember(new)
      PROVE  IInv'
    <2>1. Overlapped \/ new \in Past
        BY <1>0 DEF TypeOK, Past, Overlapped, Taken
    <2>2. ~Overlapped =>
              /\ new.shown = past.shown /\ new.used = past.used /\ new.twice = past.twice
              /\ new.open = IF Took(q) THEN q.flow ELSE past.open
              /\ new.lost = IF Took(q) THEN past.lost \cup {q.flow} ELSE past.lost
        BY <1>0, <1>2 DEF TypeOK, Past, Overlapped
    <2> HIDE DEF new
    <2>3. past' = (IF Overlapped THEN None ELSE new) /\ UNCHANGED <<overlaps, store, cookie>>
        BY <1>3 DEF Remember, sessions
    <2>4. StateInv'
        BY <1>0, <1>1, <2>1, <2>3 DEF StateInv, TypeOK
    <2>5. ASSUME ~Overlapped' PROVE CalmInv'
        <3>1. ~Overlapped /\ past' = new
            BY <2>3, <2>5 DEF Overlapped
        <3>2. /\ Carried(q) /\ SessionRight /\ past.twice \subseteq past.lost
              /\ \A g \in past.used : flow[g] # None
              /\ \A s \in Requests \ {r} : req[s].step = "idle"
              /\ \A s \in Requests : req'[s].step = "idle"
            BY <1>0, <3>1, TheOne, NoneLeft
        <3>3. past'.twice \subseteq past'.lost /\ \A g \in past'.used : flow'[g] # None
            BY <1>0, <2>2, <3>1, <3>2
        <3>4. \A s \in Requests : Took(req[s]) => s = r
            BY <3>2 DEF Took
        <3>5. SessionRight'
            <4>1. CASE Took(q)
                <5>1. Stored /\ store[cookie].state = q.flow /\ flow[q.flow] # None
                    BY <3>2, <4>1 DEF Carried
                <5> QED
                    BY <1>0, <2>2, <2>3, <3>1, <3>2, <4>1, <5>1 DEF SessionRight, Stored, Unused
            <4>2. CASE ~Took(q)
                <5>1. Stored => store[cookie].state = None \/ Unused(store[cookie].state)
                    BY <3>2, <3>4, <4>2 DEF SessionRight
                <5> QED
                    BY <1>0, <2>2, <2>3, <3>1, <3>2, <4>2, <5>1 DEF SessionRight, Stored, Unused
            <4> QED
                BY <4>1, <4>2
        <3> QED
            BY <3>2, <3>3, <3>5 DEF CalmInv, Alone
    <2> QED
        BY <2>4, <2>5 DEF IInv, CalmInv
<1>4. ASSUME q.key # None, store' = [store EXCEPT ![q.key] = None], cookie' = cookie,
             Remember(gone)
      PROVE  IInv'
    <2>1. Overlapped \/ gone \in Past
        BY <1>0 DEF TypeOK, Past, Overlapped
    <2>2. ~Overlapped =>
              /\ gone.shown = past.shown /\ gone.used = past.used /\ gone.twice = past.twice
              /\ gone.open = None /\ gone.lost = past.lost
        BY <1>0 DEF TypeOK, Past, Overlapped
    <2> HIDE DEF gone
    <2>3. past' = (IF Overlapped THEN None ELSE gone) /\ UNCHANGED overlaps
        BY <1>4 DEF Remember
    <2>4. store' \in [Keys -> Session \cup {None}] /\ store'[q.key] = None
        BY <1>0, <1>4 DEF TypeOK, Request
    <2>5. StateInv'
        BY <1>0, <1>1, <1>4, <2>1, <2>3, <2>4 DEF StateInv, TypeOK
    <2>6. ASSUME ~Overlapped' PROVE CalmInv'
        <3>1. ~Overlapped /\ past' = gone
            BY <2>3, <2>6 DEF Overlapped
        <3>2. /\ Carried(q) /\ past.twice \subseteq past.lost
              /\ \A g \in past.used : flow[g] # None
              /\ \A s \in Requests : req'[s].step = "idle"
            BY <1>0, <3>1, TheOne, NoneLeft
        <3>3. ~Stored'
            BY <1>4, <2>4, <3>2 DEF Carried, Stored
        <3>4. SessionRight'
            BY <2>2, <3>1, <3>3 DEF SessionRight
        <3> QED
            BY <1>0, <2>2, <3>1, <3>2, <3>4 DEF CalmInv, Alone
    <2> QED
        BY <2>5, <2>6 DEF IInv, CalmInv
<1> QED
    BY <1>3, <1>4 DEF Dies

-----------------------------------------------------------------------------

LEMMA StepIInv == IInv /\ [Next]_vars => IInv'
<1> SUFFICES ASSUME IInv, [Next]_vars PROVE IInv'
    OBVIOUS
<1>1. ASSUME UNCHANGED vars PROVE IInv'
    BY <1>1 DEF vars, sessions, history, IInv, StateInv, CalmInv, TypeOK, Shape, Overlapped,
                Alone, SessionRight, Carried, Stored, Unused, Took
<1>2. ASSUME NEW r \in Requests, Finish(r) \/ ExchangeFails(r) PROVE IInv'
    BY <1>2, EndStep DEF Finish, ExchangeFails
<1>3. ASSUME NEW r \in Requests, SetTimezone(r) PROVE IInv'
    BY <1>3, GotoStep DEF SetTimezone
<1> QED
    BY <1>1, <1>2, <1>3, LoadStep, SaveStep, LoginStep, LogoutStep, PasswordLoginStep, StartStep,
       CallbackStep, ExchangeStep, LinkCallbackStep, LookupStep, EnterStep, ConfirmStep,
       ConfirmLinkStep, DiesStep, ExpireStep
       DEF Next

\* What a browser's session holds while its requests follow one another, and what a request
\* knows at its step whatever overlaps.
THEOREM Invariance == Spec => []IInv
<1> QED
    BY InitIInv, StepIInv, PTL DEF Spec

\* Sessions, flows and requests keep their shapes: what is kept in a session is a state that
\* could be drawn and the token of a confirmation page.
THEOREM TypeCorrect == Spec => []TypeOK
<1>1. IInv => TypeOK
    BY DEF IInv, StateInv
<1> QED
    BY <1>1, Invariance, PTL

\* While the requests of a browser follow one another, no state is accepted a second time,
\* but one that was accepted by a request that died before it saved the session
\* (accounts.services.exchange_oauth_code_for_profile).
THEOREM StatesAreUsedOnce == Spec => []StateUsedOnce
<1>1. IInv => StateUsedOnce
    BY DEF IInv, CalmInv, StateUsedOnce
<1> QED
    BY <1>1, Invariance, PTL

\* While the requests of a browser follow one another, the state of the flow begun last stays
\* in the session until its callback takes it out, and after a callback that died.
THEOREM LastFlowStays == Spec => []LastFlowCanFinish
<1>1. IInv => LastFlowCanFinish
    BY DEF IInv, CalmInv, SessionRight, Stored, LastFlowCanFinish
<1> QED
    BY <1>1, Invariance, PTL

LEMMA LinkingStep ==
    ASSUME IInv, [Next]_vars, NEW u \in Users, NEW i \in Ids,
           row[u].status = "active", ~Owns(u, i), Owns(u, i)'
    PROVE  \E r \in Requests :
               /\ req[r].id = i
               /\ \/ req[r].step = "link" /\ flow[req[r].flow].owner = u
                  \/ req[r].step = "confirm" /\ (Overlapped \/ past.shown = [id |-> i, user |-> u])
<1>1. ASSUME NEW v \in Users, NEW j \in Ids, Links!Link(v, j)
      PROVE  v = u /\ j = i
    BY <1>1 DEF Links!Link, Owns
<1>2. ASSUME NEW v \in Users, NEW j \in Ids, Links!Join(v, j, Email[j])
      PROVE  FALSE
    BY <1>2 DEF Links!Join, Owns
<1>3. ~UNCHANGED accounts
    BY DEF Owns
<1>4. ASSUME NEW r \in Requests, LinkCallback(r)
      PROVE  req[r].id = i /\ req[r].step = "link" /\ flow[req[r].flow].owner = u
    <2>1. req[r].user \in Users /\ req[r].id \in Ids
        BY <1>3, <1>4, Parts DEF LinkCallback, IInv, StateInv, TypeOK
    <2> QED
        BY <1>1, <1>3, <1>4, <2>1 DEF LinkCallback, LinkAccount, LinkRefused
<1>5. ASSUME NEW r \in Requests, ConfirmLink(r)
      PROVE  /\ req[r].id = i /\ req[r].step = "confirm"
             /\ Overlapped \/ past.shown = [id |-> i, user |-> u]
    <2>1. req[r].user \in Users /\ req[r].id \in Ids
        BY <1>5, Parts DEF ConfirmLink, IInv, StateInv, TypeOK
    <2>2. req[r].user = u /\ req[r].id = i
        BY <1>1, <1>3, <1>5, <2>1 DEF ConfirmLink, LinkAccount, LinkRefused
    <2>3. ~Overlapped => Carried(req[r])
        BY <1>5, TheOne DEF ConfirmLink
    <2> QED
        BY <1>5, <2>2, <2>3 DEF ConfirmLink, Carried
<1>6. ASSUME NEW r \in Requests, Enter(r) PROVE FALSE
    <2>1. req[r].id \in Ids
        BY <1>6, Parts DEF Enter, IInv, StateInv, TypeOK
    <2> QED
        BY <1>2, <1>3, <1>6, <2>1 DEF Enter
<1>7. \E r \in Requests : LinkCallback(r) \/ ConfirmLink(r) \/ Enter(r)
    <2>1. ASSUME NEW r \in Requests,
                 Load(r) \/ Finish(r) \/ SetTimezone(r) \/ ExchangeFails(r) \/ Exchange(r)
          PROVE  UNCHANGED accounts
        BY <2>1 DEF Load, Finish, SetTimezone, ExchangeFails, Exchange
    <2>2. ASSUME NEW r \in Requests,
                 Save(r) \/ Login(r) \/ Logout(r) \/ Lookup(r) \/ Confirm(r) \/ Dies(r)
          PROVE  UNCHANGED accounts
        BY <2>2 DEF Save, Login, Logout, Lookup, Confirm, Dies
    <2>3. ASSUME NEW r \in Requests, NEW v \in Users, PasswordLogin(r, v)
          PROVE  UNCHANGED accounts
        BY <2>3 DEF PasswordLogin
    <2>4. ASSUME NEW r \in Requests, NEW f \in Flows, NEW p \in Providers,
                 NEW action \in {"login", "link"}, Start(r, f, p, action)
          PROVE  UNCHANGED accounts
        BY <2>4 DEF Start
    <2>5. ASSUME NEW r \in Requests, NEW j \in Ids, Callback(r, j)
          PROVE  UNCHANGED accounts
        BY <2>5 DEF Callback
    <2>6. ASSUME NEW k \in Keys, Expire(k)
          PROVE  UNCHANGED accounts
        BY <2>6 DEF Expire
    <2>7. Next
        BY <1>3 DEF vars
    <2> QED
        BY <1>3, <2>1, <2>2, <2>3, <2>4, <2>5, <2>6, <2>7 DEF Next
<1> QED
    BY <1>4, <1>5, <1>6, <1>7

\* An account of a provider is linked to the user who began the flow, or, while the requests
\* of the browser follow one another, to the one the confirmation page shown last named
\* (oauth_callback_view, oauth_confirm_existing_account_view).
THEOREM LinksAreAsked == Spec => LinkedAsAsked
<1>1. IInv /\ [Next]_vars =>
          [\A u \in Users, i \in Ids :
              row[u].status = "active" /\ ~Owns(u, i) /\ Owns(u, i)' =>
                  \E r \in Requests :
                      /\ req[r].id = i
                      /\ \/ req[r].step = "link" /\ flow[req[r].flow].owner = u
                         \/ req[r].step = "confirm" /\ (Overlapped \/ past.shown = [id |-> i, user |-> u])]_vars
    BY LinkingStep
<1> QED
    BY <1>1, Invariance, PTL DEF Spec, LinkedAsAsked

=============================================================================
