------------------------ MODULE NotificationsProofs ------------------------
(***************************************************************************)
(* Equal notifications stay apart, and an event is held back only for      *)
(* another that was sent or is on its way, however many requests overlap;  *)
(* the cached number is wrong only for a cause.                            *)
(***************************************************************************)
EXTENDS Notifications, FiniteSetTheorems, TLAPS

\* At most one request has the dedupe key, since the key outlasts it.
OneHolder ==
    /\ \A r \in Requests : HasKey(r) => key + req[r].waited >= Dedupe
    /\ \A r, s \in Requests : HasKey(r) /\ HasKey(s) => r = s

\* What the table said when it was asked is still so: nobody else may insert.
StillApart == \A r \in Requests : req[r].step = "insert" => latest = Never \/ latest > Dedupe

\* A key without a request is that of a notification that was sent, or found, lately.
KeyForCause ==
    ~crashed /\ key > 0 =>
        (latest # Never /\ latest + key <= LongAgo) \/ \E r \in Requests : HasKey(r)

\* The number a page has counted is right until another request uses it.
CountedRight ==
    ~overlapped =>
        /\ \A r, s \in Requests : UsesNumber(r) /\ UsesNumber(s) => r = s
        /\ \A r \in Requests : req[r].step = "fill" => req[r].count = Number

Inv == TypeOK /\ OneHolder /\ StillApart /\ KeyForCause /\ CountedRight /\ WrongForCause

-----------------------------------------------------------------------------

LEMMA Numbers ==
    /\ Timeout \in Nat \ {0} /\ Dedupe \in Nat \ {0} /\ MaxDelay \in Nat /\ MaxDelay < Dedupe
    /\ Never \notin Nat /\ None \notin Notices
    /\ LongAgo \in Nat /\ LongAgo = Dedupe + Dedupe
BY ConstantsAssumption DEF LongAgo

LEMMA Counted ==
    /\ Cardinality(Notices) \in Nat
    /\ \A S \in SUBSET Notices : Cardinality(S) \in 0 .. Cardinality(Notices)
<1>1. IsFiniteSet(Notices) /\ Cardinality(Notices) \in Nat
    BY ConstantsAssumption, FS_CardinalityType
<1>2. ASSUME NEW S \in SUBSET Notices PROVE Cardinality(S) \in 0 .. Cardinality(Notices)
    BY <1>1, FS_Subset, FS_CardinalityType
<1> QED
    BY <1>1, <1>2

LEMMA IdleType == Idle \in Request
BY Counted, Numbers DEF Idle, Request, Steps

LEMMA InitInv == Init => Inv
<1> SUFFICES ASSUME Init PROVE Inv
    OBVIOUS
<1>1. TypeOK
    <2>1. req \in [Requests -> Request] /\ key \in 0 .. Dedupe /\ fresh \in 0 .. Timeout
        BY IdleType, Numbers DEF Init
    <2>2. overlapped \in BOOLEAN /\ crashed \in BOOLEAN
        BY DEF Init
    <2> QED
        BY <2>1, <2>2 DEF Init, TypeOK
<1>2. \A r \in Requests : req[r] = Idle
    BY DEF Init
<1>3. OneHolder /\ StillApart /\ CountedRight
    BY <1>2 DEF OneHolder, StillApart, CountedRight, HasKey, UsesNumber, Idle
<1>4. KeyForCause /\ WrongForCause
    BY DEF Init, KeyForCause, WrongForCause, Wrong
<1> QED
    BY <1>1, <1>3, <1>4 DEF Inv

LEMMA TypeStep == TypeOK /\ [Next]_vars => TypeOK'
<1> SUFFICES ASSUME TypeOK, [Next]_vars PROVE TypeOK'
    OBVIOUS
<1> USE Numbers, Counted, IdleType
<1>0. /\ req \in [Requests -> Request] /\ unread \subseteq Notices
      /\ Number \in 0 .. Cardinality(Notices)
    BY DEF TypeOK, Number
<1>1. overlapped' \in BOOLEAN /\ crashed' \in BOOLEAN
    <2>1. overlapped \in BOOLEAN /\ crashed \in BOOLEAN
        BY DEF TypeOK
    <2>2. Remember => overlapped' \in BOOLEAN
        BY Zenon DEF Remember
    <2>3. Next => (Remember /\ crashed' = crashed) \/ (crashed' = TRUE /\ overlapped' = overlapped)
        BY DEF Next, Crash
    <2> QED
        BY <2>1, <2>2, <2>3 DEF vars, history
<1>2. CASE \E r \in Requests : Click(r) \/ Get(r) \/ \E n \in Notices : MarkRead(r, n)
    BY <1>0, <1>1, <1>2 DEF TypeOK, Click, Get, MarkRead, Goto, Request, Steps, table
<1>3. CASE \E r \in Requests : Delete(r) \/ Create(r) \/ Add(r) \/ Look(r)
    BY <1>0, <1>1, <1>3 DEF TypeOK, Delete, Create, Add, Look, Goto, End, Request, Steps, table
<1>4. ASSUME NEW r \in Requests, Insert(r) \/ Comment(r) \/ SaveRead(r) \/ MarkAllRead(r)
      PROVE  TypeOK'
    <2>1. unread' \subseteq Notices /\ fresh' \in 0 .. Timeout
        BY <1>0, <1>4 DEF Insert, Comment, SaveRead, MarkAllRead, Write, Unused, TypeOK
    <2>2. req' \in [Requests -> Request]
        BY <1>0, <1>4 DEF Insert, Comment, SaveRead, MarkAllRead, Goto, Request, Steps, Idle
    <2>3. latest' \in (0 .. LongAgo) \cup {Never}
        BY <1>4 DEF Insert, Comment, SaveRead, MarkAllRead, TypeOK
    <2>4. UNCHANGED <<likes, key, cached>>
        BY <1>4 DEF Insert, Comment, SaveRead, MarkAllRead
    <2> QED
        BY <1>1, <2>1, <2>2, <2>3, <2>4 DEF TypeOK
<1>5. CASE \E r \in Requests : Count(r) \/ Invalidate(r) \/ Crash(r)
    BY <1>0, <1>1, <1>5 DEF TypeOK, Count, Invalidate, Crash, End, Request, Steps, table
<1>6. ASSUME NEW r \in Requests, Fill(r)
      PROVE  TypeOK'
    BY <1>0, <1>1, <1>6 DEF TypeOK, Fill, End, Request, table
<1>7. CASE Tick
    <2>1. OlderReq \in [Requests -> Request]
        BY <1>0, <1>7 DEF Tick, OlderReq, Request, HasKey
    <2>2. key' \in 0 .. Dedupe /\ latest' \in (0 .. LongAgo) \cup {Never} /\ fresh' \in 0 .. Timeout
        BY <1>7 DEF Tick, TypeOK
    <2>3. cached' = None \/ cached' \in [count : 0 .. Cardinality(Notices), ttl : 1 .. Timeout]
        BY <1>7 DEF Tick, TypeOK
    <2> QED
        BY <1>1, <1>7, <2>1, <2>2, <2>3 DEF Tick, TypeOK
<1>8. CASE UNCHANGED vars
    BY <1>8 DEF vars, table, history, TypeOK
<1> QED
    BY <1>2, <1>3, <1>4, <1>5, <1>6, <1>7, <1>8 DEF Next, Begin, Step

-----------------------------------------------------------------------------
(* The dedupe key and the table                                            *)

\* What the key, the latest notification and the requests tell of each other.
KeyInv == OneHolder /\ StillApart /\ KeyForCause

LEMMA InsertStep ==
    ASSUME TypeOK, KeyInv, NEW r \in Requests, Insert(r), UNCHANGED crashed
    PROVE  KeyInv'
<1> USE Numbers
<1>0. req \in [Requests -> Request] /\ latest' = 0 /\ key' = key /\ key \in 0 .. Dedupe
    BY DEF TypeOK, Insert
<1>1. \A s \in Requests : req'[s] = IF s = r THEN [Idle EXCEPT !.step = "invalidate"] ELSE req[s]
    BY <1>0 DEF Insert
<1>2. HasKey(r) /\ ~HasKey(r)'
    BY <1>1 DEF Insert, HasKey, Idle
<1>3. \A s \in Requests : ~HasKey(s)'
    BY <1>1, <1>2 DEF KeyInv, OneHolder, HasKey
<1>4. OneHolder' /\ StillApart'
    BY <1>3 DEF OneHolder, StillApart, HasKey
<1>5. latest' # Never /\ latest' + key' <= LongAgo
    BY <1>0
<1> QED
    BY <1>4, <1>5 DEF KeyInv, KeyForCause

LEMMA AddStep ==
    ASSUME TypeOK, KeyInv, NEW r \in Requests, Add(r), UNCHANGED crashed
    PROVE  KeyInv'
<1> USE Numbers
<1>0. /\ req \in [Requests -> Request] /\ latest' = latest /\ key \in 0 .. Dedupe
      /\ \A s \in Requests : HasKey(s) => req[s].waited \in 0 .. MaxDelay /\ key + req[s].waited >= Dedupe
    BY DEF TypeOK, Add, table, Request, KeyInv, OneHolder
<1>1. CASE key > 0
    <2>1. \A s \in Requests : req'[s] = IF s = r THEN Idle ELSE req[s]
        BY <1>0, <1>1 DEF Add, End
    <2>2. \A s \in Requests : HasKey(s)' <=> HasKey(s)
        BY <2>1 DEF Add, HasKey, Idle
    <2>3. key' = key
        BY <1>1 DEF Add
    <2> QED
        BY <1>0, <2>1, <2>2, <2>3
           DEF KeyInv, OneHolder, StillApart, KeyForCause, HasKey, Idle
<1>2. CASE key = 0
    <2>1. \A s \in Requests : ~HasKey(s)
        BY <1>0, <1>2
    <2>2. \A s \in Requests : req'[s] = IF s = r THEN [req[r] EXCEPT !.step = "look"] ELSE req[s]
        BY <1>0, <1>2 DEF Add, Goto
    <2>3. \A s \in Requests : HasKey(s)' <=> s = r
        BY <1>0, <2>1, <2>2 DEF HasKey, Request
    <2>4. key' = Dedupe /\ req'[r].waited \in 0 .. MaxDelay
        BY <1>0, <1>2, <2>2 DEF Add, Request
    <2>5. OneHolder' /\ KeyForCause'
        BY <2>3, <2>4 DEF OneHolder, KeyForCause
    <2>6. \A s \in Requests : req'[s].step # "insert"
        BY <1>0, <2>1, <2>2 DEF HasKey, Request
    <2> QED
        BY <2>5, <2>6 DEF KeyInv, StillApart
<1> QED
    BY <1>0, <1>1, <1>2

LEMMA LookStep ==
    ASSUME TypeOK, KeyInv, NEW r \in Requests, Look(r), UNCHANGED crashed
    PROVE  KeyInv'
<1> USE Numbers
<1>0. /\ req \in [Requests -> Request] /\ latest' = latest /\ key' = key /\ key \in 0 .. Dedupe
      /\ latest \in (0 .. LongAgo) \cup {Never}
    BY DEF TypeOK, Look, table
<1>1. CASE latest # Never /\ latest <= Dedupe
    <2>1. \A s \in Requests : req'[s] = IF s = r THEN Idle ELSE req[s]
        BY <1>0, <1>1 DEF Look, End
    <2>2. \A s \in Requests : ~HasKey(s)'
        BY <2>1 DEF Look, HasKey, Idle, KeyInv, OneHolder
    <2>3. OneHolder' /\ StillApart'
        BY <2>2 DEF OneHolder, StillApart, HasKey
    <2>4. latest' # Never /\ latest' + key' <= LongAgo
        BY <1>0, <1>1
    <2> QED
        BY <2>3, <2>4 DEF KeyInv, KeyForCause
<1>2. CASE ~(latest # Never /\ latest <= Dedupe)
    <2>1. \A s \in Requests : req'[s] = IF s = r THEN [req[r] EXCEPT !.step = "insert"] ELSE req[s]
        BY <1>0, <1>2 DEF Look, Goto
    <2>2. \A s \in Requests : (HasKey(s)' <=> HasKey(s)) /\ req'[s].waited = req[s].waited
        BY <1>0, <2>1 DEF Look, HasKey, Request
    <2>3. latest = Never \/ latest > Dedupe
        BY <1>0, <1>2
    <2> QED
        BY <1>0, <2>2, <2>3 DEF KeyInv, OneHolder, StillApart, KeyForCause
<1> QED
    BY <1>1, <1>2

LEMMA TickStep ==
    ASSUME TypeOK, KeyInv, Tick, UNCHANGED crashed
    PROVE  KeyInv'
<1> USE Numbers
<1>0. /\ req \in [Requests -> Request] /\ key \in 0 .. Dedupe
      /\ latest \in (0 .. LongAgo) \cup {Never}
      /\ \A r \in Requests : HasKey(r) => req[r].waited \in 0 .. MaxDelay
                                      /\ key + req[r].waited >= Dedupe
                                      /\ req[r].waited < MaxDelay
    BY DEF TypeOK, Request, KeyInv, OneHolder, Tick
<1>1. \A r \in Requests :
          req'[r] = IF HasKey(r) THEN [req[r] EXCEPT !.waited = @ + 1] ELSE req[r]
    BY <1>0 DEF Tick, OlderReq
<1>2. \A r \in Requests : req'[r].step = req[r].step /\ (HasKey(r)' <=> HasKey(r))
    BY <1>0, <1>1 DEF HasKey, Request
<1>3. ASSUME NEW r \in Requests, HasKey(r)
      PROVE  key > 0 /\ req'[r].waited = req[r].waited + 1
    <2>1. req'[r] = [req[r] EXCEPT !.waited = @ + 1] /\ req[r] \in Request
        BY <1>0, <1>1, <1>3
    <2>2. req'[r].waited = req[r].waited + 1
        BY <2>1 DEF Request
    <2>3. key > 0
        BY <1>0, <1>3
    <2> QED
        BY <2>2, <2>3
<1>4. key' = IF key = 0 THEN 0 ELSE key - 1
    BY DEF Tick
<1>5. OneHolder'
    <2>1. ASSUME NEW r \in Requests, HasKey(r)' PROVE key' + req'[r].waited >= Dedupe
        <3>1. HasKey(r) /\ key' = key - 1 /\ req'[r].waited = req[r].waited + 1
            BY <1>0, <1>2, <1>3, <1>4, <2>1
        <3> QED
            BY <1>0, <3>1
    <2> QED
        BY <1>2, <2>1 DEF KeyInv, OneHolder
<1>6. latest' = IF latest = Never \/ latest = LongAgo THEN latest ELSE latest + 1
    BY DEF Tick
<1>7. StillApart'
    BY <1>0, <1>2, <1>6 DEF KeyInv, StillApart
<1>8. ASSUME key > 1, latest # Never, latest + key <= LongAgo
      PROVE  latest' # Never /\ latest' + key' <= LongAgo
    BY <1>0, <1>4, <1>6, <1>8
<1>9. KeyForCause'
    BY <1>0, <1>2, <1>4, <1>8 DEF KeyInv, KeyForCause
<1> QED
    BY <1>5, <1>7, <1>9 DEF KeyInv

\* Requests without the key come and go.
LEMMA OtherKeySteps ==
    ASSUME TypeOK, KeyInv, UNCHANGED <<key, latest, crashed>>,
           \A r \in Requests : req'[r] = req[r] \/ ~(HasKey(r) \/ HasKey(r)')
    PROVE  KeyInv'
<1>1. \A r \in Requests : HasKey(r)' <=> HasKey(r)
    BY DEF HasKey
<1>2. \A r \in Requests : HasKey(r) => req'[r] = req[r]
    OBVIOUS
<1>3. \A r \in Requests : req'[r].step = "insert" => req[r].step = "insert"
    BY <1>1 DEF HasKey
<1> QED
    BY <1>1, <1>2, <1>3 DEF KeyInv, OneHolder, StillApart, KeyForCause

LEMMA KeyStep == TypeOK /\ KeyInv /\ [Next]_vars => KeyInv'
<1> SUFFICES ASSUME TypeOK, KeyInv, [Next]_vars PROVE KeyInv'
    OBVIOUS
<1>0. req \in [Requests -> Request]
    BY DEF TypeOK
<1>1. ASSUME NEW r \in Requests, Insert(r) \/ Add(r) \/ Look(r), UNCHANGED crashed
      PROVE  KeyInv'
    BY <1>1, InsertStep, AddStep, LookStep
<1>2. CASE Tick /\ UNCHANGED crashed
    BY <1>2, TickStep
<1>3. ASSUME NEW r \in Requests, UNCHANGED crashed,
             \/ Begin(r) \/ Delete(r) \/ Create(r) \/ Count(r) \/ Fill(r) \/ SaveRead(r)
             \/ Invalidate(r)
      PROVE  KeyInv'
    <2>1. UNCHANGED <<key, latest>>
        BY <1>3 DEF Begin, Click, Comment, Get, MarkAllRead, MarkRead, Delete, Create, Count, Fill,
              SaveRead, Invalidate, table
    <2>2. \A s \in Requests : s # r => req'[s] = req[s]
        BY <1>0, <1>3 DEF Begin, Click, Comment, Get, MarkAllRead, MarkRead, Delete, Create, Count,
              Fill, SaveRead, Invalidate, Goto, End
    <2>3. ~HasKey(r) /\ ~HasKey(r)'
        BY <1>0, <1>3 DEF HasKey, Begin, Click, Comment, Get, MarkAllRead, MarkRead, Delete, Create,
              Count, Fill, SaveRead, Invalidate, Goto, End, Request, Idle
    <2> QED
        BY <1>3, <2>1, <2>2, <2>3, OtherKeySteps
<1>4. ASSUME NEW r \in Requests, Crash(r)
      PROVE  KeyInv'
    <2>1. crashed' /\ UNCHANGED <<key, latest>>
        BY <1>4 DEF Crash, table
    <2>2. \A s \in Requests : req'[s] = IF s = r THEN Idle ELSE req[s]
        BY <1>0, <1>4 DEF Crash, End
    <2> QED
        BY <2>1, <2>2 DEF KeyInv, OneHolder, StillApart, KeyForCause, HasKey, Idle
<1>5. CASE UNCHANGED vars
    BY <1>5, OtherKeySteps DEF vars, table, history
<1> QED
    BY <1>1, <1>2, <1>3, <1>4, <1>5 DEF Next, Step

-----------------------------------------------------------------------------
(* The number and its copy in the cache                                    *)

CountInv == CountedRight /\ WrongForCause

\* Only one request, at most, uses the number from now on.
OneUser == \A r, s \in Requests : UsesNumber(r) /\ UsesNumber(s) => r = s

LEMMA Remembered ==
    ASSUME Remember, ~overlapped'
    PROVE  ~overlapped /\ OneUser'
BY DEF Remember, OneUser

\* A writer goes on to delete the cached number; whoever else had counted overlaps with it.
LEMMA WriteCount ==
    ASSUME TypeOK, CountInv, NEW r \in Requests, Remember, UNCHANGED crashed,
           Insert(r) \/ Comment(r) \/ SaveRead(r) \/ MarkAllRead(r)
    PROVE  CountInv'
<1> USE Numbers
<1>0. req \in [Requests -> Request]
    BY DEF TypeOK
<1> SUFFICES ASSUME ~overlapped' PROVE CountInv'
    BY DEF CountInv, CountedRight, WrongForCause
<1>1. ~overlapped /\ OneUser'
    BY Remembered
<1>2. req'[r].step = "invalidate" /\ cached' = cached
    BY <1>0 DEF Insert, Comment, SaveRead, MarkAllRead, Goto, Request, Idle
<1>3. UsesNumber(r)'
    BY <1>2 DEF UsesNumber
<1>4. \A s \in Requests : req'[s].step # "fill"
    BY <1>1, <1>2, <1>3 DEF OneUser, UsesNumber
<1>5. CountedRight'
    BY <1>1, <1>4 DEF OneUser, CountedRight
<1>6. ASSUME Wrong'
      PROVE  fresh' + cached'.ttl <= Timeout
    <2>1. fresh' = IF Number' = Number THEN fresh ELSE 0
        BY DEF Insert, Comment, SaveRead, MarkAllRead, Write
    <2>2. CASE Number' = Number
        BY <1>1, <1>2, <1>6, <2>1, <2>2 DEF CountInv, WrongForCause, Wrong
    <2>3. CASE Number' # Number
        <3>1. cached # None /\ cached.ttl \in 1 .. Timeout
            BY <1>2, <1>6 DEF TypeOK, Wrong
        <3> QED
            BY <1>2, <2>1, <2>3, <3>1
    <2> QED
        BY <2>2, <2>3
<1> QED
    BY <1>3, <1>5, <1>6 DEF CountInv, WrongForCause

LEMMA PageCount ==
    ASSUME TypeOK, CountInv, NEW r \in Requests, Remember, UNCHANGED crashed,
           Count(r) \/ Fill(r) \/ Invalidate(r)
    PROVE  CountInv'
<1> USE Numbers
<1>0. req \in [Requests -> Request] /\ Number' = Number /\ fresh' = fresh
    BY DEF TypeOK, Count, Fill, Invalidate, table, Number
<1> SUFFICES ASSUME ~overlapped' PROVE CountInv'
    BY DEF CountInv, CountedRight, WrongForCause
<1>1. ~overlapped /\ OneUser'
    BY Remembered
<1>2. \A s \in Requests : s # r => req'[s] = req[s]
    BY <1>0 DEF Count, Fill, Invalidate, End
<1>3. CASE Count(r)
    <2>1. req'[r].step = "fill" /\ req'[r].count = Number /\ cached' = cached
        BY <1>0, <1>3 DEF Count, Request
    <2>2. UsesNumber(r)'
        BY <2>1 DEF UsesNumber
    <2>3. \A s \in Requests : req'[s].step = "fill" => s = r
        BY <1>1, <2>2 DEF OneUser, UsesNumber
    <2>4. CountedRight'
        BY <1>0, <1>1, <2>1, <2>3 DEF CountedRight, OneUser
    <2>5. Wrong' => Wrong
        BY <1>0, <2>1 DEF Wrong
    <2> QED
        BY <1>0, <1>1, <2>1, <2>2, <2>4, <2>5 DEF CountInv, WrongForCause
<1>4. CASE Fill(r) \/ Invalidate(r)
    <2>1. req'[r] = Idle
        BY <1>0, <1>4 DEF Fill, Invalidate, End
    <2>2. CountedRight'
        BY <1>0, <1>1, <1>2, <2>1 DEF CountInv, CountedRight, OneUser, Idle
    <2>3. Fill(r) => req[r].count = Number
        BY <1>1 DEF Fill, CountInv, CountedRight
    <2>4. ~Wrong'
        BY <1>0, <1>4, <2>3 DEF Fill, Invalidate, Wrong
    <2> QED
        BY <2>2, <2>4 DEF CountInv, WrongForCause
<1> QED
    BY <1>3, <1>4

LEMMA OtherCount ==
    ASSUME TypeOK, CountInv, UNCHANGED <<unread, cached, fresh>>,
           overlapped' \/ (~overlapped /\ OneUser'), crashed => crashed',
           \A r \in Requests : /\ req'[r].step = "fill" => req'[r] = req[r]
                               /\ crashed' \/ (UsesNumber(r) => UsesNumber(r)')
    PROVE  CountInv'
<1> SUFFICES ASSUME ~overlapped' PROVE CountInv'
    BY DEF CountInv, CountedRight, WrongForCause
<1>1. ~overlapped /\ OneUser' /\ Number' = Number /\ (Wrong' <=> Wrong)
    BY DEF Number, Wrong
<1>2. CountedRight'
    BY <1>1 DEF CountInv, CountedRight, OneUser
<1>3. WrongForCause'
    BY <1>1 DEF CountInv, WrongForCause
<1> QED
    BY <1>2, <1>3 DEF CountInv

LEMMA TickCount ==
    ASSUME TypeOK, CountInv, Tick, Remember, UNCHANGED crashed
    PROVE  CountInv'
<1> USE Numbers
<1>0. /\ req \in [Requests -> Request] /\ Number' = Number /\ fresh \in 0 .. Timeout
      /\ cached # None => cached.ttl \in 1 .. Timeout /\ cached.count \in 0 .. Cardinality(Notices)
    BY DEF TypeOK, Tick, Number
<1> SUFFICES ASSUME ~overlapped' PROVE CountInv'
    BY DEF CountInv, CountedRight, WrongForCause
<1>1. ~overlapped /\ OneUser'
    BY Remembered
<1>2. \A r \in Requests : req'[r].step = req[r].step /\ (req[r].step = "fill" => req'[r] = req[r])
    BY <1>0 DEF Tick, OlderReq, HasKey, Request
<1>3. CountedRight'
    BY <1>0, <1>1, <1>2 DEF CountInv, CountedRight, OneUser
<1>4. ASSUME Wrong'
      PROVE  /\ Wrong /\ cached'.ttl = cached.ttl - 1
             /\ fresh' + cached'.ttl <= Timeout
    <2>1. cached # None /\ cached.ttl # 1 /\ cached' = [cached EXCEPT !.ttl = @ - 1]
        BY <1>4 DEF Tick, Wrong
    <2>2. cached'.count = cached.count /\ cached'.ttl = cached.ttl - 1
        BY <2>1 DEF TypeOK
    <2>3. Wrong
        BY <1>0, <1>4, <2>1, <2>2 DEF Wrong
    <2>4. fresh + cached.ttl <= Timeout
        BY <1>1, <2>3 DEF CountInv, WrongForCause
    <2>5. fresh' = IF fresh = Timeout THEN fresh ELSE fresh + 1
        BY DEF Tick
    <2> QED
        BY <1>0, <2>1, <2>2, <2>3, <2>4, <2>5
<1>5. \A r \in Requests : UsesNumber(r) => UsesNumber(r)'
    BY <1>2 DEF UsesNumber
<1>6. WrongForCause'
    BY <1>1, <1>4, <1>5 DEF CountInv, WrongForCause
<1> QED
    BY <1>3, <1>6 DEF CountInv

LEMMA CountStep == TypeOK /\ CountInv /\ [Next]_vars => CountInv'
<1> SUFFICES ASSUME TypeOK, CountInv, [Next]_vars PROVE CountInv'
    OBVIOUS
<1>0. req \in [Requests -> Request]
    BY DEF TypeOK
<1>1. ASSUME NEW r \in Requests, Remember, UNCHANGED crashed,
             \/ Insert(r) \/ Comment(r) \/ SaveRead(r) \/ MarkAllRead(r)
             \/ Count(r) \/ Fill(r) \/ Invalidate(r)
      PROVE  CountInv'
    BY <1>1, WriteCount, PageCount
<1>2. CASE Tick /\ Remember /\ UNCHANGED crashed
    BY <1>2, TickCount
<1>3. ASSUME NEW r \in Requests, Remember, UNCHANGED crashed,
             \/ Click(r) \/ Get(r) \/ (\E n \in Notices : MarkRead(r, n))
             \/ Delete(r) \/ Create(r) \/ Add(r) \/ Look(r)
      PROVE  CountInv'
    <2>1. UNCHANGED <<unread, cached, fresh>>
        BY <1>3 DEF Click, Get, MarkRead, Delete, Create, Add, Look, table
    <2>2. \A s \in Requests : s # r => req'[s] = req[s]
        BY <1>0, <1>3 DEF Click, Get, MarkRead, Delete, Create, Add, Look, Goto, End
    <2>3. ~UsesNumber(r) /\ req'[r].step # "fill"
        BY <1>0, <1>3 DEF UsesNumber, Click, Get, MarkRead, Delete, Create, Add, Look, Goto, End,
              Request, Idle
    <2>4. overlapped' \/ (~overlapped /\ OneUser')
        BY <1>3, Remembered
    <2>5. \A s \in Requests : /\ req'[s].step = "fill" => req'[s] = req[s]
                              /\ UsesNumber(s) => UsesNumber(s)'
        BY <2>2, <2>3 DEF UsesNumber
    <2> QED
        BY <1>3, <2>1, <2>4, <2>5, OtherCount
<1>4. ASSUME NEW r \in Requests, Crash(r), UNCHANGED overlapped
      PROVE  CountInv'
    <2>1. crashed' /\ UNCHANGED <<unread, cached, fresh>>
        BY <1>4 DEF Crash, table
    <2>2. \A s \in Requests : req'[s] = IF s = r THEN Idle ELSE req[s]
        BY <1>0, <1>4 DEF Crash, End
    <2>3. overlapped' \/ (~overlapped /\ OneUser')
        BY <1>4, <2>2 DEF CountInv, CountedRight, OneUser, UsesNumber, Idle
    <2>4. \A s \in Requests : req'[s].step = "fill" => req'[s] = req[s]
        BY <2>2 DEF Idle
    <2> QED
        BY <2>1, <2>3, <2>4, OtherCount
<1>5. CASE UNCHANGED vars
    <2>1. overlapped' \/ (~overlapped /\ OneUser')
        BY <1>5 DEF vars, history, CountInv, CountedRight, OneUser, UsesNumber
    <2>2. \A r \in Requests : req'[r] = req[r] /\ (UsesNumber(r) => UsesNumber(r)')
        BY <1>5 DEF vars, UsesNumber
    <2> QED
        BY <1>5, <2>1, <2>2, OtherCount DEF vars, table, history
<1> QED
    BY <1>1, <1>2, <1>3, <1>4, <1>5 DEF Next, Begin, Step

-----------------------------------------------------------------------------

\* One request at most has the dedupe key, and what it found stays so until it inserts; a number
\* about to be cached is right until another request uses it.
THEOREM Invariance == Spec => []Inv
<1>1. Inv /\ [Next]_vars => Inv'
    BY TypeStep, KeyStep, CountStep DEF Inv, KeyInv, CountInv
<1> QED
    BY <1>1, InitInv, PTL DEF Spec

\* Rows, requests and the cache keep their shapes; the cached number is one of notifications
\* there can be, and has a timeout (get_unread_notification_count).
THEOREM TypeCorrect == Spec => []TypeOK
<1>1. Inv => TypeOK
    BY DEF Inv
<1> QED
    BY <1>1, Invariance, PTL

\* As long as requests that use the number follow one another, the cached number is wrong only
\* while one is under way or after one has died, and for a minute at most.
THEOREM WrongOnlyForCause == Spec => []WrongForCause
<1>1. Inv => WrongForCause
    BY DEF Inv
<1> QED
    BY <1>1, Invariance, PTL

\* Two equal notifications are more than NOTIFICATION_DEDUPE_TTL apart, however many requests
\* overlap and whatever crashes: the key keeps the rest of create_notification to one request.
THEOREM EqualNoticesApart == Spec => NoticesApart
<1>1. Inv /\ [Next]_vars =>
          [\A r \in Requests : Insert(r) => latest = Never \/ latest > Dedupe]_vars
    BY DEF Inv, StillApart, Insert
<1> QED
    BY <1>1, Invariance, PTL DEF Spec, NoticesApart

\* Until a request dies, create_notification drops an event only for an equal notification that
\* is less than two timeouts old, or on its way.
THEOREM NothingIsHeldWithoutCause == Spec => HeldForCause
<1>1. Inv /\ [Next]_vars =>
        [~crashed' => \A r \in Requests :
            req[r].step \in {"add", "look"} /\ req'[r].step = "idle"
                => \/ latest # Never /\ latest < LongAgo
                   \/ \E s \in Requests \ {r} : HasKey(s)]_vars
    <2> SUFFICES ASSUME Inv, Next, ~crashed', NEW r \in Requests,
                        req[r].step \in {"add", "look"}, req'[r].step = "idle"
                 PROVE  \/ latest # Never /\ latest < LongAgo
                        \/ \E s \in Requests \ {r} : HasKey(s)
        OBVIOUS
    <2>0. /\ req \in [Requests -> Request] /\ key \in 0 .. Dedupe
          /\ latest \in (0 .. LongAgo) \cup {Never}
        BY DEF Inv, TypeOK
    <2>1. ~crashed
        BY DEF Next, Crash
    <2>2. CASE Add(r)
        <3>1. key > 0
            BY <2>0, <2>2, Numbers DEF Add, Goto, Request
        <3>2. ~HasKey(r)
            BY <2>2 DEF Add, HasKey
        <3> QED
            BY <2>0, <2>1, <3>1, <3>2, Numbers DEF Inv, KeyForCause
    <2>3. CASE Look(r)
        BY <2>0, <2>3, Numbers DEF Look, Goto, Request
    <2>4. CASE Tick
        BY <2>0, <2>4 DEF Tick, OlderReq, Request
    <2>5. ASSUME NEW s \in Requests, s # r, Begin(s) \/ Step(s)
          PROVE  FALSE
        <3>1. req'[r] = req[r]
            BY <2>0, <2>5 DEF Begin, Click, Comment, Get, MarkAllRead, MarkRead, Step, Delete, Create,
                  Add, Look, Insert, Count, Fill, SaveRead, Invalidate, Goto, End
        <3> QED
            BY <3>1
    <2>6. CASE Begin(r) \/ Step(r)
        BY <2>2, <2>3, <2>6 DEF Begin, Click, Comment, Get, MarkAllRead, MarkRead, Step, Delete, Create,
              Insert, Count, Fill, SaveRead, Invalidate
    <2> QED
        BY <2>1, <2>4, <2>5, <2>6 DEF Next, Crash
<1> QED
    BY <1>1, Invariance, PTL DEF Spec, HeldForCause

=============================================================================
