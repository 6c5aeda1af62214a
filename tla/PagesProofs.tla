---------------------------- MODULE PagesProofs ----------------------------
(***************************************************************************)
(* The nine parts that MCPages puts in one model, each with the invariant  *)
(* its properties rest on, for any number of requests, synchronisations,   *)
(* documents, chunks, comments, pages and names, and any bounds.  The      *)
(* parts share no state: a section proves its invariant of its part alone, *)
(* and the last one puts together what holds of the whole model.           *)
(***************************************************************************)
EXTENDS MCPages, FiniteSetTheorems, SequenceTheorems, WellFoundedInduction, TLAPS

\* The parts do not change places.
LEMMA PartStays ==
    ASSUME [Next]_vars
    PROVE  /\ part' = part
           /\ part = "embeddings" => [Embeddings!Next]_(Embeddings!vars)
           /\ part = "pages" => [Wiki!Next]_(Wiki!vars)
           /\ part = "threads" => [Threads!Next]_(Threads!vars)
           /\ part = "health" => [Health!Next]_(Health!vars)
           /\ part = "lists" => [Lists!Next]_(Lists!vars)
           /\ part = "compose" => [Compose!Next]_(Compose!vars)
           /\ part = "related" => [Related!Next]_(Related!vars)
           /\ part = "logins" => [Logins!Next]_(Logins!vars)
           /\ part = "tags" => [Tagging!Next]_(Tagging!vars)
<1>1. part' = part
    BY DEF Next, vars
<1>2. part = "embeddings" => [Embeddings!Next]_(Embeddings!vars)
    BY DEF Next, vars, Embeddings!vars, Embeddings!tables, Embeddings!content, Embeddings!history,
           ofEmbeddings, ofDocument
<1>3. part = "pages" => [Wiki!Next]_(Wiki!vars)
    BY DEF Next, vars, Wiki!vars, Wiki!document, ofWiki, ofDocument
<1>4. part = "threads" => [Threads!Next]_(Threads!vars)
    BY DEF Next, vars, Threads!vars, ofThreads
<1>5. part = "health" => [Health!Next]_(Health!vars)
    BY DEF Next, vars, Health!vars, Health!health, ofHealth
<1>6. part = "lists" => [Lists!Next]_(Lists!vars)
    BY DEF Next, vars, Lists!vars, Lists!posts, ofLists
<1>7. part = "compose" => [Compose!Next]_(Compose!vars)
    BY DEF Next, vars, Compose!vars, Compose!form, Compose!results, ofCompose
<1>8. part = "related" => [Related!Next]_(Related!vars)
    BY DEF Next, vars, Related!vars, Related!data, ofRelated
<1>9. part = "logins" => [Logins!Next]_(Logins!vars)
    BY DEF Next, vars, Logins!vars, ofLogins
<1>10. part = "tags" => [Tagging!Next]_(Tagging!vars)
    BY DEF Next, vars, Tagging!vars, ofTags
<1> QED
    BY <1>1, <1>2, <1>3, <1>4, <1>5, <1>6, <1>7, <1>8, <1>9, <1>10

-----------------------------------------------------------------------------
(* Induction over numbers, and functions defined step by step              *)

\* The order of numbers, as a set of pairs.
Below == {pair \in Nat \X Nat : pair[1] < pair[2]}
\* Every set of numbers has a least one.
LEMMA LeastNumber ==
    ASSUME NEW T, T \subseteq Nat, T # {}
    PROVE  \E x \in T : \A y \in T : x <= y
<1>0. IsWellFoundedOn(Below, Nat)
    BY NatLessThanWellFounded DEF OpToRel, Below
<1>1. PICK x \in T : \A y \in T : ~(<<y, x>> \in Below)
    BY <1>0, WFMin
<1>2. \A y \in T : ~(y < x)
    BY <1>1 DEF Below
<1> QED
    BY <1>2

\* Induction over the members of a set of numbers.
LEMMA Induction ==
    ASSUME NEW S, 0 \in S, \A n \in Nat : n \in S => n + 1 \in S
    PROVE  \A n \in Nat : n \in S
<1> SUFFICES ASSUME Nat \ S # {} PROVE FALSE
    OBVIOUS
<1>1. PICK x \in Nat \ S : \A y \in Nat \ S : x <= y
    <2>1. Nat \ S \subseteq Nat
        OBVIOUS
    <2> QED
        BY <2>1, LeastNumber
<1>2. x - 1 \in Nat /\ (x - 1) + 1 = x /\ ~(x <= x - 1)
    BY <1>1
<1> QED
    BY <1>1, <1>2

\* g is what steps of G make of b, m times.
MadeOf(g, m, V, b, G) ==
    g \in [0 .. m -> V] /\ g[0] = b /\ \A k \in 1 .. m : g[k] = G[k][g[k - 1]]

\* What is defined step by step exists.
LEMMA Recursion ==
    ASSUME NEW V, NEW b \in V, NEW G \in [Nat -> [V -> V]], NEW n \in Nat
    PROVE  \E g : MadeOf(g, n, V, b, G)
<1> DEFINE S == {m \in Nat : \E g : MadeOf(g, m, V, b, G)}
<1>1. 0 \in S
    <2> DEFINE g == [k \in 0 .. 0 |-> b]
    <2>1. g \in [0 .. 0 -> V] /\ g[0] = b /\ \A k \in 1 .. 0 : g[k] = G[k][g[k - 1]]
        OBVIOUS
    <2> HIDE DEF g
    <2> QED
        BY <2>1 DEF MadeOf
<1>2. ASSUME NEW m \in Nat, m \in S PROVE m + 1 \in S
    <2>1. PICK g : MadeOf(g, m, V, b, G)
        BY <1>2
    <2>2. g \in [0 .. m -> V] /\ g[0] = b /\ \A k \in 1 .. m : g[k] = G[k][g[k - 1]]
        BY <2>1 DEF MadeOf
    <2> DEFINE h == [k \in 0 .. m + 1 |-> IF k = m + 1 THEN G[m + 1][g[m]] ELSE g[k]]
    <2>3. G[m + 1][g[m]] \in V
        BY <2>2
    <2>4. h \in [0 .. m + 1 -> V]
        BY <2>2, <2>3
    <2>5. h[0] = b
        BY <2>2
    <2>6. ASSUME NEW k \in 1 .. m + 1 PROVE h[k] = G[k][h[k - 1]]
        <3>1. CASE k = m + 1
            <4>1. h[k] = G[m + 1][g[m]] /\ h[k - 1] = g[m]
                BY <3>1
            <4> QED
                BY <3>1, <4>1
        <3>2. CASE k # m + 1
            <4>1. k \in 1 .. m /\ h[k] = g[k] /\ h[k - 1] = g[k - 1]
                BY <3>2
            <4> QED
                BY <2>2, <4>1
        <3> QED
            BY <3>1, <3>2
    <2> HIDE DEF h
    <2>7. MadeOf(h, m + 1, V, b, G)
        BY <2>4, <2>5, <2>6 DEF MadeOf
    <2> QED
        BY <2>7
<1> HIDE DEF S
<1>3. \A m \in Nat : m \in S
    BY <1>1, <1>2, Induction
<1> QED
    BY <1>3 DEF S

-----------------------------------------------------------------------------
(* The vectors of wiki documents                                           *)

\* A synchronisation will bring the row to the document as it is.
Follows(p) ==
    \/ sync[p].step = "read"
    \/ sync[p].step = "check" /\ sync[p].cause = current
    \/ Embeddings!Holding(p)

\* It will give the document a row, if the chunk c is there to fall back on.
Hopeful(p, c) ==
    \/ sync[p].step \in {"read", "write"}
    \/ sync[p].step = "check" /\ sync[p].cause \in {current, c}
    \/ sync[p].step \in {"query", "generate"} /\ sync[p].document.revision = current

\* What it holds was the document's at one time.
HoldsPast(p) ==
    /\ sync[p].step \in {"query", "generate", "write"} <=> sync[p].document # None
    /\ sync[p].document # None => sync[p].document \in past
    /\ sync[p].step = "check" => sync[p].cause # None

CalmHeld == calm => Embeddings!NobodyHoldsAnother(Embeddings!Now)
CalmFollowed == calm /\ Embeddings!Now # None =>
    embedding = Embeddings!Now \/ \E p \in Syncs : Follows(p)
Hope == fits /\ ~missed /\ current # None /\ embedding = None =>
    \A c \in Embeddings!Centroid(current) : \E p \in Syncs : Hopeful(p, c)

EmbInv ==
    /\ Embeddings!TypeOK
    /\ Embeddings!Now # None => Embeddings!Now \in past
    /\ Embeddings!RowDescribesDocument
    /\ \A p \in Syncs : HoldsPast(p)
    /\ CalmHeld /\ CalmFollowed /\ Hope

Sync == [step : Embeddings!Steps, cause : Embeddings!Revisions \cup Chunks \cup {None},
         document : Embeddings!Snapshot \cup {None}]

LEMMA EmbNumbers ==
    /\ SeedTitle \in Titles /\ SeedText \in Texts /\ MaxEdits \in Nat
    /\ None \notin Titles /\ None \notin Texts /\ None \notin Chunks
    /\ None \notin Embeddings!Revisions /\ None \notin Embeddings!Snapshot
    /\ 1 \in Embeddings!Revisions /\ 2 \in Embeddings!Revisions
BY PartsAssumption DEF Embeddings!EmbeddingAssumption, Embeddings!Revisions

LEMMA EmbIdle == /\ Embeddings!Idle \in Sync /\ Embeddings!Idle.step = "idle"
                 /\ Embeddings!Idle.cause = None /\ Embeddings!Idle.document = None
BY DEF Embeddings!Idle, Sync, Embeddings!Steps

LEMMA EmbTypes ==
    ASSUME EmbInv
    PROVE  /\ title \in Titles /\ current \in Embeddings!Revisions \cup {None}
           /\ text \in [Embeddings!Revisions -> Texts \cup {None}]
           /\ cites \in [Embeddings!Revisions -> SUBSET Chunks] /\ vectors \subseteq Chunks
           /\ embedding \in Embeddings!Snapshot \cup {None}
           /\ sync \in [Syncs -> Sync]
           /\ edits \in 0..MaxEdits /\ past \subseteq Embeddings!Snapshot
           /\ calm \in BOOLEAN /\ missed \in BOOLEAN /\ fits \in BOOLEAN
           /\ current # None => text[current] \in Texts
BY DEF EmbInv, Embeddings!TypeOK, Embeddings!Row, Sync, Embeddings!Written

LEMMA EmbNow ==
    ASSUME EmbInv
    PROVE  /\ current = None => Embeddings!Now = None
           /\ current # None => /\ Embeddings!Now \in Embeddings!Snapshot /\ Embeddings!Now # None
                                /\ Embeddings!Now.title = title /\ Embeddings!Now.revision = current
                                /\ Embeddings!Now.text = text[current]
BY EmbTypes, EmbNumbers DEF Embeddings!Now, Embeddings!Snapshot

LEMMA EmbInit == Embeddings!Init => EmbInv
<1> SUFFICES ASSUME Embeddings!Init PROVE EmbInv
    OBVIOUS
<1>1. Embeddings!Now = None
    BY DEF Embeddings!Init, Embeddings!Now
<1>2. Embeddings!TypeOK
    <2>1. /\ text \in [Embeddings!Revisions -> Texts \cup {None}]
          /\ cites \in [Embeddings!Revisions -> SUBSET Chunks] /\ sync \in [Syncs -> Sync]
        BY EmbIdle DEF Embeddings!Init
    <2>2. edits \in 0..MaxEdits
        BY EmbNumbers DEF Embeddings!Init
    <2> QED
        BY <2>1, <2>2 DEF Embeddings!Init, Embeddings!TypeOK, Sync
<1>3. \A p \in Syncs : HoldsPast(p) /\ sync[p].document = None
    BY EmbIdle DEF Embeddings!Init, HoldsPast
<1> QED
    BY <1>1, <1>2, <1>3 DEF Embeddings!Init, EmbInv, Embeddings!RowDescribesDocument, CalmHeld,
       CalmFollowed, Hope, Embeddings!NobodyHoldsAnother, Embeddings!Holding

\* One synchronisation goes on, and leaves the document and what was its past alone.
LEMMA EmbSyncStep ==
    ASSUME EmbInv, UNCHANGED fits, NEW p \in Syncs,
           UNCHANGED <<title, current, text, cites, vectors, edits, past>>,
           sync' = [sync EXCEPT ![p] = sync'[p]], sync'[p] \in Sync, HoldsPast(p)',
           embedding' = embedding \/ (embedding' \in past /\ embedding' # None),
           calm' \in BOOLEAN, missed' \in BOOLEAN,
           CalmHeld', CalmFollowed', Hope'
    PROVE  EmbInv'
<1>1. Embeddings!TypeOK'
    BY EmbTypes DEF Embeddings!TypeOK, Embeddings!Row, Sync, EmbInv, Embeddings!Written
<1>2. \A q \in Syncs : HoldsPast(q)'
    <2> SUFFICES ASSUME NEW q \in Syncs, q # p PROVE HoldsPast(q)'
        OBVIOUS
    <2>1. sync'[q] = sync[q] /\ past' = past /\ HoldsPast(q)
        BY EmbTypes DEF EmbInv
    <2> QED
        BY <2>1 DEF HoldsPast
<1>3. Embeddings!Now' # None => Embeddings!Now' \in past'
    BY DEF EmbInv, Embeddings!Now
<1>4. Embeddings!RowDescribesDocument'
    BY DEF EmbInv, Embeddings!RowDescribesDocument
<1> QED
    BY <1>1, <1>2, <1>3, <1>4 DEF EmbInv

LEMMA EmbCheckStep ==
    ASSUME EmbInv, UNCHANGED fits, NEW p \in Syncs, Embeddings!Check(p)
    PROVE  EmbInv'
<1>0. /\ sync[p] \in Sync /\ sync[p].step = "check" /\ sync[p].cause # None /\ sync[p].document = None
      /\ sync \in [Syncs -> Sync]
      /\ UNCHANGED <<title, current, text, cites, vectors, embedding, edits, past, calm, missed>>
    BY EmbTypes DEF EmbInv, HoldsPast, Embeddings!Check,
                    Embeddings!tables, Embeddings!content, Embeddings!history
<1>1. /\ sync' = [sync EXCEPT ![p] = sync'[p]] /\ sync'[p] \in Sync
      /\ sync'[p].step \in {"read", "idle"} /\ sync'[p].document = None
      /\ Embeddings!Concerns(sync[p].cause) => sync'[p].step = "read"
    BY <1>0, EmbIdle DEF Embeddings!Check, Embeddings!Go, Embeddings!End, Sync, Embeddings!Steps
<1>2. HoldsPast(p)'
    BY <1>1 DEF HoldsPast
<1>3. Follows(p) => Follows(p)'
    BY <1>0, <1>1 DEF Follows, Embeddings!Concerns, Embeddings!Holding
<1>4. ASSUME current # None, NEW c \in Embeddings!Centroid(current), Hopeful(p, c) PROVE Hopeful(p, c)'
    BY <1>0, <1>1, <1>4 DEF Hopeful, Embeddings!Concerns, Embeddings!Centroid
<1>5. \A q \in Syncs : q # p => sync'[q] = sync[q]
    BY <1>0, <1>1
<1>6. /\ Embeddings!Now' = Embeddings!Now /\ Embeddings!Centroid(current)' = Embeddings!Centroid(current)
    BY <1>0 DEF Embeddings!Now, Embeddings!Centroid
<1>7. CalmHeld'
    BY <1>0, <1>1, <1>5, <1>6 DEF EmbInv, CalmHeld, Embeddings!NobodyHoldsAnother, Embeddings!Holding
<1>8. CalmFollowed'
    BY <1>0, <1>3, <1>5, <1>6 DEF EmbInv, CalmFollowed, Follows, Embeddings!Holding
<1>9. Hope'
    BY <1>0, <1>4, <1>5, <1>6 DEF EmbInv, Hope, Hopeful
<1> QED
    BY <1>0, <1>1, <1>2, <1>7, <1>8, <1>9, EmbTypes, EmbSyncStep

\* To hold the document as it is.
LEMMA EmbHoldStep ==
    ASSUME EmbInv, UNCHANGED fits, NEW p \in Syncs, sync[p].document = None, current # None, Embeddings!Hold(p),
           UNCHANGED <<title, current, text, cites, vectors, embedding, edits, past, calm, missed>>
    PROVE  EmbInv'
<1>0. sync \in [Syncs -> Sync] /\ Embeddings!Now \in Embeddings!Snapshot /\ Embeddings!Now # None
      /\ Embeddings!Now.revision = current
    BY EmbTypes, EmbNow
<1>1. /\ sync' = [sync EXCEPT ![p] = sync'[p]] /\ sync'[p] \in Sync
      /\ sync'[p].step = "query" /\ sync'[p].document = Embeddings!Now
    BY <1>0 DEF Embeddings!Hold, Sync, Embeddings!Steps
<1>2. HoldsPast(p)'
    BY <1>0, <1>1 DEF EmbInv, HoldsPast
<1>5. \A q \in Syncs : q # p => sync'[q] = sync[q]
    BY <1>0, <1>1
<1>6. /\ Embeddings!Now' = Embeddings!Now /\ Embeddings!Centroid(current)' = Embeddings!Centroid(current)
    BY DEF Embeddings!Now, Embeddings!Centroid
<1>7. CalmHeld'
    BY <1>1, <1>5, <1>6 DEF EmbInv, CalmHeld, Embeddings!NobodyHoldsAnother, Embeddings!Holding
<1>8. CalmFollowed'
    BY <1>0, <1>1, <1>6 DEF CalmFollowed, Follows, Embeddings!Holding
<1>9. Hope'
    BY <1>0, <1>1 DEF Hope, Hopeful
<1> QED
    BY <1>0, <1>1, <1>2, <1>7, <1>8, <1>9, EmbTypes, EmbSyncStep

LEMMA EmbReadStep ==
    ASSUME EmbInv, UNCHANGED fits, NEW p \in Syncs, Embeddings!Read(p)
    PROVE  EmbInv'
<1>0. /\ sync[p] \in Sync /\ sync[p].step = "read" /\ sync[p].document = None
      /\ sync \in [Syncs -> Sync]
      /\ UNCHANGED <<title, current, text, cites, vectors, embedding, edits, past, calm, missed>>
    BY EmbTypes DEF EmbInv, HoldsPast, Embeddings!Read,
                    Embeddings!tables, Embeddings!content, Embeddings!history
<1>1. CASE current # None
    BY <1>0, <1>1, EmbNow, EmbHoldStep DEF Embeddings!Read
<1>2. CASE current = None
    <2>1. /\ sync' = [sync EXCEPT ![p] = sync'[p]] /\ sync'[p] \in Sync
          /\ sync'[p].step = "idle" /\ sync'[p].document = None
        BY <1>0, <1>2, EmbNow, EmbIdle DEF Embeddings!Read, Embeddings!End
    <2>2. HoldsPast(p)'
        BY <2>1 DEF HoldsPast
    <2>3. Embeddings!Now' = None /\ Embeddings!Now = None
        BY <1>0, <1>2 DEF Embeddings!Now
    <2>4. \A q \in Syncs : q # p => sync'[q] = sync[q]
        BY <1>0, <2>1
    <2>5. CalmHeld'
        BY <1>0, <2>1, <2>3, <2>4 DEF EmbInv, CalmHeld, Embeddings!NobodyHoldsAnother, Embeddings!Holding
    <2>6. CalmFollowed' /\ Hope'
        BY <1>0, <1>2, <2>3 DEF CalmFollowed, Hope
    <2> QED
        BY <1>0, <2>1, <2>2, <2>5, <2>6, EmbTypes, EmbSyncStep
<1> QED
    BY <1>1, <1>2

LEMMA EmbBackfillStep ==
    ASSUME EmbInv, UNCHANGED fits, NEW p \in Syncs, Embeddings!Backfill(p)
    PROVE  EmbInv'
<1>1. /\ sync[p].step = "idle" /\ sync[p].document = None
      /\ UNCHANGED <<title, current, text, cites, vectors, embedding, edits, past, calm, missed>>
    BY EmbTypes DEF EmbInv, HoldsPast, Embeddings!Backfill,
                    Embeddings!tables, Embeddings!content, Embeddings!history
<1> QED
    BY <1>1, EmbNow, EmbHoldStep DEF Embeddings!Backfill

\* To end, with the row the document held; while it is calm, that is the document as it is.
LEMMA EmbSettleStep ==
    ASSUME EmbInv, UNCHANGED fits, NEW p \in Syncs, sync[p].document # None, sync' = [sync EXCEPT ![p] = Embeddings!Idle],
           embedding' = sync[p].document,
           calm' = (calm \/ (sync[p].document = Embeddings!Now /\ Embeddings!NobodyHoldsAnother(Embeddings!Now))),
           UNCHANGED <<title, current, text, cites, vectors, edits, past, missed>>
    PROVE  EmbInv'
<1>1. /\ sync' = [sync EXCEPT ![p] = sync'[p]] /\ sync'[p] \in Sync
      /\ sync'[p].step = "idle" /\ sync'[p].document = None
    BY EmbTypes, EmbIdle
<1>2. HoldsPast(p)'
    BY <1>1 DEF HoldsPast
<1>3. \A q \in Syncs : q # p => sync'[q] = sync[q]
    BY EmbTypes
<1>4. Embeddings!Now' = Embeddings!Now
    BY DEF Embeddings!Now
<1>5. calm' => embedding' = Embeddings!Now /\ Embeddings!NobodyHoldsAnother(Embeddings!Now)
    BY DEF EmbInv, CalmHeld, Embeddings!NobodyHoldsAnother, Embeddings!Holding
<1>6. CalmHeld'
    BY <1>1, <1>3, <1>4, <1>5 DEF CalmHeld, Embeddings!NobodyHoldsAnother, Embeddings!Holding
<1>7. CalmFollowed' /\ Hope'
    BY <1>4, <1>5 DEF CalmFollowed, Hope
<1>8. embedding' \in past /\ embedding' # None /\ calm' \in BOOLEAN
    BY EmbTypes DEF EmbInv, HoldsPast
<1> QED
    BY <1>1, <1>2, <1>6, <1>7, <1>8, EmbTypes, EmbSyncStep

LEMMA EmbWriteStep ==
    ASSUME EmbInv, UNCHANGED fits, NEW p \in Syncs, Embeddings!Write(p)
    PROVE  EmbInv'
<1>1. sync[p].document # None
    BY DEF EmbInv, HoldsPast, Embeddings!Write
<1> QED
    BY <1>1, EmbSettleStep DEF Embeddings!Write, Embeddings!End, Embeddings!Settle, Embeddings!content

\* Two steps of a synchronisation that holds a document, and goes on holding it.
LEMMA EmbGoStep ==
    ASSUME EmbInv, UNCHANGED fits, NEW p \in Syncs, NEW next \in {"generate", "write"}, Embeddings!Go(p, next),
           sync[p].step = IF next = "write" THEN "generate" ELSE "query",
           UNCHANGED <<title, current, text, cites, vectors, embedding, edits, past, calm, missed>>
    PROVE  EmbInv'
<1>0. sync[p] \in Sync /\ sync[p].document # None /\ sync[p].document \in past /\ sync \in [Syncs -> Sync]
    BY EmbTypes DEF EmbInv, HoldsPast
<1>1. /\ sync' = [sync EXCEPT ![p] = sync'[p]] /\ sync'[p] \in Sync
      /\ sync'[p].step = next /\ sync'[p].document = sync[p].document
    BY <1>0 DEF Embeddings!Go, Sync, Embeddings!Steps
<1>2. HoldsPast(p)'
    BY <1>0, <1>1 DEF HoldsPast
<1>3. \A q \in Syncs : q # p => sync'[q] = sync[q]
    BY <1>0, <1>1
<1>4. /\ Embeddings!Now' = Embeddings!Now /\ Embeddings!Centroid(current)' = Embeddings!Centroid(current)
    BY DEF Embeddings!Now, Embeddings!Centroid
<1>5. CalmHeld'
    BY <1>1, <1>3, <1>4 DEF EmbInv, CalmHeld, Embeddings!NobodyHoldsAnother, Embeddings!Holding
<1>6. CalmFollowed'
    BY <1>0, <1>1, <1>4 DEF CalmFollowed, Follows, Embeddings!Holding
<1>7. ASSUME NEW c, Hopeful(p, c) PROVE Hopeful(p, c)'
    BY <1>1, <1>7 DEF Hopeful
<1>8. Hope'
    BY <1>3, <1>4, <1>7 DEF EmbInv, Hope, Hopeful
<1> QED
    BY <1>1, <1>2, <1>5, <1>6, <1>8, EmbTypes, EmbSyncStep

LEMMA EmbQueryStep ==
    ASSUME EmbInv, UNCHANGED fits, NEW p \in Syncs, Embeddings!Query(p)
    PROVE  EmbInv'
<1>0. /\ sync[p].step = "query" /\ sync[p].document # None
      /\ UNCHANGED <<title, current, text, cites, vectors, embedding, edits, past, missed>>
    BY DEF EmbInv, HoldsPast, Embeddings!Query, Embeddings!tables, Embeddings!content
<1>1. CASE Embeddings!UpToDate(embedding, sync[p].document)
    BY <1>0, <1>1, EmbSettleStep DEF Embeddings!Query, Embeddings!UpToDate, Embeddings!End, Embeddings!Settle
<1>2. CASE ~Embeddings!UpToDate(embedding, sync[p].document)
    BY <1>0, <1>2, EmbGoStep DEF Embeddings!Query
<1> QED
    BY <1>1, <1>2

\* To end for want of a vector, or by a crash.
LEMMA EmbGiveUpStep ==
    ASSUME EmbInv, UNCHANGED fits, NEW p \in Syncs, sync' = [sync EXCEPT ![p] = Embeddings!Idle],
           calm' = FALSE, missed' \in BOOLEAN,
           ~missed' => ~missed /\ (fits => \A c \in Embeddings!Centroid(current) : ~Hopeful(p, c)),
           UNCHANGED <<title, current, text, cites, vectors, embedding, edits, past>>
    PROVE  EmbInv'
<1>1. /\ sync' = [sync EXCEPT ![p] = sync'[p]] /\ sync'[p] \in Sync
      /\ sync'[p].step = "idle" /\ sync'[p].document = None
    BY EmbTypes, EmbIdle
<1>2. HoldsPast(p)'
    BY <1>1 DEF HoldsPast
<1>3. \A q \in Syncs : q # p => sync'[q] = sync[q]
    BY EmbTypes
<1>4. Embeddings!Centroid(current)' = Embeddings!Centroid(current)
    BY DEF Embeddings!Centroid
<1>5. CalmHeld' /\ CalmFollowed'
    BY DEF CalmHeld, CalmFollowed
<1>6. ASSUME NEW c \in Embeddings!Centroid(current), NEW q \in Syncs, Hopeful(q, c), fits, ~missed'
      PROVE  Hopeful(q, c)'
    BY <1>3, <1>6 DEF Hopeful
<1>7. Hope'
    BY <1>4, <1>6 DEF EmbInv, Hope
<1> QED
    BY <1>1, <1>2, <1>5, <1>7, EmbTypes, EmbSyncStep

LEMMA EmbGenerateStep ==
    ASSUME EmbInv, UNCHANGED fits, NEW p \in Syncs, Embeddings!Generate(p)
    PROVE  EmbInv'
<1>0. /\ sync[p].step = "generate"
      /\ UNCHANGED <<title, current, text, cites, vectors, embedding, edits, past>>
    BY DEF Embeddings!Generate, Embeddings!tables, Embeddings!content
<1>1. CASE Embeddings!Go(p, "write") /\ UNCHANGED <<calm, missed>>
    BY <1>0, <1>1, EmbGoStep
<1>2. CASE /\ ~fits \/ Embeddings!Centroid(sync[p].document.revision) = {}
           /\ Embeddings!End(p) /\ calm' = FALSE /\ UNCHANGED missed
    <2>1. fits => \A c \in Embeddings!Centroid(current) : ~Hopeful(p, c)
        BY <1>0, <1>2 DEF Hopeful
    <2> QED
        BY <1>0, <1>2, <2>1, EmbTypes, EmbGiveUpStep DEF Embeddings!End
<1>3. CASE Embeddings!End(p) /\ calm' = FALSE /\ missed' = TRUE
    BY <1>0, <1>3, EmbGiveUpStep DEF Embeddings!End
<1> QED
    BY <1>1, <1>2, <1>3 DEF Embeddings!Generate

LEMMA EmbCrashStep ==
    ASSUME EmbInv, UNCHANGED fits, NEW p \in Syncs, Embeddings!Crash(p)
    PROVE  EmbInv'
BY EmbGiveUpStep DEF Embeddings!Crash, Embeddings!End, Embeddings!tables, Embeddings!content

\* The document or its sources change, and a synchronisation may begin for it.
LEMMA EmbChange ==
    ASSUME EmbInv, UNCHANGED fits, Embeddings!TypeOK',
           \A q \in Syncs :
               \/ sync'[q] = sync[q]
               \/ /\ sync[q].document = None /\ sync'[q].document = None
                  /\ sync'[q].step \in {"read", "check"}
                  /\ sync'[q].step = "check" => sync'[q].cause # None,
           past \subseteq past', Embeddings!Now' # None => Embeddings!Now' \in past',
           embedding' # None => embedding' \in past',
           calm' => Embeddings!NobodyHoldsAnother(Embeddings!Now'),
           CalmFollowed', Hope'
    PROVE  EmbInv'
<1>1. ASSUME NEW q \in Syncs PROVE HoldsPast(q)'
    <2>1. HoldsPast(q)
        BY DEF EmbInv
    <2>2. CASE sync'[q] = sync[q]
        BY <2>1, <2>2 DEF HoldsPast
    <2>3. CASE sync'[q] # sync[q]
        BY <2>3 DEF HoldsPast
    <2> QED
        BY <2>2, <2>3
<1>2. CalmHeld'
    BY DEF CalmHeld, Embeddings!NobodyHoldsAnother, Embeddings!Holding
<1>3. Embeddings!RowDescribesDocument'
    BY DEF Embeddings!RowDescribesDocument
<1> QED
    BY <1>1, <1>2, <1>3 DEF EmbInv

LEMMA EmbReceive ==
    ASSUME EmbInv, NEW p \in Syncs, sync[p].step = "idle",
           NEW cause \in Embeddings!Revisions \cup Chunks \cup {None}, Embeddings!Receive(p, cause)
    PROVE  /\ sync' \in [Syncs -> Sync] /\ sync[p].document = None
           /\ sync'[p].document = None /\ sync'[p].cause = cause
           /\ sync'[p].step = IF cause = None THEN "read" ELSE "check"
           /\ \A q \in Syncs : q # p => sync'[q] = sync[q]
<1>1. /\ sync \in [Syncs -> Sync] /\ sync[p].document = None
    BY EmbTypes DEF EmbInv, HoldsPast
<1> DEFINE s == [Embeddings!Idle EXCEPT !.step = IF cause = None THEN "read" ELSE "check",
                                        !.cause = cause]
<1>2. s \in Sync /\ s.document = None /\ s.cause = cause /\ s.step = IF cause = None THEN "read" ELSE "check"
    BY DEF Sync, Embeddings!Steps, Embeddings!Idle
<1>3. sync' = [sync EXCEPT ![p] = s]
    BY DEF Embeddings!Receive
<1> HIDE DEF s
<1> QED
    BY <1>1, <1>2, <1>3

\* One who is idle follows nothing: what others do goes on.
LEMMA EmbIdleHopeless ==
    ASSUME EmbInv, NEW p \in Syncs, sync[p].step = "idle"
    PROVE  ~Follows(p) /\ \A c : ~Hopeful(p, c)
BY DEF EmbInv, HoldsPast, Follows, Hopeful, Embeddings!Holding

LEMMA EmbEdit ==
    ASSUME EmbInv, Embeddings!Edit
    PROVE  edits' \in 0..MaxEdits
BY EmbTypes, EmbNumbers DEF Embeddings!Edit

LEMMA EmbNowNext ==
    ASSUME title' \in Titles, current' \in Embeddings!Revisions, text'[current'] \in Texts
    PROVE  /\ Embeddings!Now' \in Embeddings!Snapshot /\ Embeddings!Now' # None
           /\ Embeddings!Now' = [title |-> title', revision |-> current', text |-> text'[current']]
BY EmbNumbers DEF Embeddings!Now, Embeddings!Snapshot

LEMMA EmbSaveDocumentStep ==
    ASSUME EmbInv, UNCHANGED fits, NEW p \in Syncs, Embeddings!SaveDocument(p)
    PROVE  EmbInv'
<1>0. PICK fields \in SUBSET {"current_revision", "title", "status"}, t \in Titles, r \in Embeddings!Revisions :
        /\ sync[p].step = "idle" /\ Embeddings!Edit
        /\ "current_revision" \in fields => Embeddings!Written(r)
        /\ title' = IF "title" \in fields THEN t ELSE title
        /\ current' = IF "current_revision" \in fields THEN r ELSE current
        /\ IF current' # None /\ fields \cap Embeddings!TrackedFields # {}
           THEN Embeddings!Receive(p, None)
           ELSE UNCHANGED sync
        /\ UNCHANGED <<text, cites, vectors, embedding>>
        /\ Embeddings!Follow
    BY DEF Embeddings!SaveDocument
<1>1. /\ title' \in Titles /\ current' \in Embeddings!Revisions \cup {None}
      /\ current' # None => text'[current'] \in Texts
    BY <1>0, EmbTypes DEF Embeddings!Written
<1>2. /\ sync' \in [Syncs -> Sync]
      /\ sync[p].document = None
      /\ \A q \in Syncs : q # p => sync'[q] = sync[q]
      /\ \/ sync'[p] = sync[p] /\ (current' = None \/ (Embeddings!Now' = Embeddings!Now /\ current' = current))
         \/ sync'[p].step = "read" /\ sync'[p].document = None
    <2>1. CASE current' # None /\ fields \cap Embeddings!TrackedFields # {}
        BY <1>0, <2>1, EmbReceive
    <2>0. sync \in [Syncs -> Sync] /\ sync[p].document = None
        BY <1>0, EmbTypes DEF EmbInv, HoldsPast
    <2>2. CASE current' = None
        <3>1. sync' = sync
            BY <1>0, <2>2
        <3> QED
            BY <2>0, <2>2, <3>1
    <2>3. CASE fields \cap Embeddings!TrackedFields = {}
        <3>1. current' = current /\ title' = title
            BY <1>0, <2>3 DEF Embeddings!TrackedFields
        <3>2. Embeddings!Now' = Embeddings!Now
            BY <1>0, <3>1 DEF Embeddings!Now
        <3>3. sync' = sync
            BY <1>0, <2>3
        <3> QED
            BY <2>0, <3>1, <3>2, <3>3
    <2> QED
        BY <2>1, <2>2, <2>3
<1>3. ~Follows(p) /\ \A c : ~Hopeful(p, c)
    BY <1>0, EmbIdleHopeless
<1>4. /\ past' = past \cup ({Embeddings!Now'} \ {None})
      /\ calm' = (calm /\ Embeddings!NobodyHoldsAnother(Embeddings!Now'))
      /\ missed' = missed
    BY <1>0 DEF Embeddings!Follow
<1>5. Embeddings!Now' # None => current' # None /\ Embeddings!Now' \in Embeddings!Snapshot
    BY <1>1, EmbNowNext DEF Embeddings!Now
<1>6. calm' \in BOOLEAN
    BY <1>4
<1>7. Embeddings!TypeOK'
    BY <1>0, <1>1, <1>2, <1>4, <1>5, <1>6, EmbTypes, EmbEdit, EmbNumbers
    DEF Embeddings!TypeOK, Embeddings!Row, Sync, Embeddings!Written
<1>8. CalmFollowed'
    BY <1>0, <1>2, <1>3, <1>4, <1>5 DEF EmbInv, CalmFollowed, Follows, Embeddings!Holding
<1>9. Hope'
    BY <1>0, <1>2, <1>3, <1>4 DEF EmbInv, Hope, Hopeful, Embeddings!Centroid
<1> QED
    BY <1>0, <1>2, <1>4, <1>7, <1>8, <1>9, EmbChange DEF EmbInv, Embeddings!RowDescribesDocument

LEMMA EmbSaveRevisionStep ==
    ASSUME EmbInv, UNCHANGED fits, NEW p \in Syncs, Embeddings!SaveRevision(p)
    PROVE  EmbInv'
<1>0. PICK r \in Embeddings!Revisions, x \in Texts :
        /\ sync[p].step = "idle" /\ Embeddings!Edit
        /\ text' = [text EXCEPT ![r] = x]
        /\ Embeddings!Receive(p, r)
        /\ UNCHANGED <<title, current, cites, vectors, embedding>>
        /\ Embeddings!Follow
    BY DEF Embeddings!SaveRevision
<1>1. /\ text' \in [Embeddings!Revisions -> Texts \cup {None}]
      /\ current' # None => text'[current'] \in Texts
    BY <1>0, EmbTypes
<1>2. /\ sync' \in [Syncs -> Sync] /\ sync[p].document = None
      /\ sync'[p].document = None /\ sync'[p].cause = r /\ sync'[p].cause # None
      /\ sync'[p].step = "check"
      /\ \A q \in Syncs : q # p => sync'[q] = sync[q]
    BY <1>0, EmbReceive, EmbNumbers
<1>3. ~Follows(p) /\ \A c : ~Hopeful(p, c)
    BY <1>0, EmbIdleHopeless
<1>4. /\ past' = past \cup ({Embeddings!Now'} \ {None})
      /\ calm' = (calm /\ Embeddings!NobodyHoldsAnother(Embeddings!Now'))
      /\ missed' = missed
    BY <1>0 DEF Embeddings!Follow
<1>5. Embeddings!Now' # None => current' # None /\ Embeddings!Now' \in Embeddings!Snapshot
    BY <1>0, <1>1, EmbTypes, EmbNowNext DEF Embeddings!Now
<1>6. calm' \in BOOLEAN
    BY <1>4
<1>7. Embeddings!TypeOK'
    BY <1>0, <1>1, <1>2, <1>4, <1>5, <1>6, EmbTypes, EmbEdit, EmbNumbers
    DEF Embeddings!TypeOK, Embeddings!Row, Sync, Embeddings!Written
<1>8. CalmFollowed'
    <2>1. CASE r = current
        BY <1>0, <1>2, <2>1 DEF CalmFollowed, Follows
    <2>2. CASE r # current
        <3>1. Embeddings!Now' = Embeddings!Now
            BY <1>0, <2>2, EmbTypes DEF Embeddings!Now
        <3> QED
            BY <1>0, <1>2, <1>3, <1>4, <3>1 DEF EmbInv, CalmFollowed, Follows, Embeddings!Holding
    <2> QED
        BY <2>1, <2>2
<1>9. Hope'
    BY <1>0, <1>2, <1>3, <1>4 DEF EmbInv, Hope, Hopeful, Embeddings!Centroid
<1> QED
    BY <1>0, <1>2, <1>4, <1>7, <1>8, <1>9, EmbChange DEF EmbInv, Embeddings!RowDescribesDocument

\* The sources change, and the document is as it was.
LEMMA EmbSourceStep ==
    ASSUME EmbInv, UNCHANGED fits, NEW p \in Syncs, sync[p].step = "idle", Embeddings!Edit,
           NEW cause \in Embeddings!Revisions \cup Chunks, Embeddings!Receive(p, cause),
           cites' \in [Embeddings!Revisions -> SUBSET Chunks], vectors' \subseteq Chunks,
           UNCHANGED <<title, current, text, embedding, past, calm, missed>>,
           current # None => \/ Embeddings!Centroid(current)' \subseteq Embeddings!Centroid(current) \cup {cause}
                             \/ cause = current
    PROVE  EmbInv'
<1>2. /\ sync' \in [Syncs -> Sync] /\ sync[p].document = None
      /\ sync'[p].document = None /\ sync'[p].cause = cause /\ cause # None
      /\ sync'[p].step = "check"
      /\ \A q \in Syncs : q # p => sync'[q] = sync[q]
    BY EmbReceive, EmbNumbers
<1>3. ~Follows(p) /\ \A c : ~Hopeful(p, c)
    BY EmbIdleHopeless
<1>4. Embeddings!Now' = Embeddings!Now
    BY DEF Embeddings!Now
<1>7. Embeddings!TypeOK'
    BY <1>2, EmbTypes, EmbEdit DEF EmbInv, Embeddings!TypeOK, Embeddings!Row, Sync, Embeddings!Written
<1>8. CalmFollowed'
    BY <1>2, <1>3, <1>4 DEF EmbInv, CalmFollowed, Follows, Embeddings!Holding
<1>9. Hope'
    <2> SUFFICES ASSUME fits, ~missed, current # None, embedding = None, NEW c \in Embeddings!Centroid(current)'
                 PROVE  \E q \in Syncs : Hopeful(q, c)'
        BY DEF Hope
    <2>1. CASE cause \in {current, c}
        BY <1>2, <2>1 DEF Hopeful
    <2>2. CASE c \in Embeddings!Centroid(current)
        <3>1. PICK q \in Syncs : Hopeful(q, c)
            BY <2>2 DEF EmbInv, Hope
        <3> QED
            BY <1>2, <1>3, <3>1 DEF Hopeful
    <2> QED
        BY <2>1, <2>2
<1>10. calm => Embeddings!NobodyHoldsAnother(Embeddings!Now)
    BY DEF EmbInv, CalmHeld
<1> QED
    BY <1>2, <1>4, <1>7, <1>8, <1>9, <1>10, EmbChange DEF EmbInv, Embeddings!RowDescribesDocument

LEMMA EmbSaveSourceStep ==
    ASSUME EmbInv, UNCHANGED fits, NEW p \in Syncs, Embeddings!SaveSource(p)
    PROVE  EmbInv'
<1>1. PICK r \in Embeddings!Revisions, c \in Chunks, new \in SUBSET Chunks :
        /\ sync[p].step = "idle" /\ Embeddings!Edit
        /\ cites' = [cites EXCEPT ![r] = new]
        /\ Embeddings!Receive(p, r)
        /\ UNCHANGED <<title, current, text, vectors, embedding, past, calm, missed>>
    <2>1. \A r \in Embeddings!Revisions, c \in Chunks : cites[r] \cup {c} \in SUBSET Chunks /\ cites[r] \ {c} \in SUBSET Chunks
        BY EmbTypes
    <2> QED
        BY <2>1 DEF Embeddings!SaveSource, Embeddings!content, Embeddings!history
<1>2. cites' \in [Embeddings!Revisions -> SUBSET Chunks]
    BY <1>1, EmbTypes
<1>3. r # current => Embeddings!Centroid(current)' = Embeddings!Centroid(current)
    BY <1>1, EmbTypes, EmbNumbers DEF Embeddings!Centroid
<1> QED
    BY <1>1, <1>2, <1>3, EmbTypes, EmbSourceStep

LEMMA EmbSaveVectorStep ==
    ASSUME EmbInv, UNCHANGED fits, NEW p \in Syncs, Embeddings!SaveVector(p)
    PROVE  EmbInv'
<1>1. PICK c \in Chunks :
        /\ sync[p].step = "idle" /\ Embeddings!Edit
        /\ vectors' \in {vectors \cup {c}, vectors \ {c}}
        /\ Embeddings!Receive(p, c)
        /\ UNCHANGED <<title, current, text, cites, embedding, past, calm, missed>>
    BY DEF Embeddings!SaveVector, Embeddings!content, Embeddings!history
<1>2. vectors' \subseteq Chunks /\ Embeddings!Centroid(current)' \subseteq Embeddings!Centroid(current) \cup {c}
    BY <1>1, EmbTypes DEF Embeddings!Centroid
<1> QED
    BY <1>1, <1>2, EmbTypes, EmbSourceStep

LEMMA EmbDeleteSourceStep ==
    ASSUME EmbInv, UNCHANGED fits, Embeddings!DeleteSource
    PROVE  EmbInv'
<1>1. PICK gone \in SUBSET Chunks :
        /\ Embeddings!Edit
        /\ cites' = [r \in Embeddings!Revisions |-> cites[r] \ gone]
        /\ vectors' = vectors \ gone
        /\ UNCHANGED <<title, current, text, embedding, sync, past, calm, missed>>
    BY DEF Embeddings!DeleteSource, Embeddings!content, Embeddings!history
<1>2. cites' \in [Embeddings!Revisions -> SUBSET Chunks] /\ vectors' \subseteq Chunks
    BY <1>1, EmbTypes
<1>3. current # None => Embeddings!Centroid(current)' \subseteq Embeddings!Centroid(current)
    BY <1>1, EmbTypes DEF Embeddings!Centroid
<1>4. Embeddings!Now' = Embeddings!Now
    BY <1>1 DEF Embeddings!Now
<1>7. Embeddings!TypeOK'
    BY <1>1, <1>2, EmbTypes, EmbEdit DEF EmbInv, Embeddings!TypeOK, Embeddings!Row, Sync, Embeddings!Written
<1>8. CalmFollowed'
    BY <1>1, <1>4 DEF EmbInv, CalmFollowed, Follows, Embeddings!Holding
<1>9. Hope'
    BY <1>1, <1>3 DEF EmbInv, Hope, Hopeful
<1>10. calm => Embeddings!NobodyHoldsAnother(Embeddings!Now)
    BY DEF EmbInv, CalmHeld
<1> QED
    BY <1>1, <1>4, <1>7, <1>8, <1>9, <1>10, EmbChange DEF EmbInv, Embeddings!RowDescribesDocument

LEMMA EmbPipelineStep ==
    ASSUME EmbInv, UNCHANGED fits, Embeddings!Pipeline
    PROVE  EmbInv'
<1>1. PICK t \in Titles, x \in Texts, cited \in SUBSET Chunks :
        /\ Embeddings!Edit
        /\ title' = t /\ current' = 2
        /\ text' = [text EXCEPT ![2] = x] /\ cites' = [cites EXCEPT ![2] = cited]
        /\ vectors' = vectors \cup cited
        /\ past' = past \cup {Embeddings!Now'} /\ calm' = FALSE /\ missed' = TRUE
        /\ UNCHANGED <<embedding, sync>>
    BY DEF Embeddings!Pipeline
<1>2. /\ title' \in Titles /\ current' \in Embeddings!Revisions /\ text'[current'] \in Texts
      /\ text' \in [Embeddings!Revisions -> Texts \cup {None}]
      /\ cites' \in [Embeddings!Revisions -> SUBSET Chunks] /\ vectors' \subseteq Chunks
    BY <1>1, EmbTypes, EmbNumbers
<1>3. Embeddings!Now' \in Embeddings!Snapshot
    BY <1>2, EmbNowNext
<1>7. Embeddings!TypeOK'
    BY <1>1, <1>2, <1>3, EmbTypes, EmbEdit, EmbNumbers
    DEF EmbInv, Embeddings!TypeOK, Embeddings!Row, Sync, Embeddings!Written
<1>8. CalmFollowed' /\ Hope'
    BY <1>1 DEF CalmFollowed, Hope
<1> QED
    BY <1>1, <1>7, <1>8, EmbChange DEF EmbInv, Embeddings!RowDescribesDocument

\* The stages of a seed: each is a snapshot, and the last is the seeded document, with
\* all chunks.
LEMMA EmbStages ==
    ASSUME EmbInv, NEW known \in SUBSET Chunks, NEW mock \in BOOLEAN
    PROVE  LET stages == Embeddings!Stages(known, mock)
               seeded == [title |-> SeedTitle, revision |-> 1, text |-> SeedText]
               Stage == [document : Embeddings!Snapshot, fallback : BOOLEAN]
           IN /\ stages \in Seq(Stage) /\ Len(stages) \in Nat /\ Len(stages) > 0
              /\ stages[Len(stages)] = [document |-> seeded, fallback |-> Chunks \cap known # {}]
<1> DEFINE Stage(document, sources) == [document |-> document, fallback |-> sources \cap known # {}]
           S == [document : Embeddings!Snapshot, fallback : BOOLEAN]
           retitled == [Embeddings!Now EXCEPT !.title = SeedTitle]
           rewritten == [retitled EXCEPT !.text = SeedText]
           seeded == [title |-> SeedTitle, revision |-> 1, text |-> SeedText]
           a == IF mock /\ Embeddings!Now # None /\ cites[current] # {} THEN <<Stage(Embeddings!Now, cites[current])>> ELSE <<>>
           b == IF Embeddings!Now # None THEN <<Stage(retitled, cites[current])>> ELSE <<>>
           c == IF current = 1 THEN <<Stage(rewritten, cites[1])>> ELSE <<>>
           d == <<Stage(seeded, cites[1]), Stage(seeded, Chunks)>>
<1>1. Embeddings!Stages(known, mock) = a \o b \o c \o d
    BY Zenon DEF Embeddings!Stages
<1>2. seeded \in Embeddings!Snapshot
    BY EmbNumbers DEF Embeddings!Snapshot
<1>3. Embeddings!Now # None => Embeddings!Now \in Embeddings!Snapshot /\ retitled \in Embeddings!Snapshot
    BY EmbNow, EmbNumbers DEF Embeddings!Snapshot
<1>4. current = 1 => rewritten \in Embeddings!Snapshot
    BY EmbNow, EmbNumbers DEF Embeddings!Snapshot
<1> HIDE DEF retitled, rewritten, seeded
<1>5. \A document \in Embeddings!Snapshot : \A sources : Stage(document, sources) \in S
    OBVIOUS
<1> HIDE DEF S
<1>6. a \in Seq(S) /\ b \in Seq(S) /\ c \in Seq(S)
    <2>1. <<>> \in Seq(S) /\ \A x \in S : <<x>> \in Seq(S)
        OBVIOUS
    <2>2. a \in Seq(S)
        BY <1>3, <1>5, <2>1
    <2>3. b \in Seq(S)
        BY <1>3, <1>5, <2>1
    <2>4. c \in Seq(S)
        BY <1>4, <1>5, <2>1
    <2> QED
        BY <2>2, <2>3, <2>4
<1>7. d \in Seq(S) /\ Len(d) = 2 /\ d[2] = Stage(seeded, Chunks)
    BY <1>2, <1>5
<1> HIDE DEF Stage, a, b, c, d
<1> DEFINE e == a \o b \o c
<1>8. e \in Seq(S) /\ Len(e) \in Nat
    BY <1>6
<1> HIDE DEF e
<1>9. /\ e \o d \in Seq(S) /\ Len(e \o d) = Len(e) + 2
      /\ (e \o d)[Len(e) + 2] = d[2]
    <2>1. /\ e \o d \in Seq(S) /\ Len(e \o d) = Len(e) + 2
          /\ \A i \in 1..Len(e) + 2 : (e \o d)[i] = IF i <= Len(e) THEN e[i] ELSE d[i - Len(e)]
        <3>1. /\ e \o d \in Seq(S) /\ Len(e \o d) = Len(e) + Len(d)
              /\ \A i \in 1..Len(e) + Len(d) : (e \o d)[i] = IF i <= Len(e) THEN e[i] ELSE d[i - Len(e)]
            BY <1>7, <1>8, ConcatProperties, Zenon
        <3> QED
            BY <1>7, <3>1
    <2>2. Len(e) + 2 \in 1..Len(e) + 2 /\ ~(Len(e) + 2 <= Len(e)) /\ (Len(e) + 2) - Len(e) = 2
        BY <1>8
    <2> QED
        BY <2>1, <2>2
<1>10. Embeddings!Stages(known, mock) = e \o d
    BY <1>1 DEF e
<1> QED
    BY <1>7, <1>8, <1>9, <1>10 DEF S, Stage, seeded

LEMMA EmbSeedStep ==
    ASSUME EmbInv, UNCHANGED fits, Embeddings!Seed
    PROVE  EmbInv'
<1>0. PICK mock \in BOOLEAN :
        LET known == IF mock THEN vectors \cup Chunks ELSE vectors
            stages == Embeddings!Stages(known, mock)
        IN \E last \in 0..Len(stages) :
            /\ Embeddings!Edit
            /\ ~fits => last = 0
            /\ missed' = (missed \/ (fits /\ \E i \in last + 1..Len(stages) : stages[i].fallback))
            /\ title' = SeedTitle /\ current' = 1
            /\ text' = [text EXCEPT ![1] = SeedText]
            /\ cites' = [cites EXCEPT ![1] = @ \cup Chunks]
            /\ vectors' = known
            /\ embedding' = IF last = 0 THEN embedding ELSE stages[last].document
            /\ past' = past \cup {Embeddings!Now'} \cup {stage.document : stage \in Embeddings!ToSet(stages)}
            /\ calm' = ((last = Len(stages) \/ Embeddings!UpToDate(embedding', Embeddings!Now'))
                        /\ Embeddings!NobodyHoldsAnother(Embeddings!Now'))
            /\ UNCHANGED sync
    BY DEF Embeddings!Seed
<1> DEFINE known == IF mock THEN vectors \cup Chunks ELSE vectors
           stages == Embeddings!Stages(known, mock)
           seeded == [title |-> SeedTitle, revision |-> 1, text |-> SeedText]
           S == [document : Embeddings!Snapshot, fallback : BOOLEAN]
<1>1. known \in SUBSET Chunks
    BY EmbTypes
<1>2. /\ stages \in Seq(S) /\ Len(stages) \in Nat /\ Len(stages) > 0
      /\ stages[Len(stages)] = [document |-> seeded, fallback |-> Chunks \cap known # {}]
    BY <1>1, EmbStages, Zenon
<1>3. PICK last \in 0..Len(stages) :
        /\ Embeddings!Edit
        /\ ~fits => last = 0
        /\ missed' = (missed \/ (fits /\ \E i \in last + 1..Len(stages) : stages[i].fallback))
        /\ title' = SeedTitle /\ current' = 1
        /\ text' = [text EXCEPT ![1] = SeedText]
        /\ cites' = [cites EXCEPT ![1] = @ \cup Chunks]
        /\ vectors' = known
        /\ embedding' = IF last = 0 THEN embedding ELSE stages[last].document
        /\ past' = past \cup {Embeddings!Now'} \cup {stage.document : stage \in Embeddings!ToSet(stages)}
        /\ calm' = ((last = Len(stages) \/ Embeddings!UpToDate(embedding', Embeddings!Now'))
                    /\ Embeddings!NobodyHoldsAnother(Embeddings!Now'))
        /\ UNCHANGED sync
    BY <1>0, Zenon
<1> HIDE DEF known, stages, S
<1>A. DOMAIN stages = 1..Len(stages) /\ \A i \in 1..Len(stages) : stages[i] \in S
    BY <1>2, LenProperties, ElementOfSeq, Zenon
<1>B. \A i \in 1..Len(stages) : stages[i].document \in Embeddings!Snapshot
    BY <1>A DEF S
<1>4. last \in Nat /\ (last # 0 => last \in 1..Len(stages))
    BY <1>2
<1>5. \A i \in 1..Len(stages) : stages[i] \in S /\ stages[i] \in Embeddings!ToSet(stages)
    BY <1>A, Zenon DEF Embeddings!ToSet
<1>6. \A stage \in Embeddings!ToSet(stages) : stage.document \in Embeddings!Snapshot
    BY <1>A, <1>B, Zenon DEF Embeddings!ToSet
<1>7. /\ text' \in [Embeddings!Revisions -> Texts \cup {None}] /\ text'[1] = SeedText
      /\ cites' \in [Embeddings!Revisions -> SUBSET Chunks] /\ vectors' \subseteq Chunks
      /\ title' \in Titles /\ current' \in Embeddings!Revisions /\ text'[current'] \in Texts
    BY <1>1, <1>3, EmbTypes, EmbNumbers
<1>8. Embeddings!Now' = seeded /\ Embeddings!Now' \in Embeddings!Snapshot
    BY <1>3, <1>7, EmbNowNext
<1>9. /\ past \subseteq past' /\ Embeddings!Now' \in past' /\ past' \subseteq Embeddings!Snapshot
      /\ last # 0 => embedding' \in past'
    <2>1. past' \subseteq Embeddings!Snapshot
        BY <1>3, <1>6, <1>8, EmbTypes
    <2>2. last # 0 => stages[last].document \in {stage.document : stage \in Embeddings!ToSet(stages)}
        BY <1>4, <1>5
    <2>3. last # 0 => embedding' = stages[last].document
        BY <1>3
    <2> QED
        BY <1>3, <2>1, <2>2, <2>3
<1>10. last = Len(stages) => embedding' = Embeddings!Now'
    BY <1>2, <1>3, <1>8
<1>11. last = 0 /\ fits /\ ~missed' => vectors' = {}
    <2>1. last = 0 /\ fits /\ ~missed' => ~stages[Len(stages)].fallback
        BY <1>2, <1>3
    <2>2. ~stages[Len(stages)].fallback => Chunks \cap known = {}
        <3> DEFINE f == Chunks \cap known # {}
        <3> HIDE DEF f
        <3>1. [document |-> seeded, fallback |-> f].fallback = f
            OBVIOUS
        <3>2. stages[Len(stages)].fallback = f
            BY <1>2, <3>1 DEF f
        <3> QED
            BY <3>2, Zenon DEF f
    <2> QED
        BY <1>1, <1>3, <2>1, <2>2
<1>12. embedding' # None => embedding' \in past'
    <2>1. last = 0 => embedding' = embedding
        BY <1>3
    <2> QED
        BY <1>9, <2>1 DEF EmbInv, Embeddings!RowDescribesDocument
<1>13. embedding' \in Embeddings!Snapshot \cup {None} /\ calm' \in BOOLEAN
    BY <1>3, <1>9, <1>12, EmbTypes
<1>14. Embeddings!TypeOK'
    BY <1>3, <1>7, <1>9, <1>13, EmbTypes, EmbEdit, EmbNumbers
    DEF Embeddings!TypeOK, Embeddings!Row, Sync, Embeddings!Written
<1>15. CalmFollowed'
    BY <1>3, <1>10 DEF CalmFollowed, Embeddings!UpToDate
<1>16. Hope'
    <2>1. CASE last = 0
        BY <1>11, <2>1 DEF Hope, Embeddings!Centroid
    <2>2. CASE last # 0
        <3>1. embedding' # None
            BY <1>9, <2>2, EmbNumbers
        <3> QED
            BY <3>1 DEF Hope
    <2> QED
        BY <2>1, <2>2
<1>17. calm' => Embeddings!NobodyHoldsAnother(Embeddings!Now')
    BY <1>3
<1>18. sync' = sync
    BY <1>3
<1> QED
    BY <1>9, <1>12, <1>14, <1>15, <1>16, <1>17, <1>18, EmbChange

LEMMA EmbStep == EmbInv /\ [Embeddings!Next]_(Embeddings!vars) => EmbInv'
<1> SUFFICES ASSUME EmbInv, [Embeddings!Next]_(Embeddings!vars) PROVE EmbInv'
    OBVIOUS
<1>1. CASE UNCHANGED Embeddings!vars
    BY <1>1 DEF Embeddings!vars, Embeddings!tables, Embeddings!content, Embeddings!history, EmbInv,
       Embeddings!TypeOK, Embeddings!Written, Embeddings!Now, Embeddings!RowDescribesDocument, HoldsPast,
       CalmHeld, CalmFollowed, Hope, Embeddings!NobodyHoldsAnother, Embeddings!Holding, Follows, Hopeful,
       Embeddings!Centroid
<1> QED
    BY <1>1, EmbSaveDocumentStep, EmbSaveRevisionStep, EmbSaveSourceStep, EmbSaveVectorStep,
       EmbBackfillStep, EmbCheckStep, EmbReadStep, EmbQueryStep, EmbGenerateStep, EmbWriteStep,
       EmbCrashStep, EmbPipelineStep, EmbDeleteSourceStep, EmbSeedStep
       DEF Embeddings!Next

LEMMA EmbHolds == EmbInv => /\ Embeddings!RowDescribesDocument
                            /\ Embeddings!CurrentWhenCalm /\ Embeddings!EmbeddedWhenPossible
<1> SUFFICES ASSUME EmbInv
             PROVE  Embeddings!CurrentWhenCalm /\ Embeddings!EmbeddedWhenPossible
    BY DEF EmbInv
<1>1. ASSUME NEW p \in Syncs, sync[p].step = "idle"
      PROVE  ~Follows(p) /\ \A c : ~Hopeful(p, c)
    BY <1>1, EmbIdleHopeless
<1>2. Embeddings!CurrentWhenCalm
    BY <1>1 DEF EmbInv, CalmFollowed, Embeddings!CurrentWhenCalm
<1>3. Embeddings!EmbeddedWhenPossible
    BY <1>1 DEF EmbInv, Hope, Embeddings!EmbeddedWhenPossible
<1> QED
    BY <1>2, <1>3

-----------------------------------------------------------------------------
(* The pages of wiki documents                                             *)

\* A request for a page has a revision with a text.
HasRevision(q) == q.step \in {"look", "fill", "shown"} =>
    q.revision # None /\ q.page # None /\ Wiki!Written(q.revision)

\* What is not the revision as it is was not changed long ago: what a request has read, what
\* is in the cache, what is shown from it.
ReadLately(q) == q.step \in {"look", "fill"} =>
    q.page = Wiki!PageOf(q.revision) \/ edited[q.revision] <= q.age
KeptLately(r) == render[r] # None =>
    /\ Wiki!Written(r)
    /\ render[r].page = Wiki!PageOf(r) \/ edited[r] + render[r].left <= Timeout + MaxDelay
ShownLately(q) == q.step = "shown" =>
    q.page = Wiki!PageOf(q.revision) \/ edited[q.revision] < Timeout + MaxDelay + q.age

RequestFits(q) == HasRevision(q) /\ ReadLately(q) /\ ShownLately(q)

WikiInv ==
    /\ Wiki!TypeOK
    /\ current # None => Wiki!Written(current)
    /\ \A q \in Requests : RequestFits(request[q])
    /\ \A r \in Wiki!Revisions : KeptLately(r)

LEMMA WikiNumbers ==
    /\ SeedTitle \in Titles /\ SeedText \in Texts
    /\ Timeout \in Nat /\ Timeout > 0 /\ MaxDelay \in Nat
    /\ Wiki!Horizon \in Nat /\ Wiki!Horizon = Timeout + 2 * MaxDelay
    /\ None \notin Titles /\ None \notin Texts /\ None \notin Wiki!Revisions
    /\ None \notin Wiki!Page /\ None \notin Wiki!Rendered
    /\ 1 \in Wiki!Revisions
BY PartsAssumption DEF Wiki!PagesAssumption, Wiki!Horizon, Wiki!Revisions

LEMMA WikiIdle ==
    /\ Wiki!Idle \in Wiki!Request /\ Wiki!Idle.step = "idle" /\ Wiki!Idle.age = 0
    /\ RequestFits(Wiki!Idle)
BY WikiNumbers DEF Wiki!Idle, Wiki!Request, RequestFits, HasRevision, ReadLately, ShownLately

LEMMA WikiParts ==
    ASSUME WikiInv, NEW q \in Requests
    PROVE  /\ request[q] \in Wiki!Request /\ RequestFits(request[q])
           /\ request[q].age \in 0..MaxDelay
           /\ request[q].revision \in Wiki!Revisions \cup {None}
           /\ request[q].page \in Wiki!Page \cup {None}
           /\ request[q].step \in {"look", "fill", "shown"} =>
                 /\ request[q].revision \in Wiki!Revisions /\ request[q].page \in Wiki!Page
                 /\ Wiki!Written(request[q].revision)
BY WikiNumbers DEF WikiInv, Wiki!TypeOK, Wiki!Request, RequestFits, HasRevision

LEMMA WikiPageType ==
    ASSUME WikiInv, NEW r \in Wiki!Revisions, Wiki!Written(r)
    PROVE  Wiki!PageOf(r) \in Wiki!Page
BY DEF WikiInv, Wiki!TypeOK, Wiki!Written, Wiki!PageOf, Wiki!Page

LEMMA WikiInit == Wiki!Init => WikiInv
<1> SUFFICES ASSUME Wiki!Init PROVE WikiInv
    OBVIOUS
<1>1. Wiki!TypeOK
    BY WikiNumbers, WikiIdle DEF Wiki!Init, Wiki!TypeOK, Wiki!Statuses
<1> QED
    BY <1>1, WikiIdle DEF Wiki!Init, WikiInv, KeptLately

\* A request of which the documents know nothing.
LEMMA WikiRequestStep ==
    ASSUME WikiInv, NEW q \in Requests, UNCHANGED <<Wiki!document, render, edited>>,
           request' = [request EXCEPT ![q] = request'[q]],
           request'[q] \in Wiki!Request, RequestFits(request'[q])
    PROVE  WikiInv'
<1>1. Wiki!TypeOK'
    BY DEF WikiInv, Wiki!TypeOK, Wiki!document
<1>2. \A p \in Requests : RequestFits(request'[p])
    BY DEF WikiInv, Wiki!TypeOK
<1>3. \A p \in Requests : RequestFits(request[p])'
    BY <1>2 DEF RequestFits, HasRevision, ReadLately, ShownLately, Wiki!Written, Wiki!PageOf, Wiki!document
<1> QED
    BY <1>1, <1>3 DEF WikiInv, KeptLately, Wiki!Written, Wiki!PageOf, Wiki!document

LEMMA WikiOpenStep ==
    ASSUME WikiInv, NEW q \in Requests, Wiki!Open(q) \/ Wiki!ActRead(q)
    PROVE  WikiInv'
<1>0. WikiInv /\ request \in [Requests -> Wiki!Request]
    BY DEF WikiInv, Wiki!TypeOK
<1>1. CASE Wiki!Open(q)
    <2>1. /\ current \in Wiki!Revisions /\ Wiki!Written(current)
          /\ request' = [request EXCEPT ![q] = request'[q]]
        BY <1>1 DEF Wiki!Open, WikiInv, Wiki!TypeOK
    <2>2. request'[q] = [step |-> "look", revision |-> current, page |-> Wiki!PageOf(current),
                         status |-> None, age |-> 0]
        BY <1>0, <1>1 DEF Wiki!Open, Wiki!Idle
    <2>3. Wiki!PageOf(current) \in Wiki!Page
        BY <2>1, WikiPageType
    <2>4. request'[q] \in Wiki!Request
        BY <2>1, <2>2, <2>3, WikiNumbers DEF Wiki!Request
    <2>5. RequestFits(request'[q])
        BY <2>1, <2>2, <2>3, WikiNumbers DEF RequestFits, HasRevision, ReadLately, ShownLately
    <2> QED
        BY <1>1, <2>1, <2>4, <2>5, WikiRequestStep DEF Wiki!Open
<1>2. CASE Wiki!ActRead(q)
    <2>1. request' = [request EXCEPT ![q] = request'[q]]
        BY <1>0, <1>2 DEF Wiki!ActRead
    <2>2. request'[q] = [step |-> "act", revision |-> current, page |-> None,
                         status |-> status, age |-> 0]
        BY <1>0, <1>2 DEF Wiki!ActRead, Wiki!Idle
    <2>3. request'[q] \in Wiki!Request
        BY <2>2, WikiNumbers DEF Wiki!Request, WikiInv, Wiki!TypeOK
    <2>4. RequestFits(request'[q])
        BY <2>2 DEF RequestFits, HasRevision, ReadLately, ShownLately
    <2> QED
        BY <1>2, <2>1, <2>3, <2>4, WikiRequestStep DEF Wiki!ActRead
<1> QED
    BY <1>1, <1>2

LEMMA WikiLookStep ==
    ASSUME WikiInv, NEW q \in Requests, Wiki!Look(q)
    PROVE  WikiInv'
<1> DEFINE r == request[q].revision
           cached == render[r]
           new == request'[q]
<1>0. /\ request \in [Requests -> Wiki!Request] /\ request[q] \in Wiki!Request
      /\ request[q].step = "look" /\ r \in Wiki!Revisions /\ request[q].page \in Wiki!Page
      /\ Wiki!Written(r) /\ request[q].age \in 0..MaxDelay
      /\ ReadLately(request[q]) /\ KeptLately(r)
      /\ edited[r] \in 0..Wiki!Horizon /\ cached \in Wiki!Rendered \cup {None}
    BY WikiParts DEF Wiki!Look, WikiInv, Wiki!TypeOK, RequestFits
<1>1. /\ new = [request[q] EXCEPT !.step = IF cached = None THEN "fill" ELSE "shown",
                                  !.page = IF cached = None THEN request[q].page ELSE cached.page]
      /\ request' = [request EXCEPT ![q] = new]
    BY <1>0 DEF Wiki!Look, Wiki!Key
<1>2. CASE cached = None
    <2>1. /\ new \in Wiki!Request /\ new.step = "fill" /\ new.page = request[q].page
          /\ new.revision = r /\ new.age = request[q].age
        BY <1>0, <1>1, <1>2 DEF Wiki!Request
    <2>2. RequestFits(new)
        BY <1>0, <2>1, WikiNumbers DEF RequestFits, HasRevision, ReadLately, ShownLately
    <2> QED
        BY <1>1, <2>1, <2>2, WikiRequestStep DEF Wiki!Look
<1>3. CASE cached # None
    <2>1. cached.page \in Wiki!Page /\ cached.left \in 1..Timeout
        BY <1>0, <1>3 DEF Wiki!Rendered
    <2>2. /\ new \in Wiki!Request /\ new.step = "shown" /\ new.page = cached.page
          /\ new.revision = r /\ new.age = request[q].age
        BY <1>0, <1>1, <1>3, <2>1 DEF Wiki!Request
    <2>3. cached.page = Wiki!PageOf(r) \/ edited[r] < Timeout + MaxDelay + request[q].age
        BY <1>0, <1>3, <2>1, WikiNumbers DEF KeptLately
    <2>4. RequestFits(new)
        BY <1>0, <2>1, <2>2, <2>3, WikiNumbers DEF RequestFits, HasRevision, ReadLately, ShownLately
    <2> QED
        BY <1>1, <2>2, <2>4, WikiRequestStep DEF Wiki!Look
<1> QED
    BY <1>2, <1>3

LEMMA WikiFillStep ==
    ASSUME WikiInv, NEW q \in Requests, Wiki!Fill(q)
    PROVE  WikiInv'
<1> DEFINE r == request[q].revision
           cached == [page |-> request[q].page, left |-> Timeout]
           new == request'[q]
<1>0. /\ request \in [Requests -> Wiki!Request] /\ request[q] \in Wiki!Request
      /\ request[q].step = "fill" /\ r \in Wiki!Revisions /\ request[q].page \in Wiki!Page
      /\ Wiki!Written(r) /\ request[q].age \in 0..MaxDelay
      /\ ReadLately(request[q])
      /\ edited[r] \in 0..Wiki!Horizon
      /\ render \in [Wiki!Revisions -> Wiki!Rendered \cup {None}]
      /\ UNCHANGED <<Wiki!document, edited>>
    BY WikiParts DEF Wiki!Fill, WikiInv, Wiki!TypeOK, RequestFits
<1>1. /\ new = [request[q] EXCEPT !.step = "shown"] /\ request' = [request EXCEPT ![q] = new]
      /\ render' = [render EXCEPT ![r] = cached]
    BY <1>0 DEF Wiki!Fill, Wiki!Key
<1>2. /\ new \in Wiki!Request /\ new.step = "shown" /\ new.page = request[q].page
      /\ new.revision = r /\ new.age = request[q].age
    BY <1>0, <1>1 DEF Wiki!Request
<1>3. RequestFits(new)
    BY <1>0, <1>2, WikiNumbers DEF RequestFits, HasRevision, ReadLately, ShownLately
<1>4. cached \in Wiki!Rendered
    BY <1>0, WikiNumbers DEF Wiki!Rendered
<1>5. Wiki!TypeOK'
    BY <1>0, <1>1, <1>2, <1>4 DEF WikiInv, Wiki!TypeOK, Wiki!document
<1>6. \A p \in Requests : RequestFits(request'[p])
    BY <1>0, <1>1, <1>3 DEF WikiInv
<1>7. \A p \in Requests : RequestFits(request[p])'
    BY <1>0, <1>6 DEF RequestFits, HasRevision, ReadLately,
                      ShownLately, Wiki!Written, Wiki!PageOf, Wiki!document
<1>8. ASSUME NEW s \in Wiki!Revisions PROVE KeptLately(s)'
    <2>1. CASE s = r
        BY <1>0, <1>1, <2>1, WikiNumbers
        DEF KeptLately, ReadLately, Wiki!Written, Wiki!PageOf, Wiki!document
    <2>2. CASE s # r
        <3>1. render'[s] = render[s] /\ KeptLately(s)
            BY <1>0, <1>1, <2>2 DEF WikiInv
        <3> QED
            BY <1>0, <3>1 DEF KeptLately, Wiki!Written, Wiki!PageOf, Wiki!document
    <2> QED
        BY <2>1, <2>2
<1> QED
    BY <1>0, <1>5, <1>7, <1>8 DEF WikiInv, Wiki!Written, Wiki!document

LEMMA WikiEndStep ==
    ASSUME WikiInv, NEW q \in Requests, Wiki!Close(q) \/ Wiki!ActWrite(q)
    PROVE  WikiInv'
<1>0. /\ request \in [Requests -> Wiki!Request]
      /\ request' = [request EXCEPT ![q] = Wiki!Idle]
      /\ UNCHANGED <<title, current, text, render, edited>>
    BY DEF Wiki!Close, Wiki!ActWrite, Wiki!End, WikiInv, Wiki!TypeOK, Wiki!document
<1>1. status' \in Wiki!Statuses
    BY DEF Wiki!Close, Wiki!ActWrite, Wiki!document, Wiki!Statuses, Wiki!Result, Wiki!Actions,
           WikiInv, Wiki!TypeOK
<1>2. Wiki!TypeOK'
    BY <1>0, <1>1, WikiIdle DEF WikiInv, Wiki!TypeOK
<1>3. \A p \in Requests : RequestFits(request'[p])
    BY <1>0, WikiIdle DEF WikiInv
<1>4. \A p \in Requests : RequestFits(request[p])'
    BY <1>0, <1>3 DEF RequestFits, HasRevision, ReadLately, ShownLately, Wiki!Written, Wiki!PageOf
<1> QED
    BY <1>0, <1>2, <1>4 DEF WikiInv, KeptLately, Wiki!Written, Wiki!PageOf

LEMMA WikiSeedStep ==
    ASSUME WikiInv, Wiki!Seed
    PROVE  WikiInv'
<1>0. /\ Wiki!TypeOK /\ title' = SeedTitle /\ current' = 1 /\ status' = "published"
      /\ text' = [text EXCEPT ![1] = SeedText] /\ UNCHANGED <<render, request>>
      /\ edited' = [r \in Wiki!Revisions |->
                       IF title' # title \/ text'[r] # text[r] THEN 0 ELSE edited[r]]
    BY DEF Wiki!Seed, WikiInv
<1>1. Wiki!TypeOK'
    BY <1>0, WikiNumbers DEF Wiki!TypeOK, Wiki!Statuses
<1>2. \A r \in Wiki!Revisions : Wiki!Written(r) => Wiki!Written(r)'
    BY <1>0, WikiNumbers DEF Wiki!Written, Wiki!TypeOK
<1>3. \A r \in Wiki!Revisions : (Wiki!PageOf(r)' = Wiki!PageOf(r) /\ edited'[r] = edited[r]) \/ edited'[r] = 0
    BY <1>0 DEF Wiki!PageOf
<1>4. ASSUME NEW q \in Requests PROVE RequestFits(request[q])'
    <2>1. /\ request[q].age \in Nat /\ RequestFits(request[q])
          /\ request[q].step \in {"look", "fill", "shown"} => request[q].revision \in Wiki!Revisions
        BY WikiParts, WikiNumbers
    <2>2. HasRevision(request[q])'
        BY <1>0, <1>2, <2>1 DEF RequestFits, HasRevision
    <2>3. ReadLately(request[q])'
        BY <1>0, <1>3, <2>1 DEF RequestFits, ReadLately
    <2>4. ShownLately(request[q])'
        BY <1>0, <1>3, <2>1, WikiNumbers DEF RequestFits, ShownLately
    <2> QED
        BY <2>2, <2>3, <2>4 DEF RequestFits
<1>5. ASSUME NEW r \in Wiki!Revisions PROVE KeptLately(r)'
    <2>1. KeptLately(r) /\ (render[r] # None => render[r].left \in 1..Timeout)
        BY <1>0 DEF WikiInv, Wiki!TypeOK, Wiki!Rendered
    <2> QED
        BY <1>0, <1>2, <1>3, <2>1, WikiNumbers DEF KeptLately
<1>6. Wiki!Written(1)'
    BY <1>0, WikiNumbers DEF Wiki!Written, Wiki!TypeOK
<1> QED
    BY <1>0, <1>1, <1>4, <1>5, <1>6 DEF WikiInv, Wiki!Written

\* The pipeline gives a text to a revision nobody has seen.
LEMMA WikiPipelineStep ==
    ASSUME WikiInv, Wiki!Pipeline
    PROVE  WikiInv'
<1>0. Wiki!TypeOK /\ UNCHANGED <<status, title, render, request, edited>>
    BY DEF Wiki!Pipeline, WikiInv
<1>1. /\ current' \in Wiki!Revisions /\ text' \in [Wiki!Revisions -> Texts \cup {None}]
      /\ text'[current'] # None
      /\ \A r \in Wiki!Revisions : Wiki!Written(r) => text'[r] = text[r]
    BY <1>0, WikiNumbers DEF Wiki!Pipeline, Wiki!Written, Wiki!TypeOK
<1>2. Wiki!TypeOK'
    BY <1>0, <1>1 DEF Wiki!TypeOK
<1>3. \A r \in Wiki!Revisions : Wiki!Written(r) => Wiki!Written(r)' /\ Wiki!PageOf(r)' = Wiki!PageOf(r)
    BY <1>0, <1>1 DEF Wiki!Written, Wiki!PageOf
<1>4. ASSUME NEW q \in Requests PROVE RequestFits(request[q])'
    <2>1. /\ RequestFits(request[q])
          /\ request[q].step \in {"look", "fill", "shown"} =>
                request[q].revision \in Wiki!Revisions /\ Wiki!Written(request[q].revision)
        BY WikiParts
    <2> QED
        BY <1>0, <1>3, <2>1 DEF RequestFits, HasRevision, ReadLately, ShownLately
<1>5. ASSUME NEW r \in Wiki!Revisions PROVE KeptLately(r)'
    BY <1>0, <1>3 DEF WikiInv, KeptLately
<1> QED
    BY <1>1, <1>2, <1>4, <1>5 DEF WikiInv, Wiki!Written

LEMMA WikiEvictStep ==
    ASSUME WikiInv, Wiki!Evict
    PROVE  WikiInv'
<1>0. Wiki!TypeOK /\ UNCHANGED <<status, title, current, text, request, edited>>
    BY DEF Wiki!Evict, WikiInv, Wiki!document
<1>1. PICK s \in Wiki!Revisions : render' = [render EXCEPT ![s] = None]
    BY DEF Wiki!Evict
<1>2. Wiki!TypeOK'
    BY <1>0, <1>1 DEF Wiki!TypeOK
<1>3. \A q \in Requests : RequestFits(request[q])'
    BY <1>0 DEF WikiInv, RequestFits, HasRevision, ReadLately, ShownLately, Wiki!Written, Wiki!PageOf
<1>4. ASSUME NEW r \in Wiki!Revisions PROVE KeptLately(r)'
    <2>1. render'[r] \in {None, render[r]} /\ KeptLately(r)
        BY <1>0, <1>1 DEF WikiInv, Wiki!TypeOK
    <2> QED
        BY <1>0, <2>1 DEF KeptLately, Wiki!Written, Wiki!PageOf
<1> QED
    BY <1>0, <1>2, <1>3, <1>4 DEF WikiInv, Wiki!Written

LEMMA WikiTickStep ==
    ASSUME WikiInv, Wiki!Tick
    PROVE  WikiInv'
<1>0. /\ Wiki!TypeOK /\ UNCHANGED <<status, title, current, text>>
      /\ \A q \in Requests : request[q].step # "idle" => request[q].age < MaxDelay
      /\ request' = [q \in Requests |-> IF request[q].step = "idle" THEN Wiki!Idle
                                        ELSE [request[q] EXCEPT !.age = @ + 1]]
      /\ render' = [r \in Wiki!Revisions |-> Wiki!Age(render[r])]
      /\ edited' = [r \in Wiki!Revisions |-> IF edited[r] = Wiki!Horizon THEN Wiki!Horizon
                                             ELSE edited[r] + 1]
    BY DEF Wiki!Tick, WikiInv, Wiki!document
<1>1. ASSUME NEW q \in Requests
      PROVE  /\ request'[q] \in Wiki!Request
             /\ request'[q].step # "idle" =>
                   /\ request'[q].step = request[q].step /\ request'[q].page = request[q].page
                   /\ request'[q].revision = request[q].revision
                   /\ request'[q].age = request[q].age + 1
    <2>1. request[q] \in Wiki!Request
        BY <1>0 DEF Wiki!TypeOK
    <2>2. CASE request[q].step = "idle"
        BY <1>0, <2>2, WikiIdle
    <2>3. CASE request[q].step # "idle"
        <3>1. request'[q] = [request[q] EXCEPT !.age = request[q].age + 1] /\ request[q].age < MaxDelay
            BY <1>0, <2>3
        <3> QED
            BY <2>1, <3>1, WikiNumbers DEF Wiki!Request
    <2> QED
        BY <2>2, <2>3
<1>2. ASSUME NEW r \in Wiki!Revisions
      PROVE  /\ edited[r] \in Nat /\ edited'[r] \in 0..Wiki!Horizon /\ edited'[r] <= edited[r] + 1
             /\ render[r] \in Wiki!Rendered \cup {None}
             /\ render'[r] \in Wiki!Rendered \cup {None}
             /\ render'[r] # None =>
                   /\ render[r] # None /\ render'[r].page = render[r].page
                   /\ render[r].left \in 1..Timeout /\ render'[r].left = render[r].left - 1
    <2>1. edited[r] \in 0..Wiki!Horizon /\ render[r] \in Wiki!Rendered \cup {None}
        BY <1>0 DEF Wiki!TypeOK
    <2>2. edited'[r] = IF edited[r] = Wiki!Horizon THEN Wiki!Horizon ELSE edited[r] + 1
        BY <1>0
    <2>3. CASE render'[r] # None
        <3>1. /\ render[r] # None /\ render[r].left # 1
              /\ render'[r] = [render[r] EXCEPT !.left = render[r].left - 1]
            BY <1>0, <2>3 DEF Wiki!Age
        <3>2. render[r] \in Wiki!Rendered
            BY <2>1, <3>1
        <3>3. render'[r].page = render[r].page /\ render'[r].left = render[r].left - 1
              /\ render[r].left \in 1..Timeout /\ render[r].page \in Wiki!Page
              /\ render'[r] = [page |-> render[r].page, left |-> render[r].left - 1]
            BY <3>1, <3>2 DEF Wiki!Rendered
        <3>4. render[r].left - 1 \in 1..Timeout
            BY <3>1, <3>3, WikiNumbers
        <3>5. render'[r] \in Wiki!Rendered
            BY <3>3, <3>4 DEF Wiki!Rendered
        <3> QED
            BY <2>1, <2>2, <3>1, <3>3, <3>5, WikiNumbers
    <2> QED
        BY <2>1, <2>2, <2>3, WikiNumbers
<1>3. Wiki!TypeOK'
    BY <1>0, <1>1, <1>2 DEF Wiki!TypeOK
<1>4. ASSUME NEW q \in Requests PROVE RequestFits(request[q])'
    <2>1. /\ RequestFits(request[q]) /\ request[q].age \in Nat
          /\ request[q].step \in {"look", "fill", "shown"} => request[q].revision \in Wiki!Revisions
        BY WikiParts, WikiNumbers
    <2>3. HasRevision(request[q])'
        BY <1>0, <1>1, <2>1 DEF RequestFits, HasRevision, Wiki!Written
    <2>4. CASE request'[q].step \in {"look", "fill", "shown"}
        <3> DEFINE r == request[q].revision
        <3>1. /\ r \in Wiki!Revisions /\ request[q].step = request'[q].step
              /\ request'[q].page = request[q].page /\ request'[q].revision = r
              /\ request'[q].age = request[q].age + 1
            BY <1>1, <2>1, <2>4
        <3>2. /\ edited[r] \in Nat /\ edited'[r] \in Nat /\ edited'[r] <= edited[r] + 1
              /\ Wiki!PageOf(r)' = Wiki!PageOf(r)
            BY <1>0, <1>2, <3>1, WikiNumbers DEF Wiki!PageOf
        <3>3. ReadLately(request[q])'
            <4>1. request[q].step \in {"look", "fill"} =>
                      request[q].page = Wiki!PageOf(r) \/ edited[r] <= request[q].age
                BY <2>1 DEF RequestFits, ReadLately
            <4>2. request'[q].step \in {"look", "fill"} =>
                      request'[q].page = Wiki!PageOf(r)' \/ edited'[r] <= request'[q].age
                BY <2>1, <3>1, <3>2, <4>1
            <4> QED
                BY <3>1, <4>2 DEF ReadLately
        <3>4. ShownLately(request[q])'
            <4>1. request[q].step = "shown" =>
                      \/ request[q].page = Wiki!PageOf(r)
                      \/ edited[r] < Timeout + MaxDelay + request[q].age
                BY <2>1 DEF RequestFits, ShownLately
            <4>2. request'[q].step = "shown" =>
                      \/ request'[q].page = Wiki!PageOf(r)'
                      \/ edited'[r] < Timeout + MaxDelay + request'[q].age
                BY <2>1, <3>1, <3>2, <4>1, WikiNumbers
            <4> QED
                BY <3>1, <4>2 DEF ShownLately
        <3> QED
            BY <2>3, <3>3, <3>4 DEF RequestFits
    <2> QED
        BY <2>4 DEF RequestFits, HasRevision, ReadLately, ShownLately
<1>5. ASSUME NEW r \in Wiki!Revisions PROVE KeptLately(r)'
    <2>1. KeptLately(r) /\ Wiki!PageOf(r)' = Wiki!PageOf(r)
        BY <1>0 DEF WikiInv, Wiki!PageOf
    <2>2. render'[r] # None =>
              /\ Wiki!Written(r)
              /\ render[r].page = Wiki!PageOf(r) \/ edited'[r] + render'[r].left <= Timeout + MaxDelay
        BY <1>2, <2>1, WikiNumbers DEF KeptLately
    <2> QED
        BY <1>0, <1>2, <2>1, <2>2 DEF KeptLately, Wiki!Written
<1> QED
    BY <1>0, <1>3, <1>4, <1>5 DEF WikiInv, Wiki!Written

LEMMA WikiStep == WikiInv /\ [Wiki!Next]_(Wiki!vars) => WikiInv'
<1> SUFFICES ASSUME WikiInv, [Wiki!Next]_(Wiki!vars) PROVE WikiInv'
    OBVIOUS
<1>1. CASE UNCHANGED Wiki!vars
    BY <1>1 DEF Wiki!vars, Wiki!document, WikiInv, Wiki!TypeOK, RequestFits, HasRevision, ReadLately,
                ShownLately, KeptLately, Wiki!Written, Wiki!PageOf
<1> QED
    BY <1>1, WikiOpenStep, WikiLookStep, WikiFillStep, WikiEndStep, WikiSeedStep, WikiPipelineStep,
       WikiEvictStep, WikiTickStep
       DEF Wiki!Next

LEMMA WikiShows == WikiInv => Wiki!ShowsItsRevision
<1> SUFFICES ASSUME WikiInv, NEW q \in Requests, request[q].step = "shown",
                    request[q].page # Wiki!PageOf(request[q].revision)
             PROVE  edited[request[q].revision] < Wiki!Horizon
    BY DEF Wiki!ShowsItsRevision
<1>1. /\ RequestFits(request[q]) /\ request[q].age \in 0..MaxDelay
      /\ request[q].revision \in Wiki!Revisions
    BY WikiParts
<1>2. edited[request[q].revision] \in Nat
    BY <1>1, WikiNumbers DEF WikiInv, Wiki!TypeOK
<1> QED
    BY <1>1, <1>2, WikiNumbers DEF RequestFits, ShownLately

-----------------------------------------------------------------------------
(* Recommended pages                                                       *)

\* A sequence of pages, without one twice.
Distinct(s) == s \in Seq(Pages) /\ \A i, j \in 1 .. Len(s) : s[i] = s[j] => i = j

LEMMA RelatedNumbers ==
    /\ Limit \in Nat /\ Self \in Pages
    /\ Distinct(Latest) /\ Related!ToSet(Latest) = Pages
<1>1. Related!RelatedAssumption
    BY PartsAssumption
<1>2. Latest \in Seq(Pages) /\ DOMAIN Latest = 1 .. Len(Latest)
    BY <1>1, LenProperties DEF Related!RelatedAssumption
<1> QED
    BY <1>1, <1>2 DEF Related!RelatedAssumption, Related!IsInjective, Distinct

\* The members of a sequence.
LEMMA MembersOf ==
    ASSUME NEW s \in Seq(Pages)
    PROVE  /\ Len(s) \in Nat /\ DOMAIN s = 1 .. Len(s) /\ s \in [1 .. Len(s) -> Pages]
           /\ Related!ToSet(s) = {s[i] : i \in 1 .. Len(s)}
           /\ Related!ToSet(s) \subseteq Pages
           /\ \A item : item \in Related!ToSet(s) <=> \E i \in 1 .. Len(s) : s[i] = item
           /\ Related!IsInjective(s) <=> Distinct(s)
<1>1. Len(s) \in Nat /\ DOMAIN s = 1 .. Len(s) /\ s \in [1 .. Len(s) -> Pages]
    BY LenProperties
<1>2. Related!ToSet(s) = {s[i] : i \in 1 .. Len(s)}
    BY <1>1 DEF Related!ToSet
<1>3. Related!IsInjective(s) <=> Distinct(s)
    BY <1>1 DEF Related!IsInjective, Distinct
<1> QED
    BY <1>1, <1>2, <1>3

LEMMA EmptyList ==
    /\ <<>> \in Seq(Pages) /\ Len(<<>>) = 0 /\ Distinct(<<>>) /\ Related!ToSet(<<>>) = {}
<1>1. <<>> \in Seq(Pages) /\ Len(<<>>) = 0
    BY EmptySeq
<1>2. Related!ToSet(<<>>) = {}
    <2>1. PICK s \in Seq(Pages) : s = <<>>
        BY <1>1
    <2>2. \A item : item \notin Related!ToSet(s)
        <3>1. 1 .. Len(s) = {}
            BY <1>1, <2>1
        <3> QED
            BY <3>1, MembersOf
    <2> QED
        BY <2>1, <2>2
<1> QED
    BY <1>1, <1>2 DEF Distinct

\* One list after another.
LEMMA OneAfterAnother ==
    ASSUME NEW s \in Seq(Pages), NEW t \in Seq(Pages)
    PROVE  /\ s \o t \in Seq(Pages) /\ Len(s \o t) = Len(s) + Len(t)
           /\ Related!ToSet(s \o t) = Related!ToSet(s) \cup Related!ToSet(t)
           /\ Distinct(s) /\ Distinct(t) /\ Related!ToSet(s) \cap Related!ToSet(t) = {} => Distinct(s \o t)
<1> DEFINE u == s \o t
           m == Len(s)
           n == Len(t)
<1>1. /\ u \in Seq(Pages) /\ Len(u) = m + n /\ m \in Nat /\ n \in Nat
      /\ \A i \in 1 .. m + n : u[i] = IF i <= m THEN s[i] ELSE t[i - m]
    BY ConcatProperties, LenProperties
<1> HIDE DEF u, m, n
<1>2. \A i \in 1 .. m : i \in 1 .. m + n /\ u[i] = s[i]
    BY <1>1
<1>3. \A i \in 1 .. n : i + m \in 1 .. m + n /\ u[i + m] = t[i]
    <2> SUFFICES ASSUME NEW i \in 1 .. n PROVE i + m \in 1 .. m + n /\ u[i + m] = t[i]
        OBVIOUS
    <2>1. i + m \in 1 .. m + n /\ ~(i + m <= m) /\ (i + m) - m = i
        BY <1>1
    <2> QED
        BY <1>1, <2>1
<1>4. \A i \in 1 .. m + n : (i \in 1 .. m /\ u[i] = s[i]) \/ (i - m \in 1 .. n /\ u[i] = t[i - m] /\ ~(i <= m))
    BY <1>1
<1>5. \A item : item \in Related!ToSet(u) <=> item \in Related!ToSet(s) \/ item \in Related!ToSet(t)
    <2>1. \A item : item \in Related!ToSet(u) <=> \E i \in 1 .. m + n : u[i] = item
        <3>1. Len(u) = m + n /\ \A item : item \in Related!ToSet(u) <=> \E i \in 1 .. Len(u) : u[i] = item
            BY <1>1, MembersOf, Zenon
        <3> QED
            BY <3>1, Zenon
    <2>2. \A item : item \in Related!ToSet(s) <=> \E i \in 1 .. m : s[i] = item
        BY MembersOf DEF m
    <2>3. \A item : item \in Related!ToSet(t) <=> \E i \in 1 .. n : t[i] = item
        BY MembersOf DEF n
    <2> QED
        BY <1>2, <1>3, <1>4, <2>1, <2>2, <2>3
<1>6. ASSUME Distinct(s), Distinct(t), Related!ToSet(s) \cap Related!ToSet(t) = {}
      PROVE  Distinct(u)
    <2> SUFFICES ASSUME NEW i \in 1 .. m + n, NEW j \in 1 .. m + n, u[i] = u[j] PROVE i = j
        BY <1>1 DEF Distinct
    <2>1. \A k \in 1 .. m : s[k] \in Related!ToSet(s)
        BY MembersOf DEF m
    <2>2. \A k \in 1 .. n : t[k] \in Related!ToSet(t)
        BY MembersOf DEF n
    <2>3. i \in 1 .. m <=> j \in 1 .. m
        <3>1. \A k \in 1 .. m + n : /\ k \in 1 .. m => u[k] \in Related!ToSet(s)
                                    /\ k \notin 1 .. m => u[k] \in Related!ToSet(t)
            <4> SUFFICES ASSUME NEW k \in 1 .. m + n
                         PROVE  /\ k \in 1 .. m => u[k] \in Related!ToSet(s)
                                /\ k \notin 1 .. m => u[k] \in Related!ToSet(t)
                OBVIOUS
            <4>1. k \in 1 .. m => u[k] = s[k]
                BY <1>2
            <4>2. k \notin 1 .. m => k - m \in 1 .. n /\ u[k] = t[k - m]
                BY <1>4
            <4> QED
                BY <2>1, <2>2, <4>1, <4>2
        <3>2. \A item : ~(item \in Related!ToSet(s) /\ item \in Related!ToSet(t))
            BY <1>6
        <3>3. PICK item : item = u[i] /\ item = u[j]
            OBVIOUS
        <3>4. /\ i \in 1 .. m => item \in Related!ToSet(s)
              /\ i \notin 1 .. m => item \in Related!ToSet(t)
            BY <3>1, <3>3, Zenon
        <3>5. /\ j \in 1 .. m => item \in Related!ToSet(s)
              /\ j \notin 1 .. m => item \in Related!ToSet(t)
            BY <3>1, <3>3, Zenon
        <3> QED
            BY <3>2, <3>4, <3>5, Zenon
    <2>4. CASE i \in 1 .. m
        BY <1>2, <1>6, <2>3, <2>4 DEF Distinct, m
    <2>5. CASE i \notin 1 .. m
        <3>1. i - m \in 1 .. n /\ j - m \in 1 .. n /\ t[i - m] = t[j - m]
            BY <1>4, <2>3, <2>5
        <3>2. i - m = j - m
            BY <1>6, <3>1 DEF Distinct, n
        <3> QED
            BY <1>1, <3>2
    <2> QED
        BY <2>4, <2>5
<1> QED
    BY <1>1, <1>5, <1>6 DEF u, m, n

\* The first of a list.
LEMMA TheFirst ==
    ASSUME NEW s \in Seq(Pages), NEW n \in Nat
    PROVE  /\ Related!Upto(n, s) \in Seq(Pages)
           /\ Len(Related!Upto(n, s)) = IF n < Len(s) THEN n ELSE Len(s)
           /\ \A i \in 1 .. Len(Related!Upto(n, s)) : Related!Upto(n, s)[i] = s[i]
           /\ Related!ToSet(Related!Upto(n, s)) \subseteq Related!ToSet(s)
           /\ ~(n < Len(s)) => Related!Upto(n, s) = s
           /\ n = 0 => Related!Upto(n, s) = <<>>
           /\ Distinct(s) => Distinct(Related!Upto(n, s))
<1> DEFINE k == IF n < Len(s) THEN n ELSE Len(s)
           first == SubSeq(s, 1, k)
<1>0. /\ Len(s) \in Nat /\ k \in Nat /\ k <= Len(s) /\ 1 \in Int /\ k \in Int
      /\ \A i \in 1 .. k : i \in 1 .. Len(s) /\ s[i] \in Pages
    BY LenProperties, ElementOfSeq
<1>1. Related!Upto(n, s) = first
    BY DEF Related!Upto
<1> HIDE DEF k
<1>2. /\ first \in Seq(Pages)
      /\ Len(first) = IF 1 <= k THEN k - 1 + 1 ELSE 0
      /\ \A i \in 1 .. k - 1 + 1 : first[i] = s[1 + i - 1]
    BY <1>0, SubSeqProperties
<1> HIDE DEF first
<1>3. Len(first) = k /\ \A i \in 1 .. k : first[i] = s[i]
    <2>1. k - 1 + 1 = k
        BY <1>0
    <2>2. \A i \in 1 .. k : 1 + i - 1 = i
        BY <1>0
    <2> QED
        BY <1>0, <1>2, <2>1, <2>2
<1>4. Related!ToSet(first) \subseteq Related!ToSet(s)
    BY <1>0, <1>2, <1>3, MembersOf
<1>5. ~(n < Len(s)) => first = s
    BY SubSeqFull DEF first, k
<1>6. n = 0 => first = <<>>
    <2>1. n = 0 => k = 0
        BY <1>0 DEF k
    <2> QED
        BY <1>2, <1>3, <2>1, EmptySeq
<1>7. Distinct(s) => Distinct(first)
    BY <1>0, <1>2, <1>3 DEF Distinct
<1> QED
    BY <1>1, <1>2, <1>3, <1>4, <1>5, <1>6, <1>7 DEF k

\* The members of an order that are in a set are picked one by one.
LEMMA PickedOneByOne ==
    ASSUME NEW order \in Seq(Pages), NEW S, NEW picked, picked = Related!FirstOf(order, S)
    PROVE  /\ picked[0] = <<>>
           /\ \A n \in 1 .. Len(order) :
                 picked[n] = IF order[n] \in S THEN Append(picked[n - 1], order[n]) ELSE picked[n - 1]
<1> DEFINE V == Seq(Pages)
           m == Len(order)
           next(n, s) == IF order[n] \in S THEN Append(s, order[n]) ELSE s
           G == [n \in Nat |-> [s \in V |-> IF n \in 1 .. m THEN next(n, s) ELSE s]]
<1>1. m \in Nat /\ \A n \in 1 .. m : order[n] \in Pages
    BY LenProperties, ElementOfSeq
<1>2. \A n \in Nat, s \in V : (IF n \in 1 .. m THEN next(n, s) ELSE s) \in V
    BY <1>1, AppendProperties
<1>3. G \in [Nat -> [V -> V]] /\ <<>> \in V
    BY <1>2, EmptySeq
<1>4. PICK g : MadeOf(g, m, V, <<>>, G)
    <2> HIDE DEF G, V, m
    <2> QED
        BY <1>1, <1>3, Recursion
<1> HIDE DEF V, next, m
<1>5. ASSUME NEW n \in 1 .. m PROVE g[n] = next(n, g[n - 1])
    <2>1. n \in Nat /\ g[n - 1] \in V
        BY <1>1, <1>4 DEF MadeOf
    <2>2. G[n][g[n - 1]] = next(n, g[n - 1])
        BY <2>1
    <2> QED
        BY <1>4, <2>2 DEF MadeOf
<1>6. g = [n \in 0 .. m |-> IF n = 0 THEN <<>> ELSE next(n, g[n - 1])]
    <2>1. DOMAIN g = 0 .. m /\ g = [n \in 0 .. m |-> g[n]] /\ g[0] = <<>>
        BY <1>4 DEF MadeOf
    <2>2. ASSUME NEW n \in 0 .. m PROVE g[n] = IF n = 0 THEN <<>> ELSE next(n, g[n - 1])
        <3>1. n = 0 \/ n \in 1 .. m
            BY <1>1
        <3>2. n \in 1 .. m => n # 0
            OBVIOUS
        <3> QED
            BY <1>5, <2>1, <3>1, <3>2, Zenon
    <2> QED
        BY <2>1, <2>2
<1>7. picked = [n \in 0 .. m |-> IF n = 0 THEN <<>> ELSE next(n, picked[n - 1])]
    BY <1>6, Zenon DEF Related!FirstOf, next, m
<1>8. picked[0] = <<>>
    BY <1>1, <1>7
<1>9. ASSUME NEW n \in 1 .. m PROVE picked[n] = next(n, picked[n - 1])
    <2>1. n \in 0 .. m /\ n # 0
        BY <1>1
    <2> QED
        BY <1>7, <2>1, Zenon
<1> QED
    BY <1>8, <1>9 DEF next, m

\* They are in the order, each once, and nothing else is picked.
LEMMA PickedAll ==
    ASSUME NEW order, Distinct(order), NEW S
    PROVE  /\ Distinct(Related!Of(order, S)) /\ Related!Of(order, S) \in Seq(Pages)
           /\ Related!ToSet(Related!Of(order, S)) = Related!ToSet(order) \cap S
           /\ Len(Related!Of(order, S)) <= Len(order)
<1>1. PICK picked : picked = Related!FirstOf(order, S)
    OBVIOUS
<1>2. PICK m \in Nat : m = Len(order)
    BY LenProperties DEF Distinct
<1>3. /\ order \in Seq(Pages)
      /\ picked[0] = <<>>
      /\ \A n \in 1 .. m :
             picked[n] = IF order[n] \in S THEN Append(picked[n - 1], order[n]) ELSE picked[n - 1]
      /\ \A n \in 1 .. m : order[n] \in Pages
      /\ \A i, j \in 1 .. m : order[i] = order[j] => i = j
    BY <1>1, <1>2, PickedOneByOne, ElementOfSeq DEF Distinct
<1> DEFINE Right(n, s) ==
               /\ Distinct(s) /\ Len(s) <= n
               /\ \A item : item \in Related!ToSet(s) <=> item \in S /\ \E i \in 1 .. n : order[i] = item
           T == {n \in Nat : n <= m => Right(n, picked[n])}
<1>4. 0 \in T
    BY <1>3, EmptyList
<1>5. ASSUME NEW n \in Nat, n \in T PROVE n + 1 \in T
    <2> SUFFICES ASSUME n + 1 <= m PROVE Right(n + 1, picked[n + 1])
        OBVIOUS
    <2>1. n + 1 \in 1 .. m /\ (n + 1) - 1 = n /\ n <= m /\ order[n + 1] \in Pages
        BY <1>2, <1>3
    <2>2. PICK s : s = picked[n]
        OBVIOUS
    <2>3. Right(n, s)
        BY <1>5, <2>1, <2>2
    <2>4. picked[n + 1] = IF order[n + 1] \in S THEN Append(s, order[n + 1]) ELSE s
        BY <1>3, <2>1, <2>2
    <2>5. \A item : (\E i \in 1 .. n + 1 : order[i] = item)
                        <=> ((\E i \in 1 .. n : order[i] = item) \/ item = order[n + 1])
        <3>1. \A i : i \in 1 .. n + 1 <=> i \in 1 .. n \/ i = n + 1
            OBVIOUS
        <3> QED
            BY <3>1
    <2>6. CASE order[n + 1] \in S
        <3>1. PICK item : item = order[n + 1] /\ item \in Pages
            BY <2>1
        <3>2. <<item>> \in Seq(Pages) /\ Len(<<item>>) = 1 /\ <<item>>[1] = item
            BY <3>1
        <3>3. Distinct(<<item>>)
            BY <3>2 DEF Distinct
        <3>4. \A other : other \in Related!ToSet(<<item>>) <=> other = item
            <4>1. PICK one \in Seq(Pages) : one = <<item>>
                BY <3>2
            <4>2. Related!ToSet(one) = {one[i] : i \in 1 .. 1} /\ one[1] = item
                BY <3>2, <4>1, MembersOf
            <4> QED
                BY <4>1, <4>2
        <3>5. picked[n + 1] = s \o <<item>> /\ s \in Seq(Pages)
            BY <2>3, <2>4, <2>6, <3>1, AppendIsConcat DEF Distinct
        <3>6. item \notin Related!ToSet(s)
            <4>1. \A i \in 1 .. n : i \in 1 .. m /\ i # n + 1
                BY <2>1, <1>2
            <4> QED
                BY <1>3, <2>1, <2>3, <3>1, <4>1
        <3>7. Related!ToSet(s) \cap Related!ToSet(<<item>>) = {}
            BY <3>4, <3>6
        <3>8. Distinct(s \o <<item>>)
              /\ Related!ToSet(s \o <<item>>) = Related!ToSet(s) \cup Related!ToSet(<<item>>)
            BY <2>3, <3>2, <3>3, <3>5, <3>7, OneAfterAnother
        <3>9. \A other : other \in Related!ToSet(picked[n + 1])
                             <=> other \in S /\ \E i \in 1 .. n + 1 : order[i] = other
            BY <2>3, <2>5, <2>6, <3>1, <3>4, <3>5, <3>8
        <3>10. Len(picked[n + 1]) <= n + 1
            BY <2>3, <3>2, <3>5, OneAfterAnother, LenProperties
        <3> QED
            BY <3>5, <3>8, <3>9, <3>10
    <2>7. CASE order[n + 1] \notin S
        <3>1. Len(s) \in Nat
            BY <2>3, LenProperties DEF Distinct
        <3> QED
            BY <2>3, <2>4, <2>5, <2>7, <3>1
    <2> QED
        BY <2>6, <2>7
<1> HIDE DEF T
<1>6. m \in T
    BY <1>4, <1>5, Induction
<1>7. Right(m, Related!Of(order, S))
    BY <1>1, <1>2, <1>6 DEF T, Related!Of
<1>8. \A item : item \in Related!ToSet(order) <=> \E i \in 1 .. m : order[i] = item
    BY <1>2, <1>3, MembersOf
<1> QED
    BY <1>2, <1>7, <1>8 DEF Distinct

\* When all are in the set, the order is as it was.
LEMMA PickedWhole ==
    ASSUME NEW order \in Seq(Pages), NEW S, Related!ToSet(order) \subseteq S
    PROVE  Related!Of(order, S) = order
<1>1. PICK picked : picked = Related!FirstOf(order, S)
    OBVIOUS
<1>2. PICK m \in Nat : m = Len(order)
    BY LenProperties
<1>3. /\ picked[0] = <<>>
      /\ \A n \in 1 .. m :
             picked[n] = IF order[n] \in S THEN Append(picked[n - 1], order[n]) ELSE picked[n - 1]
      /\ \A n \in 1 .. m : order[n] \in Pages /\ order[n] \in S
    BY <1>1, <1>2, PickedOneByOne, ElementOfSeq, MembersOf
<1> DEFINE T == {n \in Nat : n <= m => picked[n] = SubSeq(order, 1, n)}
<1>4. 0 \in T
    <2>1. SubSeq(order, 1, 0) = <<>>
        BY SubSeqEmpty
    <2> QED
        BY <1>3, <2>1
<1>5. ASSUME NEW n \in Nat, n \in T PROVE n + 1 \in T
    <2> SUFFICES ASSUME n + 1 <= m PROVE picked[n + 1] = SubSeq(order, 1, n + 1)
        OBVIOUS
    <2>1. /\ n + 1 \in 1 .. m /\ (n + 1) - 1 = n /\ n <= m /\ 1 \in 1 .. m /\ n + 1 \in 1 .. m
          /\ n \in 0 .. m
        BY <1>2
    <2>2. PICK s : s = SubSeq(order, 1, n)
        OBVIOUS
    <2>3. picked[n + 1] = Append(s, order[n + 1])
        BY <1>3, <1>5, <2>1, <2>2
    <2>4. SubSeq(order, 1, n + 1) = s \o <<order[n + 1]>>
        BY <1>2, <2>1, <2>2, SubSeqRecursiveSecond
    <2>5. s \in Seq(Pages)
        <3>1. 1 \in Int /\ n \in Int /\ \A i \in 1 .. n : order[i] \in Pages
            BY <1>3, <2>1
        <3> QED
            BY <2>2, <3>1, SubSeqProperties
    <2>6. Append(s, order[n + 1]) = s \o <<order[n + 1]>>
        BY <1>3, <2>1, <2>5, AppendIsConcat
    <2> QED
        BY <2>3, <2>4, <2>6
<1> HIDE DEF T
<1>6. m \in T
    BY <1>4, <1>5, Induction
<1>7. SubSeq(order, 1, m) = order
    BY <1>2, SubSeqFull
<1> QED
    BY <1>1, <1>2, <1>6, <1>7 DEF T, Related!Of

\* Filling up what is missing: the first of one list after another.
FillsUp(n, s, t, more) ==
    Related!Upto(n, s) \o Related!Upto(n - Len(Related!Upto(n, s)), more) = Related!Upto(n, s \o t)

LEMMA FilledUp ==
    ASSUME NEW n \in Nat, NEW s \in Seq(Pages), NEW t \in Seq(Pages), NEW more \in Seq(Pages),
           Len(s) <= n => more = t
    PROVE  FillsUp(n, s, t, more)
<1>1. PICK first : first = Related!Upto(n, s)
    OBVIOUS
<1>2. Len(s) \in Nat /\ Len(t) \in Nat
    BY LenProperties
<1>3. /\ first \in Seq(Pages) /\ Len(first) = IF n < Len(s) THEN n ELSE Len(s)
      /\ \A i \in 1 .. Len(first) : first[i] = s[i]
      /\ ~(n < Len(s)) => first = s
    BY <1>1, TheFirst
<1>4. PICK k \in Nat : k = n - Len(first)
    <2>1. PICK a \in Nat, b \in Nat : a = Len(s) /\ b = Len(first) /\ b = IF n < a THEN n ELSE a
        BY <1>2, <1>3
    <2>2. n - b \in Nat
        BY <2>1
    <2> QED
        BY <2>1, <2>2
<1>5. PICK rest : rest = Related!Upto(k, more)
    OBVIOUS
<1>6. /\ rest \in Seq(Pages) /\ Len(rest) = IF k < Len(more) THEN k ELSE Len(more)
      /\ \A i \in 1 .. Len(rest) : rest[i] = more[i]
      /\ k = 0 => rest = <<>>
    BY <1>5, TheFirst
<1>7. /\ s \o t \in Seq(Pages) /\ Len(s \o t) = Len(s) + Len(t)
      /\ \A i \in 1 .. Len(s) + Len(t) : (s \o t)[i] = IF i <= Len(s) THEN s[i] ELSE t[i - Len(s)]
    BY ConcatProperties
<1>8. PICK both \in Seq(Pages) : both = s \o t
    BY <1>7
<1>9. PICK all : all = Related!Upto(n, both)
    OBVIOUS
<1>10. /\ all \in Seq(Pages) /\ Len(all) = IF n < Len(both) THEN n ELSE Len(both)
       /\ \A i \in 1 .. Len(all) : all[i] = both[i]
    BY <1>9, TheFirst
<1>11. first \o rest = all => FillsUp(n, s, t, more)
    <2>1. rest = Related!Upto(n - Len(first), more) /\ all = Related!Upto(n, s \o t)
        BY <1>4, <1>5, <1>8, <1>9
    <2> QED
        BY <1>1, <2>1, Zenon DEF FillsUp
<1>12. CASE n < Len(s)
    <2>1. k = 0 /\ Len(first) = n /\ first \o rest = first
        BY <1>3, <1>4, <1>6, <1>12, ConcatEmptySeq
    <2>2. Len(all) = n
        BY <1>2, <1>7, <1>8, <1>10, <1>12
    <2>3. \A i \in 1 .. n : first[i] = s[i] /\ all[i] = s[i]
        BY <1>2, <1>3, <1>7, <1>8, <1>10, <1>12, <2>1, <2>2
    <2>4. first = all
        <3>1. Len(first) = Len(all) /\ \A i \in 1 .. Len(first) : first[i] = all[i]
            BY <2>1, <2>2, <2>3
        <3> QED
            BY <1>3, <1>10, <3>1, SeqEqual
    <2> QED
        BY <2>1, <2>4, <1>11
<1>13. CASE ~(n < Len(s))
    <2>1. first = s /\ more = t /\ k = n - Len(s)
        BY <1>2, <1>3, <1>4, <1>13
    <2>2. PICK whole : whole = s \o rest
        OBVIOUS
    <2>3. /\ whole \in Seq(Pages) /\ Len(whole) = Len(s) + Len(rest)
          /\ \A i \in 1 .. Len(s) + Len(rest) : whole[i] = IF i <= Len(s) THEN s[i] ELSE rest[i - Len(s)]
        <3>1. rest \in Seq(Pages)
            BY <1>6
        <3>2. /\ s \o rest \in Seq(Pages) /\ Len(s \o rest) = Len(s) + Len(rest)
              /\ \A i \in 1 .. Len(s) + Len(rest) :
                     (s \o rest)[i] = IF i <= Len(s) THEN s[i] ELSE rest[i - Len(s)]
            BY <3>1, ConcatProperties
        <3> QED
            BY <2>2, <3>2
    <2>4. Len(all) = Len(whole)
        <3>1. PICK a \in Nat, b \in Nat : a = Len(s) /\ b = Len(t)
            BY <1>2
        <3>2. Len(whole) = a + (IF k < b THEN k ELSE b)
            BY <1>6, <2>1, <2>3, <3>1
        <3>3. Len(all) = IF n < a + b THEN n ELSE a + b
            BY <1>7, <1>8, <1>10, <3>1
        <3>4. k = n - a
            BY <2>1, <3>1
        <3> QED
            BY <3>1, <3>2, <3>3, <3>4
    <2>5. ASSUME NEW i \in 1 .. Len(whole) PROVE whole[i] = all[i]
        <3>1. i \in 1 .. Len(s) + Len(rest) /\ i \in 1 .. Len(all) /\ i \in 1 .. Len(s) + Len(t)
            BY <1>2, <1>6, <2>1, <2>3, <2>4
        <3>2. all[i] = IF i <= Len(s) THEN s[i] ELSE t[i - Len(s)]
            BY <1>7, <1>8, <1>10, <3>1
        <3>3. CASE i <= Len(s)
            BY <2>3, <3>1, <3>2, <3>3
        <3>4. CASE ~(i <= Len(s))
            <4>1. i - Len(s) \in 1 .. Len(rest)
                BY <1>2, <1>6, <2>1, <3>1, <3>4
            <4> QED
                BY <1>6, <2>1, <2>3, <3>1, <3>2, <3>4, <4>1
        <3> QED
            BY <3>3, <3>4
    <2>6. whole = all
        BY <1>10, <2>3, <2>4, <2>5, SeqEqual
    <2> QED
        BY <2>1, <2>2, <2>6, <1>11
<1> QED
    BY <1>12, <1>13

\* A list that could be recommended.
Fits(s) == Distinct(s) /\ Self \notin Related!ToSet(s) /\ Len(s) <= Limit

\* What the queries find when nothing changes: the nearest, if the page has a vector, those
\* that share sources with it, the others.
Nearest == IF ids # <<>> THEN Related!Of(near, listed \ {Self}) ELSE <<>>
Sharing == Related!Of(shared, listed \ ({Self} \cup Related!ToSet(Nearest)))
Others == Related!Of(Latest, listed \ ({Self} \cup Related!ToSet(Nearest) \cup Related!ToSet(Sharing)))

BestSoFar ==
    /\ step = "fetch" => ids = Related!Upto(Limit, Related!Of(near, listed \ {Self}))
    /\ step = "sources" => found = Related!Upto(Limit, Nearest)
    /\ step = "latest" => found = Related!Upto(Limit, Nearest \o Sharing)
    /\ step = "done" => found = Related!Upto(Limit, Nearest \o Sharing \o Others)

Reached == step = "done" /\ Len(found) < Limit => always \ {Self} \subseteq Related!ToSet(found)

RelatedInv ==
    /\ listed \subseteq Pages /\ always \subseteq listed /\ calm \in BOOLEAN
    /\ step \in {"vectors", "fetch", "sources", "latest", "done"}
    /\ Distinct(near) /\ Distinct(shared) /\ Fits(ids) /\ Fits(found)
    /\ step \in {"vectors", "fetch"} => found = <<>>
    /\ step = "vectors" => ids = <<>>
    /\ Reached
    /\ calm => BestSoFar

\* The orders of the queries are sequences of pages, without one twice.
LEMMA OrdersFit == \A order \in Related!Orders : Distinct(order)
<1>1. IsFiniteSet(Pages)
    <2>1. PICK m \in Nat : m = Len(Latest)
        BY RelatedNumbers, LenProperties DEF Distinct
    <2>2. Latest \in [1 .. m -> Pages] /\ \A item \in Pages : \E i \in 1 .. m : Latest[i] = item
        BY <2>1, RelatedNumbers, MembersOf DEF Distinct
    <2>3. Latest \in Surjection(1 .. m, Pages)
        BY <2>2 DEF Surjection
    <2>4. IsFiniteSet(1 .. m)
        BY <2>1, FS_Interval
    <2> QED
        BY <2>3, <2>4, FS_Surjection
<1> SUFFICES ASSUME NEW S, S \subseteq Pages \ {Self}, NEW order \in Related!SetToSeqs(S)
             PROVE  Distinct(<<Self>> \o order)
    BY DEF Related!Orders
<1>2. PICK n \in Nat : n = Related!Cardinality(S)
    <2>1. S \in SUBSET Pages
        OBVIOUS
    <2>2. Cardinality(S) \in Nat
        BY <1>1, <2>1, FS_Subset, FS_CardinalityType
    <2> QED
        BY <2>2 DEF Related!Cardinality, Cardinality
<1>3. order \in [1 .. n -> S] /\ \A i, j \in 1 .. n : i # j => order[i] # order[j]
    BY <1>2 DEF Related!SetToSeqs
<1>4. order \in Seq(Pages) /\ Len(order) = n
    <2>1. order \in [1 .. n -> Pages]
        BY <1>3
    <2> QED
        BY <2>1
<1>5. Distinct(order)
    BY <1>3, <1>4 DEF Distinct
<1>6. Self \notin Related!ToSet(order)
    BY <1>3, <1>4, MembersOf
<1>7. PICK one : one = <<Self>> /\ one \in Seq(Pages) /\ Len(one) = 1 /\ one[1] = Self
    <2>1. PICK item \in Pages : item = Self
        BY RelatedNumbers
    <2>2. <<item>> \in Seq(Pages) /\ Len(<<item>>) = 1 /\ <<item>>[1] = item
        OBVIOUS
    <2> QED
        BY <2>1, <2>2
<1>8. Distinct(one) /\ Related!ToSet(one) = {one[i] : i \in 1 .. 1}
    <2>1. Related!ToSet(one) = {one[i] : i \in 1 .. Len(one)}
        BY <1>7, MembersOf
    <2>2. \A i \in 1 .. Len(one) : i = 1
        BY <1>7
    <2> QED
        BY <1>7, <2>1, <2>2 DEF Distinct
<1>9. Related!ToSet(one) \cap Related!ToSet(order) = {}
    BY <1>6, <1>7, <1>8
<1>10. Distinct(one \o order)
    BY <1>4, <1>5, <1>7, <1>8, <1>9, OneAfterAnother
<1> QED
    BY <1>7, <1>10

LEMMA RelatedInit == Related!Init => RelatedInv
<1> SUFFICES ASSUME Related!Init PROVE RelatedInv
    OBVIOUS
<1>1. Distinct(near) /\ Distinct(shared) /\ listed \subseteq Pages
    BY OrdersFit DEF Related!Init
<1>2. Fits(<<>>)
    BY EmptyList, RelatedNumbers DEF Fits
<1>3. Related!Upto(Limit, <<>>) = <<>>
    <2>1. PICK s \in Seq(Pages) : s = <<>> /\ Len(s) = 0
        BY EmptyList
    <2>2. ~(Limit < Len(s))
        BY <2>1, RelatedNumbers
    <2>3. Related!Upto(Limit, s) = s
        BY <2>2, RelatedNumbers, TheFirst
    <2> QED
        BY <2>1, <2>3
<1>4. BestSoFar
    BY <1>3 DEF Related!Init, BestSoFar, Nearest
<1> QED
    BY <1>1, <1>2, <1>4 DEF Related!Init, RelatedInv, Reached

\* A query adds pages that were not found before, and reaches the limit if it can.
LEMMA QueryAdds ==
    ASSUME RelatedInv, NEW order, Distinct(order), NEW more, more = Related!Missing(order)
    PROVE  /\ Fits(found \o more)
           /\ Len(found \o more) < Limit =>
                  (listed \ {Self}) \cap Related!ToSet(order) \subseteq Related!ToSet(found \o more)
<1>1. /\ found \in Seq(Pages) /\ Distinct(found) /\ Self \notin Related!ToSet(found)
      /\ Len(found) \in Nat /\ Len(found) <= Limit
    BY LenProperties DEF RelatedInv, Fits, Distinct
<1>2. PICK of : of = Related!Of(order, listed \ Related!Seen)
    OBVIOUS
<1>3. /\ Distinct(of) /\ of \in Seq(Pages)
      /\ Related!ToSet(of) = Related!ToSet(order) \cap (listed \ Related!Seen)
    BY <1>2, PickedAll
<1>4. PICK n \in Nat : n = Limit - Len(found)
    <2>1. PICK a \in Nat, b \in Nat : a = Len(found) /\ b = Limit /\ a <= b
        BY <1>1, RelatedNumbers
    <2>2. b - a \in Nat
        BY <2>1
    <2> QED
        BY <2>1, <2>2
<1>5. /\ more \in Seq(Pages) /\ Distinct(more) /\ Len(more) = IF n < Len(of) THEN n ELSE Len(of)
      /\ Related!ToSet(more) \subseteq Related!ToSet(of)
      /\ ~(n < Len(of)) => more = of
    BY <1>2, <1>3, <1>4, TheFirst DEF Related!Missing
<1>6. Self \notin Related!ToSet(more) /\ Related!ToSet(found) \cap Related!ToSet(more) = {}
    BY <1>3, <1>5 DEF Related!Seen
<1>7. /\ Distinct(found \o more) /\ Len(found \o more) = Len(found) + Len(more)
      /\ Related!ToSet(found \o more) = Related!ToSet(found) \cup Related!ToSet(more)
    BY <1>1, <1>5, <1>6, OneAfterAnother
<1>8. PICK a \in Nat, b \in Nat, c \in Nat : a = Len(found) /\ b = Len(more) /\ c = Len(of)
    BY <1>1, <1>3, <1>5, LenProperties
<1>9. Len(found \o more) <= Limit
    BY <1>4, <1>5, <1>7, <1>8, RelatedNumbers
<1>10. ASSUME Len(found \o more) < Limit
       PROVE  (listed \ {Self}) \cap Related!ToSet(order) \subseteq Related!ToSet(found \o more)
    <2>1. ~(n < c)
        BY <1>4, <1>5, <1>7, <1>8, <1>10, RelatedNumbers
    <2>2. more = of
        BY <1>5, <1>8, <2>1
    <2> QED
        BY <1>3, <1>7, <2>2 DEF Related!Seen
<1> QED
    BY <1>1, <1>6, <1>7, <1>9, <1>10 DEF Fits

\* When nothing changes, it goes on with the list that would be best.
LEMMA QueryGoesOn ==
    ASSUME RelatedInv, NEW order, Distinct(order), NEW s \in Seq(Pages),
           found = Related!Upto(Limit, s),
           NEW t, t = Related!Of(order, listed \ ({Self} \cup Related!ToSet(s)))
    PROVE  found \o Related!Missing(order) = Related!Upto(Limit, s \o t)
<1>1. PICK more : more = Related!Of(order, listed \ Related!Seen)
    OBVIOUS
<1>2. more \in Seq(Pages) /\ t \in Seq(Pages)
    BY <1>1, PickedAll
<1>3. Len(s) <= Limit => found = s
    <2>1. Len(s) \in Nat
        BY LenProperties
    <2>2. Len(s) <= Limit => ~(Limit < Len(s))
        BY <2>1, RelatedNumbers
    <2> QED
        BY <2>2, RelatedNumbers, TheFirst
<1>4. Len(s) <= Limit => more = t
    BY <1>1, <1>3 DEF Related!Seen
<1>5. found \o Related!Upto(Limit - Len(found), more) = Related!Upto(Limit, s \o t)
    <2>1. FillsUp(Limit, s, t, more)
        BY <1>2, <1>4, RelatedNumbers, FilledUp
    <2> QED
        BY <2>1 DEF FillsUp
<1> QED
    BY <1>1, <1>5 DEF Related!Missing

\* The parts of the best list.
LEMMA BestParts ==
    ASSUME RelatedInv
    PROVE  /\ Nearest \in Seq(Pages) /\ Sharing \in Seq(Pages) /\ Nearest \o Sharing \in Seq(Pages)
           /\ Others = Related!Of(Latest, listed \ ({Self} \cup Related!ToSet(Nearest \o Sharing)))
<1>1. Nearest \in Seq(Pages) /\ Sharing \in Seq(Pages)
    BY PickedAll, EmptyList DEF RelatedInv, Nearest, Sharing
<1>2. /\ Nearest \o Sharing \in Seq(Pages)
      /\ Related!ToSet(Nearest \o Sharing) = Related!ToSet(Nearest) \cup Related!ToSet(Sharing)
    BY <1>1, OneAfterAnother
<1>3. {Self} \cup Related!ToSet(Nearest \o Sharing)
          = {Self} \cup Related!ToSet(Nearest) \cup Related!ToSet(Sharing)
    BY <1>2
<1> QED
    BY <1>1, <1>2, <1>3 DEF Others

LEMMA RelatedVectors == RelatedInv /\ Related!Vectors => RelatedInv'
<1> SUFFICES ASSUME RelatedInv, Related!Vectors PROVE RelatedInv'
    OBVIOUS
<1>1. /\ step = "vectors" /\ step' = "fetch"
      /\ ids' = Related!Upto(Limit, Related!Of(near, listed \ {Self}))
      /\ UNCHANGED <<listed, near, shared, found, always, calm>>
    BY DEF Related!Vectors, Related!data
<1>2. PICK of \in Seq(Pages) :
          /\ of = Related!Of(near, listed \ {Self}) /\ Distinct(of)
          /\ Related!ToSet(of) = Related!ToSet(near) \cap (listed \ {Self})
    BY PickedAll DEF RelatedInv
<1>3. Fits(ids')
    <2>1. PICK s : s = ids' /\ s = Related!Upto(Limit, of)
        BY <1>1, <1>2
    <2>2. Distinct(s) /\ Related!ToSet(s) \subseteq Related!ToSet(of)
        <3>1. /\ Distinct(Related!Upto(Limit, of))
              /\ Related!ToSet(Related!Upto(Limit, of)) \subseteq Related!ToSet(of)
            BY <1>2, RelatedNumbers, TheFirst
        <3> QED
            BY <2>1, <3>1
    <2>3. Len(s) = IF Limit < Len(of) THEN Limit ELSE Len(of)
        BY <1>2, <2>1, RelatedNumbers, TheFirst
    <2>4. Len(s) <= Limit
        BY <1>2, <2>3, RelatedNumbers, LenProperties
    <2>5. Fits(s)
        BY <1>2, <2>2, <2>4 DEF Fits
    <2> QED
        BY <2>1, <2>5
<1>4. BestSoFar' /\ Reached'
    BY <1>1 DEF BestSoFar, Reached
<1> QED
    BY <1>1, <1>3, <1>4 DEF RelatedInv, Fits

LEMMA RelatedFetch == RelatedInv /\ Related!Fetch => RelatedInv'
<1> SUFFICES ASSUME RelatedInv, Related!Fetch PROVE RelatedInv'
    OBVIOUS
<1>1. /\ step = "fetch" /\ step' = "sources" /\ found' = Related!Of(ids, listed)
      /\ UNCHANGED <<listed, near, shared, ids, always, calm>>
    BY DEF Related!Fetch, Related!data
<1>2. /\ Distinct(ids) /\ ids \in Seq(Pages) /\ Self \notin Related!ToSet(ids) /\ Len(ids) <= Limit
    BY DEF RelatedInv, Fits, Distinct
<1>3. Fits(Related!Of(ids, listed))
    <2>1. PICK s : s = Related!Of(ids, listed)
        OBVIOUS
    <2>2. /\ Distinct(s) /\ s \in Seq(Pages) /\ Len(s) <= Len(ids)
          /\ Related!ToSet(s) = Related!ToSet(ids) \cap listed
        BY <1>2, <2>1, PickedAll
    <2>3. Len(s) <= Limit
        <3>1. Len(s) \in Nat /\ Len(ids) \in Nat
            BY <1>2, <2>2, LenProperties
        <3> QED
            BY <1>2, <2>2, <3>1, RelatedNumbers
    <2> QED
        BY <1>2, <2>1, <2>2, <2>3 DEF Fits
<1>4. ASSUME calm PROVE Related!Of(ids, listed) = Related!Upto(Limit, Nearest)
    <2>1. PICK of \in Seq(Pages) :
              /\ of = Related!Of(near, listed \ {Self})
              /\ Related!ToSet(of) = Related!ToSet(near) \cap (listed \ {Self})
        BY PickedAll DEF RelatedInv
    <2>2. ids = Related!Upto(Limit, of)
        BY <1>1, <1>4, <2>1 DEF RelatedInv, BestSoFar
    <2>3. Related!ToSet(ids) \subseteq listed
        <3>1. Related!ToSet(ids) \subseteq Related!ToSet(of)
            BY <2>2, RelatedNumbers, TheFirst
        <3> QED
            BY <2>1, <3>1
    <2>4. Related!Of(ids, listed) = ids
        BY <1>2, <2>3, PickedWhole
    <2>5. CASE ids # <<>>
        BY <2>1, <2>2, <2>4, <2>5 DEF Nearest
    <2>6. CASE ids = <<>>
        <3>1. Nearest = ids
            BY <2>6 DEF Nearest
        <3>2. ~(Limit < Len(ids))
            BY <2>6, EmptyList, RelatedNumbers
        <3>3. Related!Upto(Limit, ids) = ids
            BY <1>2, <3>2, RelatedNumbers, TheFirst
        <3> QED
            BY <2>4, <3>1, <3>3
    <2> QED
        BY <2>5, <2>6
<1>5. Nearest' = Nearest
    BY <1>1 DEF Nearest
<1>6. calm' => BestSoFar'
    BY <1>1, <1>4, <1>5 DEF BestSoFar
<1> QED
    BY <1>1, <1>3, <1>6 DEF RelatedInv, Reached, Fits

LEMMA RelatedSources == RelatedInv /\ Related!Sources => RelatedInv'
<1> SUFFICES ASSUME RelatedInv, Related!Sources PROVE RelatedInv'
    OBVIOUS
<1>1. /\ step = "sources" /\ step' = "latest" /\ found' = found \o Related!Missing(shared)
      /\ UNCHANGED <<listed, near, shared, ids, always, calm>>
    BY DEF Related!Sources, Related!data
<1>2. Fits(found \o Related!Missing(shared))
    BY QueryAdds DEF RelatedInv
<1>3. ASSUME calm PROVE found \o Related!Missing(shared) = Related!Upto(Limit, Nearest \o Sharing)
    <2>1. PICK s \in Seq(Pages) : s = Nearest
        BY BestParts
    <2>2. found = Related!Upto(Limit, s) /\ Distinct(shared)
        BY <1>1, <1>3, <2>1 DEF RelatedInv, BestSoFar
    <2>3. Sharing = Related!Of(shared, listed \ ({Self} \cup Related!ToSet(s)))
        BY <2>1 DEF Sharing
    <2>4. found \o Related!Missing(shared) = Related!Upto(Limit, s \o Sharing)
        BY <2>2, <2>3, QueryGoesOn
    <2> QED
        BY <2>1, <2>4
<1>4. Nearest' = Nearest /\ Sharing' = Sharing
    BY <1>1 DEF Nearest, Sharing
<1>5. calm' => BestSoFar'
    BY <1>1, <1>3, <1>4 DEF BestSoFar
<1> QED
    BY <1>1, <1>2, <1>5 DEF RelatedInv, Reached, Fits

LEMMA RelatedFallback == RelatedInv /\ Related!Fallback => RelatedInv'
<1> SUFFICES ASSUME RelatedInv, Related!Fallback PROVE RelatedInv'
    OBVIOUS
<1>1. /\ step = "latest" /\ step' = "done" /\ found' = found \o Related!Missing(Latest)
      /\ UNCHANGED <<listed, near, shared, ids, always, calm>>
    BY DEF Related!Fallback, Related!data
<1>2. PICK result : result = found \o Related!Missing(Latest)
    OBVIOUS
<1>3. Distinct(Latest) /\ Related!ToSet(Latest) = Pages
    BY RelatedNumbers
<1>4. Fits(result) /\ (Len(result) < Limit => listed \ {Self} \subseteq Related!ToSet(result))
    <2>1. (listed \ {Self}) \cap Pages = listed \ {Self}
        BY DEF RelatedInv
    <2> QED
        BY <1>2, <1>3, <2>1, QueryAdds
<1>5. ASSUME calm PROVE result = Related!Upto(Limit, Nearest \o Sharing \o Others)
    <2>1. PICK s \in Seq(Pages) : s = Nearest \o Sharing
        BY BestParts
    <2>2. found = Related!Upto(Limit, s)
        BY <1>1, <1>5, <2>1 DEF RelatedInv, BestSoFar
    <2>3. Others = Related!Of(Latest, listed \ ({Self} \cup Related!ToSet(s)))
        BY <2>1, BestParts
    <2>4. result = Related!Upto(Limit, s \o Others)
        BY <1>2, <1>3, <2>2, <2>3, QueryGoesOn
    <2> QED
        BY <2>1, <2>4
<1>6. Nearest' = Nearest /\ Sharing' = Sharing
    BY <1>1 DEF Nearest, Sharing
<1>7. Others' = Others
    BY <1>1, <1>6 DEF Others
<1>8. calm' => BestSoFar'
    BY <1>1, <1>2, <1>5, <1>6, <1>7 DEF BestSoFar
<1>9. Reached'
    BY <1>1, <1>2, <1>4 DEF RelatedInv, Reached
<1> QED
    BY <1>1, <1>2, <1>4, <1>8, <1>9 DEF RelatedInv, Fits

LEMMA RelatedModerate == RelatedInv /\ Related!Moderate => RelatedInv'
<1> SUFFICES ASSUME RelatedInv, Related!Moderate PROVE RelatedInv'
    OBVIOUS
<1>1. PICK item \in Pages \ {Self} :
          /\ step # "done"
          /\ listed' = IF item \in listed THEN listed \ {item} ELSE listed \cup {item}
          /\ always' = always \cap listed' /\ calm' = FALSE
          /\ UNCHANGED <<near, shared, ids, found, step>>
    BY DEF Related!Moderate, Related!data
<1>2. listed' \subseteq Pages /\ always' \subseteq listed'
    BY <1>1 DEF RelatedInv
<1> QED
    BY <1>1, <1>2 DEF RelatedInv, Reached, Fits

LEMMA RelatedStep == RelatedInv /\ [Related!Next]_(Related!vars) => RelatedInv'
<1> SUFFICES ASSUME RelatedInv, [Related!Next]_(Related!vars) PROVE RelatedInv'
    OBVIOUS
<1>1. CASE UNCHANGED Related!vars
    <2>1. UNCHANGED <<listed, near, shared, ids, found, step, always, calm>>
        BY <1>1 DEF Related!vars, Related!data
    <2>2. UNCHANGED <<Nearest, Sharing>>
        BY <2>1 DEF Nearest, Sharing
    <2>3. Others' = Others
        BY <2>1, <2>2 DEF Others
    <2> QED
        BY <2>1, <2>2, <2>3 DEF RelatedInv, Fits, BestSoFar, Reached
<1>2. CASE Related!Next
    BY <1>2, RelatedVectors, RelatedFetch, RelatedSources, RelatedFallback, RelatedModerate
       DEF Related!Next
<1> QED
    BY <1>1, <1>2

\* The list of a request that nothing disturbed is the best; every list is sound.
LEMMA RelatedRight == RelatedInv => Related!ListsBest /\ Related!ListIsSound
<1> SUFFICES ASSUME RelatedInv PROVE Related!ListsBest /\ Related!ListIsSound
    OBVIOUS
<1>1. Related!Best(ids # <<>>) = Related!Upto(Limit, Nearest \o Sharing \o Others)
    BY DEF Related!Best, Nearest, Sharing, Others
<1>2. Related!ListsBest
    BY <1>1 DEF Related!ListsBest, RelatedInv, BestSoFar
<1>3. Related!IsInjective(found)
    BY MembersOf DEF RelatedInv, Fits, Distinct
<1> QED
    BY <1>2, <1>3 DEF Related!ListIsSound, RelatedInv, Fits, Reached

-----------------------------------------------------------------------------
(* Who is told of a comment                                                *)

\* The notifications sent of a comment, and those it asks for.
Told(c) == {one \in told : one.id = c}
Asked(c) == {[id |-> c, user |-> one[1], type |-> one[2]] : one \in Threads!Recipients(comment[c])}

Telling(r, c) == request[r].step = "notify" /\ request[r].id = c

\* Whom a request will tell is still right when it does: parents stay where they are.
RequestTells(r) ==
    /\ request[r].step = "save" =>
          /\ request[r].row \in Threads!Comment
          /\ request[r].row.parent # None => request[r].row.parent \in Threads!Ids
    /\ request[r].step = "notify" =>
          /\ request[r].id \in Threads!Ids
          /\ request[r].recipients = Threads!Recipients(comment[request[r].id])

\* A parent was there before its reply.
ParentKnown(c) == comment[c].parent # None => comment[c].parent \in Threads!Ids

\* Of each comment one request tells, and nobody has been told before it does.
OneTells(r, s) == request[r].step = "notify" /\ Telling(s, request[r].id) => r = s
ToldOnce(c) == IF \E r \in Requests : Telling(r, c) THEN Told(c) = {} ELSE Told(c) = Asked(c)

ThreadsInv ==
    /\ Threads!TypeOK
    /\ \A c \in Threads!Ids : ParentKnown(c) /\ ToldOnce(c)
    /\ \A r \in Requests : RequestTells(r)
    /\ \A r, s \in Requests : OneTells(r, s)

LEMMA ThreadsNumbers ==
    /\ Author \in [Posts -> Users] /\ MaxComments \in Nat
    /\ None \notin Users /\ None \notin Posts /\ None \notin Nat
BY PartsAssumption DEF Threads!ThreadsAssumption

LEMMA ThreadsTypes ==
    ASSUME ThreadsInv
    PROVE  /\ comment \in Seq(Threads!Comment) /\ Len(comment) \in Nat /\ Len(comment) <= MaxComments
           /\ request \in [Requests -> Threads!Request]
           /\ told \subseteq [id : Threads!Ids, user : Users, type : Threads!Types]
           /\ Threads!Ids = 1..Len(comment)
           /\ \A c \in Threads!Ids :
                 /\ c \in 1..MaxComments /\ c \in Nat /\ c # None
                 /\ comment[c] \in Threads!Comment
                 /\ comment[c].parent \in 1..MaxComments \cup {None}
                 /\ comment[c].author \in Users /\ comment[c].post \in Posts
<1>1. /\ comment \in Seq(Threads!Comment) /\ Len(comment) <= MaxComments
      /\ request \in [Requests -> Threads!Request]
      /\ told \subseteq [id : Threads!Ids, user : Users, type : Threads!Types]
    BY DEF ThreadsInv, Threads!TypeOK
<1>2. Len(comment) \in Nat /\ Threads!Ids = 1..Len(comment)
    BY <1>1, LenProperties DEF Threads!Ids
<1>3. ASSUME NEW c \in Threads!Ids
      PROVE  /\ c \in 1..MaxComments /\ c \in Nat /\ c # None
             /\ comment[c] \in Threads!Comment
    BY <1>1, <1>2, ElementOfSeq, ThreadsNumbers
<1>4. \A one \in Threads!Comment :
          /\ one.parent \in 1..MaxComments \cup {None}
          /\ one.author \in Users /\ one.post \in Posts
    BY DEF Threads!Comment
<1> QED
    BY <1>1, <1>2, <1>3, <1>4

LEMMA ThreadsIdle ==
    /\ Threads!Idle \in Threads!Request /\ Threads!Idle.step = "idle"
BY DEF Threads!Idle, Threads!Request

LEMMA ThreadsInit == Threads!Init => ThreadsInv
<1> SUFFICES ASSUME Threads!Init PROVE ThreadsInv
    OBVIOUS
<1>1. comment = <<>> /\ told = {} /\ request = [r \in Requests |-> Threads!Idle]
    BY DEF Threads!Init
<1>2. comment \in Seq(Threads!Comment) /\ Len(comment) = 0 /\ Threads!Ids = {}
    BY <1>1 DEF Threads!Ids
<1>3. Threads!TypeOK
    BY <1>1, <1>2, ThreadsIdle, ThreadsNumbers DEF Threads!TypeOK
<1> QED
    BY <1>1, <1>2, <1>3, ThreadsIdle DEF ThreadsInv, RequestTells, OneTells, Telling

\* Comments stay what they are, but for the mark of a deleted one.
Stay == /\ Threads!Ids \subseteq Threads!Ids'
        /\ \A c \in Threads!Ids : /\ comment'[c].post = comment[c].post
                                  /\ comment'[c].parent = comment[c].parent
                                  /\ comment'[c].author = comment[c].author

LEMMA AskedStays ==
    ASSUME ThreadsInv, Stay, NEW c \in Threads!Ids
    PROVE  /\ Threads!Recipients(comment[c])' = Threads!Recipients(comment[c])
           /\ Asked(c)' = Asked(c) /\ ParentKnown(c)'
<1>1. /\ comment'[c].post = comment[c].post /\ comment'[c].parent = comment[c].parent
      /\ comment'[c].author = comment[c].author
      /\ comment[c].parent # None => /\ comment[c].parent \in Threads!Ids
                                     /\ comment'[comment[c].parent].author = comment[comment[c].parent].author
    BY DEF Stay, ThreadsInv, ParentKnown
<1>2. Threads!Recipients(comment[c])' = Threads!Recipients(comment[c])
    BY <1>1 DEF Threads!Recipients
<1>3. ParentKnown(c)'
    BY <1>1 DEF ParentKnown, Stay
<1> QED
    BY <1>2, <1>3 DEF Asked

\* A request goes on, and neither it nor the step tells anybody.
LEMMA ThreadsRequestStep ==
    ASSUME ThreadsInv, NEW r \in Requests, UNCHANGED <<comment, told>>,
           request' = [request EXCEPT ![r] = request'[r]], request'[r] \in Threads!Request,
           request[r].step # "notify", request'[r].step # "notify", RequestTells(r)'
    PROVE  ThreadsInv'
<1>1. \A s \in Requests : s # r => request'[s] = request[s]
    BY ThreadsTypes
<1>2. Threads!TypeOK'
    BY ThreadsTypes DEF ThreadsInv, Threads!TypeOK, Threads!Ids
<1>3. Threads!Ids' = Threads!Ids
    BY DEF Threads!Ids
<1>4. Stay
    BY <1>3 DEF Stay
<1>5. \A s \in Requests : \A c : Telling(s, c)' <=> Telling(s, c)
    BY <1>1 DEF Telling
<1>6. ASSUME NEW c \in Threads!Ids PROVE ParentKnown(c)' /\ ToldOnce(c)'
    <2>1. Told(c)' = Told(c)
        BY DEF Told
    <2> QED
        BY <1>4, <1>5, <2>1, AskedStays DEF ThreadsInv, ToldOnce
<1>7. ASSUME NEW s \in Requests PROVE RequestTells(s)'
    <2>1. CASE s # r
        <3>1. request'[s] = request[s] /\ RequestTells(s)
            BY <1>1, <2>1 DEF ThreadsInv
        <3>2. request[s].step = "notify" =>
                  Threads!Recipients(comment[request[s].id])' = Threads!Recipients(comment[request[s].id])
            BY <1>4, <3>1, AskedStays DEF RequestTells
        <3> QED
            BY <1>3, <3>1, <3>2 DEF RequestTells
    <2> QED
        BY <2>1
<1>8. ASSUME NEW s \in Requests, NEW t \in Requests PROVE OneTells(s, t)'
    BY <1>1, <1>5 DEF ThreadsInv, OneTells, Telling
<1> QED
    BY <1>2, <1>3, <1>6, <1>7, <1>8 DEF ThreadsInv

LEMMA ThreadsReadStep ==
    ASSUME ThreadsInv, NEW r \in Requests, Threads!CreateRead(r) \/ Threads!EditRead(r) \/ Threads!EditSave(r)
    PROVE  ThreadsInv'
<1>0. request \in [Requests -> Threads!Request] /\ UNCHANGED <<comment, told>>
    BY ThreadsTypes DEF Threads!CreateRead, Threads!EditRead, Threads!EditSave
<1>1. CASE Threads!CreateRead(r)
    <2>1. PICK p \in Posts, u \in Users, parent \in Threads!Ids \cup {None} :
            /\ request[r].step = "idle"
            /\ request' = [request EXCEPT ![r] = [Threads!Idle EXCEPT
                   !.step = "save",
                   !.row = [post |-> p, parent |-> parent, author |-> u, deleted |-> FALSE]]]
        <3>1. \A p \in Posts : Threads!Parents(p) \subseteq Threads!Ids \cup {None}
            BY DEF Threads!Parents, Threads!In
        <3> QED
            BY <1>1, <3>1 DEF Threads!CreateRead
    <2> DEFINE new == [post |-> p, parent |-> parent, author |-> u, deleted |-> FALSE]
               q == [Threads!Idle EXCEPT !.step = "save", !.row = new]
    <2>2. new \in Threads!Comment /\ new.parent = parent
        BY ThreadsTypes DEF Threads!Comment
    <2>3. request' = [request EXCEPT ![r] = q]
        BY <2>1
    <2> HIDE DEF new
    <2>4. q \in Threads!Request /\ q.step = "save" /\ q.row = new
        BY <2>2 DEF Threads!Idle, Threads!Request
    <2> HIDE DEF q
    <2>5. request'[r] = q /\ request' = [request EXCEPT ![r] = request'[r]]
        BY <1>0, <2>3
    <2>6. RequestTells(r)'
        BY <1>0, <2>2, <2>4, <2>5 DEF RequestTells, Threads!Ids
    <2> QED
        BY <1>0, <2>1, <2>4, <2>5, <2>6, ThreadsRequestStep
<1>2. CASE Threads!EditRead(r)
    <2>1. PICK c \in Threads!Ids :
            /\ request[r].step = "idle"
            /\ request' = [request EXCEPT ![r] = [Threads!Idle EXCEPT !.step = "edit", !.id = c]]
        BY <1>2 DEF Threads!EditRead
    <2> DEFINE q == [Threads!Idle EXCEPT !.step = "edit", !.id = c]
    <2>2. request' = [request EXCEPT ![r] = q]
        BY <2>1
    <2>3. q \in Threads!Request /\ q.step = "edit"
        BY ThreadsTypes DEF Threads!Idle, Threads!Request
    <2> HIDE DEF q
    <2>4. request'[r] = q /\ request' = [request EXCEPT ![r] = request'[r]]
        BY <1>0, <2>2
    <2> QED
        BY <1>0, <2>1, <2>3, <2>4, ThreadsRequestStep DEF RequestTells
<1>3. CASE Threads!EditSave(r)
    <2>1. /\ request[r].step = "edit" /\ request'[r] = Threads!Idle
          /\ request' = [request EXCEPT ![r] = request'[r]]
        BY <1>0, <1>3 DEF Threads!EditSave, Threads!End
    <2> QED
        BY <1>0, <2>1, ThreadsIdle, ThreadsRequestStep DEF RequestTells
<1> QED
    BY <1>1, <1>2, <1>3

LEMMA ThreadsSaveStep ==
    ASSUME ThreadsInv, NEW r \in Requests, Threads!CreateSave(r)
    PROVE  ThreadsInv'
<1>n. PICK n : n = Len(comment) + 1
    OBVIOUS
<1>r. PICK new : new = request[r].row
    OBVIOUS
<1>0. /\ request \in [Requests -> Threads!Request] /\ request[r].step = "save" /\ told' = told
      /\ comment \in Seq(Threads!Comment) /\ new \in Threads!Comment
      /\ new.parent # None => new.parent \in Threads!Ids
      /\ comment' = Append(comment, new) /\ Len(comment) < MaxComments
      /\ Len(comment) \in Nat /\ Threads!Ids = 1..Len(comment)
    BY <1>r, ThreadsTypes DEF ThreadsInv, RequestTells, Threads!CreateSave
<1>1. /\ comment' \in Seq(Threads!Comment) /\ Len(comment') = n /\ comment'[n] = new
      /\ \A c \in Threads!Ids : comment'[c] = comment[c]
    BY <1>0, <1>n, AppendProperties
<1>2. /\ Threads!Ids' = Threads!Ids \cup {n} /\ n \notin Threads!Ids /\ n \in 1..MaxComments
    BY <1>0, <1>1, <1>n, ThreadsNumbers DEF Threads!Ids
<1>3. Stay
    BY <1>1, <1>2 DEF Stay
<1> DEFINE q == request'[r]
<1>4. /\ q = [request[r] EXCEPT !.step = "notify", !.id = n, !.recipients = Threads!Recipients(new)]
      /\ request' = [request EXCEPT ![r] = q]
    BY <1>0, <1>1, <1>r DEF Threads!CreateSave
<1>5. Threads!Recipients(new) \in SUBSET (Users \X Threads!Types)
    <2>1. new.author \in Users /\ new.post \in Posts /\ Author[new.post] \in Users
        BY <1>0, ThreadsNumbers DEF Threads!Comment
    <2>2. new.parent # None => comment[new.parent].author \in Users
        BY <1>0, ThreadsTypes
    <2> QED
        BY <2>1, <2>2 DEF Threads!Recipients, Threads!Types
<1>6. /\ q \in Threads!Request /\ q.step = "notify" /\ q.id = n
      /\ q.recipients = Threads!Recipients(new)
    BY <1>0, <1>2, <1>4, <1>5 DEF Threads!Request
<1>7. \A s \in Requests : s # r => request'[s] = request[s]
    BY <1>0, <1>4
<1>8. Threads!Recipients(comment[n])' = Threads!Recipients(new)
    <2>1. new.parent # None => comment'[new.parent] = comment[new.parent]
        BY <1>0, <1>1
    <2> QED
        BY <1>1, <2>1 DEF Threads!Recipients
<1>9. request' \in [Requests -> Threads!Request]
    BY <1>0, <1>4, <1>6
<1>10. Threads!TypeOK'
    <2>1. Len(comment') <= MaxComments
        BY <1>1, <1>2, ThreadsNumbers
    <2>2. told' \subseteq [id : Threads!Ids', user : Users, type : Threads!Types]
        BY <1>0, <1>2, ThreadsTypes
    <2> QED
        BY <1>1, <1>9, <2>1, <2>2 DEF Threads!TypeOK
<1>11. \A s \in Requests : ~Telling(s, n) /\ Told(n) = {}
    BY <1>2, ThreadsTypes DEF ThreadsInv, RequestTells, Telling, Told
<1>12. \A s \in Requests : \A c \in Threads!Ids : Telling(s, c)' <=> Telling(s, c)
    BY <1>0, <1>2, <1>6, <1>7 DEF Telling
<1>13. ASSUME NEW c \in Threads!Ids PROVE ParentKnown(c)' /\ ToldOnce(c)'
    <2>1. Told(c)' = Told(c)
        BY <1>0 DEF Told
    <2> QED
        BY <1>3, <1>12, <2>1, AskedStays DEF ThreadsInv, ToldOnce
<1>14. ParentKnown(n)' /\ ToldOnce(n)'
    <2>1. Told(n)' = {} /\ Telling(r, n)'
        BY <1>0, <1>6, <1>11 DEF Told, Telling
    <2>2. ParentKnown(n)'
        BY <1>0, <1>1, <1>2 DEF ParentKnown
    <2> QED
        BY <2>1, <2>2 DEF ToldOnce
<1>15. ASSUME NEW s \in Requests PROVE RequestTells(s)'
    <2>1. CASE s # r
        <3>1. request'[s] = request[s] /\ RequestTells(s)
            BY <1>7, <2>1 DEF ThreadsInv
        <3>2. request[s].step = "notify" =>
                  Threads!Recipients(comment[request[s].id])' = Threads!Recipients(comment[request[s].id])
            BY <1>3, <3>1, AskedStays DEF RequestTells
        <3> QED
            BY <1>2, <3>1, <3>2 DEF RequestTells
    <2>2. CASE s = r
        BY <1>2, <1>6, <1>8, <2>2 DEF RequestTells
    <2> QED
        BY <2>1, <2>2
<1>16. ASSUME NEW s \in Requests, NEW t \in Requests PROVE OneTells(s, t)'
    <2>1. OneTells(s, t) /\ RequestTells(s) /\ RequestTells(t)
        BY DEF ThreadsInv
    <2> QED
        BY <1>2, <1>6, <1>7, <2>1 DEF OneTells, Telling, RequestTells
<1> QED
    BY <1>2, <1>10, <1>13, <1>14, <1>15, <1>16 DEF ThreadsInv

LEMMA ThreadsNotifyStep ==
    ASSUME ThreadsInv, NEW r \in Requests, Threads!Notify(r)
    PROVE  ThreadsInv'
<1>n. PICK n : n = request[r].id
    OBVIOUS
<1> DEFINE sent == {[id |-> n, user |-> one[1], type |-> one[2]] : one \in request[r].recipients}
<1>0. /\ request \in [Requests -> Threads!Request] /\ request[r].step = "notify"
      /\ n \in Threads!Ids /\ request[r].recipients = Threads!Recipients(comment[n])
      /\ told' = told \cup sent /\ UNCHANGED comment
      /\ request' = [request EXCEPT ![r] = Threads!Idle]
    BY <1>n, ThreadsTypes DEF ThreadsInv, RequestTells, Threads!Notify, Threads!End
<1>1. sent \subseteq [id : Threads!Ids, user : Users, type : Threads!Types]
    <2>1. request[r].recipients \subseteq Users \X Threads!Types
        BY <1>0 DEF Threads!Request, Threads!Types
    <2> QED
        BY <1>0, <2>1
<1>2. sent = Asked(n) /\ \A one \in sent : one.id = n
    BY <1>0 DEF Asked
<1> HIDE DEF sent
<1>3. /\ request'[r].step = "idle" /\ request' \in [Requests -> Threads!Request]
      /\ \A s \in Requests : s # r => request'[s] = request[s]
    BY <1>0, ThreadsIdle
<1>4. Threads!Ids' = Threads!Ids /\ Stay
    BY <1>0 DEF Threads!Ids, Stay
<1>5. Threads!TypeOK'
    BY <1>0, <1>1, <1>3, <1>4, ThreadsTypes DEF Threads!TypeOK
<1>6. /\ \A s \in Requests : \A c : c # n => (Telling(s, c)' <=> Telling(s, c))
      /\ \A s \in Requests : ~Telling(s, n)'
    <2>1. \A s \in Requests : Telling(s, n) => s = r
        BY <1>0, <1>n DEF ThreadsInv, OneTells
    <2> QED
        BY <1>0, <1>3, <1>n, <2>1 DEF Telling
<1>7. ASSUME NEW c \in Threads!Ids PROVE ParentKnown(c)' /\ ToldOnce(c)'
    <2>1. Asked(c)' = Asked(c) /\ ParentKnown(c)' /\ ToldOnce(c)
        BY <1>4, AskedStays DEF ThreadsInv
    <2>2. CASE c # n
        <3>1. Told(c)' = Told(c)
            BY <1>0, <1>2, <2>2 DEF Told
        <3> QED
            BY <1>6, <2>1, <2>2, <3>1 DEF ToldOnce
    <2>3. CASE c = n
        <3>1. Told(n) = {}
            BY <1>0, <1>n, <2>1, <2>3 DEF ToldOnce, Telling
        <3>2. Told(c)' = Asked(c)
            BY <1>0, <1>2, <2>3, <3>1 DEF Told
        <3> QED
            BY <1>6, <2>1, <2>3, <3>2 DEF ToldOnce
    <2> QED
        BY <2>2, <2>3
<1>8. ASSUME NEW s \in Requests PROVE RequestTells(s)'
    <2>1. CASE s # r
        <3>1. request'[s] = request[s] /\ RequestTells(s)
            BY <1>3, <2>1 DEF ThreadsInv
        <3>2. request[s].step = "notify" =>
                  Threads!Recipients(comment[request[s].id])' = Threads!Recipients(comment[request[s].id])
            BY <1>4, <3>1, AskedStays DEF RequestTells
        <3> QED
            BY <1>4, <3>1, <3>2 DEF RequestTells
    <2> QED
        BY <1>3, <2>1 DEF RequestTells
<1>9. ASSUME NEW s \in Requests, NEW t \in Requests PROVE OneTells(s, t)'
    <2>1. OneTells(s, t)
        BY DEF ThreadsInv
    <2> QED
        BY <1>3, <2>1 DEF OneTells, Telling
<1> QED
    BY <1>4, <1>5, <1>7, <1>8, <1>9 DEF ThreadsInv

LEMMA ThreadsDeleteStep ==
    ASSUME ThreadsInv, Threads!SoftDelete
    PROVE  ThreadsInv'
<1>0. PICK k \in Threads!Ids : comment' = [comment EXCEPT ![k].deleted = TRUE]
    BY DEF Threads!SoftDelete
<1>1. UNCHANGED <<request, told>>
    BY DEF Threads!SoftDelete
<1> DEFINE changed == [comment[k] EXCEPT !.deleted = TRUE]
<1>2. comment[k] \in Threads!Comment /\ Threads!Ids = 1..Len(comment) /\ comment \in Seq(Threads!Comment)
    BY ThreadsTypes
<1>3. changed \in Threads!Comment /\ comment' = [comment EXCEPT ![k] = changed]
      /\ changed.post = comment[k].post /\ changed.parent = comment[k].parent /\ changed.author = comment[k].author
    BY <1>0, <1>2 DEF Threads!Comment
<1> HIDE DEF changed
<1>4. /\ comment' \in Seq(Threads!Comment) /\ Len(comment') = Len(comment)
      /\ \A c \in Threads!Ids : comment'[c] = IF c = k THEN changed ELSE comment[c]
    BY <1>2, <1>3, ExceptSeq
<1>5. Threads!Ids' = Threads!Ids /\ Stay
    BY <1>3, <1>4 DEF Threads!Ids, Stay
<1>6. Threads!TypeOK'
    BY <1>1, <1>4, <1>5, ThreadsTypes DEF Threads!TypeOK
<1>7. ASSUME NEW c \in Threads!Ids PROVE ParentKnown(c)' /\ ToldOnce(c)'
    <2>1. Told(c)' = Told(c) /\ \A s \in Requests : Telling(s, c)' <=> Telling(s, c)
        BY <1>1 DEF Told, Telling
    <2> QED
        BY <1>5, <2>1, AskedStays DEF ThreadsInv, ToldOnce
<1>8. ASSUME NEW s \in Requests PROVE RequestTells(s)'
    <2>1. request'[s] = request[s] /\ RequestTells(s)
        BY <1>1 DEF ThreadsInv
    <2>2. request[s].step = "notify" =>
              Threads!Recipients(comment[request[s].id])' = Threads!Recipients(comment[request[s].id])
        BY <1>5, <2>1, AskedStays DEF RequestTells
    <2> QED
        BY <1>1, <1>5, <2>1, <2>2 DEF RequestTells
<1>9. ASSUME NEW s \in Requests, NEW t \in Requests PROVE OneTells(s, t)'
    BY <1>1 DEF ThreadsInv, OneTells, Telling
<1> QED
    BY <1>5, <1>6, <1>7, <1>8, <1>9 DEF ThreadsInv

LEMMA ThreadsStep == ThreadsInv /\ [Threads!Next]_(Threads!vars) => ThreadsInv'
<1> SUFFICES ASSUME ThreadsInv, [Threads!Next]_(Threads!vars) PROVE ThreadsInv'
    OBVIOUS
<1>1. CASE UNCHANGED Threads!vars
    <2>1. UNCHANGED <<comment, request, told>>
        BY <1>1 DEF Threads!vars
    <2>2. Threads!TypeOK' /\ Threads!Ids' = Threads!Ids
        BY <2>1 DEF ThreadsInv, Threads!TypeOK, Threads!Ids
    <2>3. \A c \in Threads!Ids : ParentKnown(c)' /\ ToldOnce(c)'
        BY <2>1, <2>2 DEF ThreadsInv, ParentKnown, ToldOnce, Told, Asked, Threads!Recipients, Telling
    <2>4. \A r \in Requests : RequestTells(r)'
        BY <2>1, <2>2 DEF ThreadsInv, RequestTells, Threads!Recipients
    <2>5. \A r, s \in Requests : OneTells(r, s)'
        BY <2>1 DEF ThreadsInv, OneTells, Telling
    <2> QED
        BY <2>2, <2>3, <2>4, <2>5 DEF ThreadsInv
<1> QED
    BY <1>1, ThreadsReadStep, ThreadsSaveStep, ThreadsNotifyStep, ThreadsDeleteStep DEF Threads!Next

LEMMA ThreadsHear == ThreadsInv => Threads!EachHearsOnce
<1> SUFFICES ASSUME ThreadsInv, NEW c \in Threads!Ids
             PROVE  LET by == comment[c].author
                        concerned == {Author[comment[c].post]}
                                     \cup {comment[k].author : k \in {comment[c].parent} \ {None}}
                        sent == {one \in told : one.id = c}
                    IN /\ {one.user : one \in sent} \subseteq concerned \ {by}
                       /\ \A one, other \in sent : one.user = other.user => one = other
                       /\ (\A r \in Requests : request[r].step = "notify" => request[r].id # c)
                              => {one.user : one \in sent} = concerned \ {by}
    BY DEF Threads!EachHearsOnce
<1> DEFINE by == comment[c].author
           of == Author[comment[c].post]
           replied == IF comment[c].parent = None THEN {} ELSE {comment[comment[c].parent].author}
           concerned == {of} \cup {comment[k].author : k \in {comment[c].parent} \ {None}}
           sent == {one \in told : one.id = c}
           first == (replied \ {by}) \X {"COMMENT_REPLIED"}
           second == ({of} \ (replied \cup {by})) \X {"POST_COMMENTED"}
<1>1. concerned = {of} \cup replied
    OBVIOUS
<1>2. Asked(c) = {[id |-> c, user |-> one[1], type |-> one[2]] : one \in first \cup second}
    BY DEF Asked, Threads!Recipients
<1> HIDE DEF by, of, replied, concerned
<1>3. \A one \in Asked(c) :
          \/ one.user \in replied \ {by} /\ one = [id |-> c, user |-> one.user, type |-> "COMMENT_REPLIED"]
          \/ /\ one.user \in {of} \ (replied \cup {by})
             /\ one = [id |-> c, user |-> one.user, type |-> "POST_COMMENTED"]
    BY <1>2
<1>4. \A u \in concerned \ {by} : \E one \in Asked(c) : one.user = u
    <2> SUFFICES ASSUME NEW u \in concerned \ {by}
                 PROVE  \E one \in Asked(c) : one.user = u
        OBVIOUS
    <2>1. CASE u \in replied
        <3>1. <<u, "COMMENT_REPLIED">> \in first
            BY <2>1
        <3>2. [id |-> c, user |-> u, type |-> "COMMENT_REPLIED"] \in Asked(c)
            BY <1>2, <3>1
        <3> QED
            BY <3>2
    <2>2. CASE u \notin replied
        <3>1. <<u, "POST_COMMENTED">> \in second
            BY <1>1, <2>2
        <3>2. [id |-> c, user |-> u, type |-> "POST_COMMENTED"] \in Asked(c)
            BY <1>2, <3>1
        <3> QED
            BY <3>2
    <2> QED
        BY <2>1, <2>2
<1>5. sent = {} \/ sent = Asked(c)
    BY DEF ThreadsInv, ToldOnce, Told
<1>6. (\A r \in Requests : request[r].step = "notify" => request[r].id # c) => sent = Asked(c)
    BY DEF ThreadsInv, ToldOnce, Told, Telling
<1> HIDE DEF sent, first, second
<1>7. {one.user : one \in sent} \subseteq concerned \ {by}
    BY <1>1, <1>3, <1>5
<1>8. \A one, other \in sent : one.user = other.user => one = other
    BY <1>3, <1>5
<1>9. sent = Asked(c) => {one.user : one \in sent} = concerned \ {by}
    BY <1>4, <1>7
<1> QED
    BY <1>6, <1>7, <1>8, <1>9 DEF by, of, concerned, sent

-----------------------------------------------------------------------------
(* Comments in their threads                                                *)

\* A parent is older than its replies and of the same post.
ParentFits(c) == comment[c].parent # None =>
    comment[c].parent < c /\ comment[comment[c].parent].post = comment[c].post

\* A reply about to be made is of its parent's post.
ReplyFits(r) == request[r].step = "save" /\ request[r].row.parent # None =>
    comment[request[r].row.parent].post = request[r].row.post

ParentsInv == (\A c \in Threads!Ids : ParentFits(c)) /\ (\A r \in Requests : ReplyFits(r))

LEMMA ParentsInit == Threads!Init => ParentsInv
<1> SUFFICES ASSUME Threads!Init PROVE ParentsInv
    OBVIOUS
<1>1. comment = <<>> /\ request = [r \in Requests |-> Threads!Idle]
    BY DEF Threads!Init
<1>2. Threads!Ids = {}
    BY <1>1 DEF Threads!Ids
<1> QED
    BY <1>1, <1>2, ThreadsIdle DEF ParentsInv, ReplyFits

\* A parent stays what it is for the replies it has and those under way.
LEMMA ParentsStay ==
    ASSUME ThreadsInv, ParentsInv, Stay
    PROVE  /\ \A c \in Threads!Ids : ParentFits(c)'
           /\ \A r \in Requests : request'[r] = request[r] => ReplyFits(r)'
<1>1. ASSUME NEW c \in Threads!Ids PROVE ParentFits(c)'
    BY DEF ThreadsInv, ParentKnown, ParentsInv, ParentFits, Stay
<1>2. ASSUME NEW r \in Requests, request'[r] = request[r] PROVE ReplyFits(r)'
    BY <1>2 DEF ThreadsInv, RequestTells, ParentsInv, ReplyFits, Stay
<1> QED
    BY <1>1, <1>2

LEMMA ParentsReadStep ==
    ASSUME ThreadsInv, ParentsInv, NEW r \in Requests, Threads!CreateRead(r)
    PROVE  ParentsInv'
<1>0. request \in [Requests -> Threads!Request] /\ comment' = comment
    BY ThreadsTypes DEF Threads!CreateRead
<1>1. PICK p \in Posts, u \in Users, parent \in Threads!Ids \cup {None} :
          /\ parent \in Threads!Parents(p)
          /\ request' = [request EXCEPT ![r] = [Threads!Idle EXCEPT
               !.step = "save",
               !.row = [post |-> p, parent |-> parent, author |-> u, deleted |-> FALSE]]]
    <2>1. \A p \in Posts : Threads!Parents(p) \subseteq Threads!Ids \cup {None}
        BY DEF Threads!Parents, Threads!In
    <2> QED
        BY <2>1 DEF Threads!CreateRead
<1> DEFINE new == [post |-> p, parent |-> parent, author |-> u, deleted |-> FALSE]
           q == [Threads!Idle EXCEPT !.step = "save", !.row = new]
<1>2. request' = [request EXCEPT ![r] = q]
    BY <1>1
<1>3. new.parent = parent /\ new.post = p
    OBVIOUS
<1> HIDE DEF new
<1>4. q.row = new
    BY DEF Threads!Idle
<1> HIDE DEF q
<1>5. request'[r] = q /\ \A s \in Requests : s # r => request'[s] = request[s]
    BY <1>0, <1>2
<1>6. parent # None => comment[parent].post = p
    BY <1>1 DEF Threads!Parents, Threads!In
<1>7. ReplyFits(r)'
    BY <1>0, <1>3, <1>4, <1>5, <1>6 DEF ReplyFits
<1>8. Stay
    BY <1>0 DEF Stay, Threads!Ids
<1> QED
    BY <1>0, <1>5, <1>7, <1>8, ParentsStay DEF ParentsInv, Threads!Ids

LEMMA ParentsSaveStep ==
    ASSUME ThreadsInv, ParentsInv, NEW r \in Requests, Threads!CreateSave(r)
    PROVE  ParentsInv'
<1>1. PICK n : n = Len(comment) + 1
    OBVIOUS
<1>2. PICK new : new = request[r].row
    OBVIOUS
<1>3. /\ request \in [Requests -> Threads!Request] /\ request[r].step = "save"
      /\ comment \in Seq(Threads!Comment) /\ new \in Threads!Comment
      /\ new.parent # None => new.parent \in Threads!Ids /\ comment[new.parent].post = new.post
      /\ comment' = Append(comment, new)
      /\ Len(comment) \in Nat /\ Threads!Ids = 1..Len(comment)
    BY <1>2, ThreadsTypes DEF ThreadsInv, RequestTells, ParentsInv, ReplyFits, Threads!CreateSave
<1>4. /\ Len(comment') = n /\ comment'[n] = new
      /\ \A c \in Threads!Ids : comment'[c] = comment[c]
    BY <1>1, <1>3, AppendProperties
<1>5. Threads!Ids' = Threads!Ids \cup {n}
    BY <1>1, <1>3, <1>4 DEF Threads!Ids
<1>6. Stay
    BY <1>4, <1>5 DEF Stay
<1>7. ParentFits(n)'
    BY <1>1, <1>3, <1>4 DEF ParentFits
<1>8. PICK q : q = request'[r]
    OBVIOUS
<1>9. request'[r].step = "notify" /\ \A s \in Requests : s # r => request'[s] = request[s]
    BY <1>3 DEF Threads!CreateSave
<1>10. \A s \in Requests : ReplyFits(s)'
    <2>1. ReplyFits(r)'
        BY <1>9 DEF ReplyFits
    <2> QED
        BY <1>6, <1>9, <2>1, ParentsStay
<1>11. \A c \in Threads!Ids' : ParentFits(c)'
    BY <1>5, <1>6, <1>7, ParentsStay
<1> QED
    BY <1>10, <1>11 DEF ParentsInv

LEMMA ParentsEndStep ==
    ASSUME ThreadsInv, ParentsInv, NEW r \in Requests,
           Threads!Notify(r) \/ Threads!EditRead(r) \/ Threads!EditSave(r)
    PROVE  ParentsInv'
<1>0. request \in [Requests -> Threads!Request] /\ comment' = comment
    BY ThreadsTypes DEF Threads!Notify, Threads!EditRead, Threads!EditSave
<1>1. request'[r].step # "save" /\ \A s \in Requests : s # r => request'[s] = request[s]
    <2>1. CASE Threads!Notify(r) \/ Threads!EditSave(r)
        BY <1>0, <2>1, ThreadsIdle DEF Threads!Notify, Threads!EditSave, Threads!End
    <2>2. CASE Threads!EditRead(r)
        <3>1. PICK c \in Threads!Ids :
                  request' = [request EXCEPT ![r] = [Threads!Idle EXCEPT !.step = "edit", !.id = c]]
            BY <2>2 DEF Threads!EditRead
        <3>2. request'[r] = [Threads!Idle EXCEPT !.step = "edit", !.id = c]
            BY <1>0, <3>1
        <3>3. request'[r].step = "edit"
            BY <3>2 DEF Threads!Idle
        <3> QED
            BY <1>0, <3>1, <3>3
    <2> QED
        BY <2>1, <2>2
<1>2. Stay
    BY <1>0 DEF Stay, Threads!Ids
<1>3. \A s \in Requests : ReplyFits(s)'
    <2>1. ReplyFits(r)'
        BY <1>1 DEF ReplyFits
    <2> QED
        BY <1>1, <1>2, <2>1, ParentsStay
<1> QED
    BY <1>0, <1>2, <1>3, ParentsStay DEF ParentsInv, Threads!Ids

LEMMA ParentsDeleteStep ==
    ASSUME ThreadsInv, ParentsInv, Threads!SoftDelete
    PROVE  ParentsInv'
<1>0. PICK k \in Threads!Ids : comment' = [comment EXCEPT ![k].deleted = TRUE]
    BY DEF Threads!SoftDelete
<1>1. request' = request
    BY DEF Threads!SoftDelete
<1> DEFINE changed == [comment[k] EXCEPT !.deleted = TRUE]
<1>2. comment[k] \in Threads!Comment /\ Threads!Ids = 1..Len(comment) /\ comment \in Seq(Threads!Comment)
    BY ThreadsTypes
<1>3. changed \in Threads!Comment /\ comment' = [comment EXCEPT ![k] = changed]
      /\ changed.post = comment[k].post /\ changed.parent = comment[k].parent
      /\ changed.author = comment[k].author
    BY <1>0, <1>2 DEF Threads!Comment
<1> HIDE DEF changed
<1>4. /\ Len(comment') = Len(comment)
      /\ \A c \in Threads!Ids : comment'[c] = IF c = k THEN changed ELSE comment[c]
    BY <1>2, <1>3, ExceptSeq
<1>5. Threads!Ids' = Threads!Ids /\ Stay
    BY <1>3, <1>4 DEF Threads!Ids, Stay
<1> QED
    BY <1>1, <1>5, ParentsStay DEF ParentsInv

LEMMA ParentsStep ==
    ASSUME ThreadsInv, ParentsInv, [Threads!Next]_(Threads!vars)
    PROVE  ParentsInv'
<1>1. CASE UNCHANGED Threads!vars
    BY <1>1 DEF Threads!vars, ParentsInv, ParentFits, ReplyFits, Threads!Ids
<1> QED
    BY <1>1, ParentsReadStep, ParentsSaveStep, ParentsEndStep, ParentsDeleteStep DEF Threads!Next

LEMMA ThreadsOfPost ==
    ASSUME ThreadsInv, NEW p
    PROVE  /\ Threads!In(p) \subseteq Threads!Ids /\ Threads!TopLevel(p) \subseteq Threads!In(p)
           /\ Threads!InTree(p) \in [Threads!Ids -> SUBSET Threads!Ids]
           /\ Threads!Children \in [Threads!Ids -> SUBSET Threads!Ids]
           /\ \A c \in Threads!Ids :
                 /\ Threads!InTree(p)[c] = {k \in Threads!In(p) : comment[k].parent = c}
                 /\ Threads!Children[c] = {k \in Threads!Ids : comment[k].parent = c /\ Threads!Live(k)}
BY DEF Threads!In, Threads!TopLevel, Threads!InTree, Threads!Children

\* Threads opened n deep, level by level.
LEMMA LevelByLevel ==
    ASSUME ThreadsInv, NEW p, NEW replies \in [Threads!Ids -> SUBSET Threads!Ids],
           NEW level, level = Threads!Levels(p, replies)
    PROVE  /\ level[0] = Threads!TopLevel(p)
           /\ \A n \in 1 .. MaxComments :
                 level[n] = level[n - 1] \cup UNION {replies[c] : c \in level[n - 1]}
<1> DEFINE I == Threads!Ids
           top == Threads!TopLevel(p)
           G == [n \in Nat |-> [above \in SUBSET I |-> above \cup UNION {replies[c] : c \in above}]]
<1>1. G \in [Nat -> [SUBSET I -> SUBSET I]] /\ top \in SUBSET I
    BY ThreadsOfPost
<1>2. PICK g : MadeOf(g, MaxComments, SUBSET I, top, G)
    <2> HIDE DEF G, top, I
    <2> QED
        BY <1>1, Recursion, ThreadsNumbers
<1> HIDE DEF I, top
<1>3. ASSUME NEW n \in 1 .. MaxComments
      PROVE  g[n] = g[n - 1] \cup UNION {replies[c] : c \in g[n - 1]}
    <2>1. n \in Nat /\ g[n - 1] \in SUBSET I
        BY <1>2, ThreadsNumbers DEF MadeOf
    <2>2. G[n][g[n - 1]] = g[n - 1] \cup UNION {replies[c] : c \in g[n - 1]}
        BY <2>1
    <2> QED
        BY <1>2, <2>2 DEF MadeOf
<1>4. g = [n \in 0 .. MaxComments |->
               IF n = 0 THEN top ELSE g[n - 1] \cup UNION {replies[c] : c \in g[n - 1]}]
    BY <1>2, <1>3, ThreadsNumbers DEF MadeOf
<1>5. level = [n \in 0 .. MaxComments |->
                   IF n = 0 THEN top ELSE level[n - 1] \cup UNION {replies[c] : c \in level[n - 1]}]
    BY <1>4, Zenon DEF Threads!Levels, top
<1>6. level[0] = top
    BY <1>5, ThreadsNumbers
<1>7. ASSUME NEW n \in 1 .. MaxComments
      PROVE  level[n] = level[n - 1] \cup UNION {replies[c] : c \in level[n - 1]}
    <2>1. n \in 0 .. MaxComments /\ n # 0
        BY ThreadsNumbers
    <2> QED
        BY <1>5, <2>1, Zenon
<1> QED
    BY <1>6, <1>7 DEF top

\* The walk upwards, step by step.
LEMMA StepByStep ==
    ASSUME ThreadsInv, NEW p, NEW c \in Threads!Ids, NEW up, up = Threads!Walk(p, c)
    PROVE  /\ up[0] = c
           /\ \A n \in 1 .. MaxComments + 1 :
                 up[n] = IF up[n - 1] \in Threads!In(p) THEN comment[up[n - 1]].parent ELSE None
<1> DEFINE V == Threads!Ids \cup {None}
           above(x) == IF x \in Threads!In(p) THEN comment[x].parent ELSE None
           G == [n \in Nat |-> [x \in V |-> above(x)]]
<1>1. \A x \in V : above(x) \in V
    BY ThreadsOfPost DEF ThreadsInv, ParentKnown
<1>2. G \in [Nat -> [V -> V]] /\ c \in V /\ MaxComments + 1 \in Nat /\ MaxComments \in Nat
    BY <1>1, ThreadsNumbers
<1>3. PICK g : MadeOf(g, MaxComments + 1, V, c, G)
    <2> HIDE DEF G, V
    <2> QED
        BY <1>2, Recursion
<1> HIDE DEF V, above
<1>4. ASSUME NEW n \in 1 .. MaxComments + 1 PROVE g[n] = above(g[n - 1])
    <2>1. n \in Nat /\ g[n - 1] \in V
        BY <1>2, <1>3 DEF MadeOf
    <2>2. G[n][g[n - 1]] = above(g[n - 1])
        BY <2>1
    <2> QED
        BY <1>3, <2>2 DEF MadeOf
<1>5. g = [n \in 0 .. MaxComments + 1 |-> IF n = 0 THEN c ELSE above(g[n - 1])]
    BY <1>2, <1>3, <1>4 DEF MadeOf
<1>6. up = [n \in 0 .. MaxComments + 1 |-> IF n = 0 THEN c ELSE above(up[n - 1])]
    BY <1>5, Zenon DEF Threads!Walk, above
<1>7. up[0] = c
    BY <1>2, <1>6
<1>8. ASSUME NEW n \in 1 .. MaxComments + 1 PROVE up[n] = above(up[n - 1])
    <2>1. n \in 0 .. MaxComments + 1 /\ n # 0
        BY <1>2
    <2> QED
        BY <1>6, <2>1, Zenon
<1> QED
    BY <1>7, <1>8 DEF above

LEMMA ThreadsSame ==
    ASSUME ThreadsInv, ParentsInv
    PROVE  Threads!SameThreads
<1> SUFFICES ASSUME NEW p \in Posts
             PROVE  Threads!Opened(p, Threads!InTree(p)) = Threads!Opened(p, Threads!Children)
    BY DEF Threads!SameThreads
<1>1. PICK whole : whole = Threads!Levels(p, Threads!InTree(p))
    OBVIOUS
<1>2. PICK loaded : loaded = Threads!Levels(p, Threads!Children)
    OBVIOUS
<1>3. /\ whole[0] = Threads!TopLevel(p) /\ loaded[0] = Threads!TopLevel(p)
      /\ \A n \in 1 .. MaxComments :
            /\ whole[n] = whole[n - 1] \cup UNION {Threads!InTree(p)[c] : c \in whole[n - 1]}
            /\ loaded[n] = loaded[n - 1] \cup UNION {Threads!Children[c] : c \in loaded[n - 1]}
    BY <1>1, <1>2, LevelByLevel, ThreadsOfPost
<1>4. ASSUME NEW c \in Threads!In(p) PROVE Threads!InTree(p)[c] = Threads!Children[c]
    <2>1. c \in Threads!Ids /\ comment[c].post = p
        BY DEF Threads!In
    <2>2. ASSUME NEW k \in Threads!Ids, comment[k].parent = c PROVE comment[k].post = p
        BY <2>1, <2>2, ThreadsTypes DEF ParentsInv, ParentFits
    <2>3. ASSUME NEW k
          PROVE  (k \in Threads!In(p) /\ comment[k].parent = c)
                     <=> (k \in Threads!Ids /\ comment[k].parent = c /\ Threads!Live(k))
        BY <2>2 DEF Threads!In
    <2>4. {k \in Threads!In(p) : comment[k].parent = c}
              = {k \in Threads!Ids : comment[k].parent = c /\ Threads!Live(k)}
        BY <2>3
    <2>5. Threads!InTree(p)[c] = {k \in Threads!In(p) : comment[k].parent = c}
        BY <2>1 DEF Threads!InTree
    <2>6. Threads!Children[c] = {k \in Threads!Ids : comment[k].parent = c /\ Threads!Live(k)}
        BY <2>1 DEF Threads!Children
    <2> QED
        BY <2>4, <2>5, <2>6
<1> DEFINE S == {n \in Nat : n <= MaxComments => whole[n] = loaded[n] /\ whole[n] \subseteq Threads!In(p)}
<1>5. 0 \in S
    BY <1>3, ThreadsOfPost
<1>6. ASSUME NEW n \in Nat, n \in S PROVE n + 1 \in S
    <2> SUFFICES ASSUME n + 1 <= MaxComments
                 PROVE  whole[n + 1] = loaded[n + 1] /\ whole[n + 1] \subseteq Threads!In(p)
        OBVIOUS
    <2>1. n + 1 \in 1 .. MaxComments /\ (n + 1) - 1 = n /\ n <= MaxComments
        BY ThreadsNumbers
    <2>2. whole[n] = loaded[n] /\ whole[n] \subseteq Threads!In(p)
        BY <1>6, <2>1
    <2>3. /\ whole[n + 1] = whole[n] \cup UNION {Threads!InTree(p)[c] : c \in whole[n]}
          /\ loaded[n + 1] = whole[n] \cup UNION {Threads!Children[c] : c \in whole[n]}
        BY <1>3, <2>1, <2>2
    <2>4. \A c \in whole[n] : /\ Threads!InTree(p)[c] = Threads!Children[c]
                              /\ Threads!InTree(p)[c] \subseteq Threads!In(p)
        BY <1>4, <2>2, ThreadsOfPost
    <2> QED
        BY <2>2, <2>3, <2>4
<1> HIDE DEF S
<1>7. MaxComments \in S
    BY <1>5, <1>6, Induction, ThreadsNumbers
<1> QED
    BY <1>1, <1>2, <1>7, ThreadsNumbers DEF S, Threads!Opened

\* Whoever opens every thread sees the parents of what is seen.
LEMMA ParentsAreSeen ==
    ASSUME ThreadsInv, NEW p, NEW seen, seen = Threads!Opened(p, Threads!InTree(p)), NEW k \in seen
    PROVE  k \in Threads!In(p) /\ comment[k].parent \in seen \cup {None}
<1>1. PICK level : level = Threads!Levels(p, Threads!InTree(p))
    OBVIOUS
<1>2. /\ level[0] = Threads!TopLevel(p)
      /\ \A n \in 1 .. MaxComments :
             level[n] = level[n - 1] \cup UNION {Threads!InTree(p)[c] : c \in level[n - 1]}
    BY <1>1, LevelByLevel, ThreadsOfPost
<1> DEFINE Fine(set) == set \subseteq Threads!In(p) /\ \A c \in set : comment[c].parent \in set \cup {None}
           S == {n \in Nat : n <= MaxComments => Fine(level[n])}
<1>3. 0 \in S
    BY <1>2 DEF Threads!TopLevel
<1>4. ASSUME NEW n \in Nat, n \in S PROVE n + 1 \in S
    <2> SUFFICES ASSUME n + 1 <= MaxComments PROVE Fine(level[n + 1])
        OBVIOUS
    <2>1. n + 1 \in 1 .. MaxComments /\ (n + 1) - 1 = n /\ n <= MaxComments
        BY ThreadsNumbers
    <2>2. Fine(level[n])
        BY <1>4, <2>1
    <2>3. level[n + 1] = level[n] \cup UNION {Threads!InTree(p)[c] : c \in level[n]}
        BY <1>2, <2>1
    <2>4. \A c \in level[n] : Threads!InTree(p)[c] = {x \in Threads!In(p) : comment[x].parent = c}
        BY <2>2, ThreadsOfPost
    <2> QED
        BY <2>2, <2>3, <2>4
<1> HIDE DEF S
<1>5. MaxComments \in S
    BY <1>3, <1>4, Induction, ThreadsNumbers
<1>6. Fine(seen)
    BY <1>1, <1>5, ThreadsNumbers DEF S, Threads!Opened
<1> QED
    BY <1>6

LEMMA FocusOpens ==
    ASSUME ThreadsInv, ParentsInv
    PROVE  Threads!FocusIsOpen
<1> SUFFICES ASSUME NEW p \in Posts, NEW c \in Threads!In(p)
             PROVE  /\ Threads!Walk(p, c)[MaxComments + 1] = None
                    /\ c \in Threads!Opened(p, Threads!InTree(p)) =>
                          \A k \in Threads!Expanded(p, c) :
                              comment[k].parent \in Threads!Expanded(p, c) \cup {None}
    BY DEF Threads!FocusIsOpen
<1>1. PICK up : up = Threads!Walk(p, c)
    OBVIOUS
<1>2. c \in Threads!Ids /\ MaxComments \in Nat
    BY ThreadsOfPost, ThreadsNumbers
<1>3. /\ up[0] = c
      /\ \A n \in 1 .. MaxComments + 1 :
             up[n] = IF up[n - 1] \in Threads!In(p) THEN comment[up[n - 1]].parent ELSE None
    BY <1>1, <1>2, StepByStep
<1>4. \A n \in Nat : n < MaxComments + 1 =>
          up[n + 1] = IF up[n] \in Threads!In(p) THEN comment[up[n]].parent ELSE None
    <2> SUFFICES ASSUME NEW n \in Nat, n < MaxComments + 1
                 PROVE  up[n + 1] = IF up[n] \in Threads!In(p) THEN comment[up[n]].parent ELSE None
        OBVIOUS
    <2>1. n + 1 \in 1 .. MaxComments + 1 /\ (n + 1) - 1 = n
        BY <1>2
    <2> QED
        BY <1>3, <2>1
<1>5. up[MaxComments + 1] = None
    <2> DEFINE S == {n \in Nat : n <= MaxComments + 1 =>
                         up[n] = None \/ (up[n] \in Threads!Ids /\ up[n] + n <= c)}
    <2>1. 0 \in S
        BY <1>2, <1>3, ThreadsTypes
    <2>2. ASSUME NEW n \in Nat, n \in S PROVE n + 1 \in S
        <3> SUFFICES ASSUME n + 1 <= MaxComments + 1, up[n + 1] # None
                     PROVE  up[n + 1] \in Threads!Ids /\ up[n + 1] + (n + 1) <= c
            OBVIOUS
        <3>1. n < MaxComments + 1 /\ n <= MaxComments + 1
            BY <1>2
        <3>2. up[n] \in Threads!In(p) /\ up[n + 1] = comment[up[n]].parent
            BY <1>4, <3>1
        <3>3. up[n] \in Threads!Ids /\ up[n] # None
            BY <3>2, ThreadsOfPost, ThreadsTypes
        <3>4. up[n] + n <= c
            BY <2>2, <3>1, <3>3
        <3>5. up[n + 1] \in Threads!Ids /\ up[n + 1] < up[n]
            BY <3>2, <3>3 DEF ThreadsInv, ParentKnown, ParentsInv, ParentFits
        <3>6. up[n] \in Nat /\ up[n + 1] \in Nat /\ c \in Nat
            BY <1>2, <3>3, <3>5, ThreadsTypes
        <3> QED
            BY <3>4, <3>5, <3>6
    <2> HIDE DEF S
    <2>3. MaxComments + 1 \in S
        BY <1>2, <2>1, <2>2, Induction
    <2>4. c \in Nat /\ c <= MaxComments
        BY <1>2, ThreadsTypes
    <2>5. up[MaxComments + 1] # None =>
              up[MaxComments + 1] \in Threads!Ids /\ up[MaxComments + 1] + (MaxComments + 1) <= c
        BY <1>2, <2>3 DEF S
    <2>6. up[MaxComments + 1] \in Threads!Ids => up[MaxComments + 1] \in Nat /\ up[MaxComments + 1] > 0
        BY ThreadsTypes
    <2> QED
        BY <1>2, <2>4, <2>5, <2>6
<1>6. ASSUME NEW seen, seen = Threads!Opened(p, Threads!InTree(p)), c \in seen,
             NEW k \in Threads!Expanded(p, c)
      PROVE  comment[k].parent \in Threads!Expanded(p, c) \cup {None}
    <2> DEFINE S == {n \in Nat : n <= MaxComments + 1 => up[n] \in seen \cup {None}}
    <2>1. 0 \in S
        BY <1>3, <1>6
    <2>2. ASSUME NEW n \in Nat, n \in S PROVE n + 1 \in S
        <3> SUFFICES ASSUME n + 1 <= MaxComments + 1 PROVE up[n + 1] \in seen \cup {None}
            OBVIOUS
        <3>1. n < MaxComments + 1 /\ n <= MaxComments + 1
            BY <1>2
        <3>2. up[n] \in seen \cup {None}
            BY <2>2, <3>1
        <3>3. up[n] \in Threads!In(p) => up[n] \in seen
            BY <3>2, ThreadsOfPost, ThreadsTypes
        <3> QED
            BY <1>4, <1>6, <3>1, <3>3, ParentsAreSeen
    <2> HIDE DEF S
    <2>3. PICK n \in 0 .. MaxComments : k = up[n] /\ k # None
        BY <1>1 DEF Threads!Expanded
    <2>4. n \in Nat /\ n <= MaxComments + 1 /\ n < MaxComments + 1
        BY <1>2
    <2>5. k \in seen
        BY <2>1, <2>2, <2>3, <2>4, Induction DEF S
    <2>6. up[n + 1] = comment[k].parent
        BY <1>4, <1>6, <2>3, <2>4, <2>5, ParentsAreSeen
    <2>7. CASE n = MaxComments
        BY <1>5, <2>6, <2>7
    <2>8. CASE n # MaxComments
        <3>1. n + 1 \in 0 .. MaxComments
            BY <1>2, <2>8
        <3> QED
            BY <1>1, <2>6, <3>1 DEF Threads!Expanded
    <2> QED
        BY <2>7, <2>8
<1> QED
    BY <1>1, <1>5, <1>6

-----------------------------------------------------------------------------
(* The checks of health                                                    *)

Begun(q) == q.step # "idle" => q.start <= clock

\* The database was what was found of it, or is so again, since the request began: so a
\* result that is kept was right until its time to live has passed, or has turned since.
FoundLately(q) == q.step \in {"set", "get", "delete", "store"} =>
    q.database = database \/ (turned # None /\ turned >= q.start)
AnswersLately(q) == q.step = "answer" =>
    q.database = database \/ (turned # None /\ turned + TTL > q.start)
KeptFromLately == kept # None =>
    /\ kept.expires <= clock + TTL
    /\ kept.database = database \/ (turned # None /\ turned + TTL >= kept.expires)

\* A check alone finds its own value.
FindsOwn(r) == r \in alone =>
    /\ request[r].step \in {"get", "delete", "store", "answer"}
    /\ request[r].step = "get" => probe = r
    /\ request[r].step = "delete" => request[r].value = r
    /\ request[r].step \in {"store", "answer"} => request[r].cache = TRUE
    /\ Health!Checking(r) => \A q \in Requests \ {r} : ~Health!Checking(q)

HealthFits(q) == Begun(q) /\ FoundLately(q) /\ AnswersLately(q)

HealthInv ==
    /\ Health!TypeOK
    /\ KeptFromLately
    /\ \A r \in Requests : HealthFits(request[r]) /\ FindsOwn(r)
    /\ cache # TRUE => alone = {}

LEMMA HealthNumbers ==
    /\ TTL \in Nat /\ TTL > 0 /\ MaxTime \in Nat
    /\ None \notin Requests /\ None \notin Nat
BY PartsAssumption DEF Health!ReadinessAssumption

LEMMA HealthIdle ==
    /\ Health!Idle \in Health!Request /\ Health!Idle.step = "idle"
    /\ HealthFits(Health!Idle)
BY HealthNumbers DEF Health!Idle, Health!Request, Health!Steps, HealthFits, Begun, FoundLately, AnswersLately

LEMMA HealthInit == Health!Init => HealthInv
<1> SUFFICES ASSUME Health!Init PROVE HealthInv
    OBVIOUS
<1>1. Health!TypeOK
    BY HealthNumbers, HealthIdle DEF Health!Init, Health!TypeOK
<1> QED
    BY <1>1, HealthIdle DEF Health!Init, HealthInv, KeptFromLately, FindsOwn

LEMMA HealthTypes ==
    ASSUME HealthInv
    PROVE  /\ request \in [Requests -> Health!Request] /\ clock \in 0..MaxTime
           /\ database \in BOOLEAN /\ cache \in BOOLEAN
           /\ turned \in 0..MaxTime \cup {None}
           /\ probe \in Requests \cup {None} /\ kept \in Health!Kept \cup {None}
           /\ alone \subseteq Requests
BY DEF HealthInv, Health!TypeOK

\* What is said of the other requests depends on the database, the time and the key alone.
LEMMA HealthRequestStep ==
    ASSUME HealthInv, NEW r \in Requests, UNCHANGED <<clock, Health!health>>,
           request' = [request EXCEPT ![r] = request'[r]],
           request'[r] \in Health!Request, HealthFits(request'[r]),
           probe' \in Requests \cup {None}, kept' \in Health!Kept \cup {None}, KeptFromLately',
           alone' \subseteq alone \cup {r}, cache = TRUE \/ alone' \subseteq alone,
           \A q \in Requests : FindsOwn(q)'
    PROVE  HealthInv'
<1>1. /\ request \in [Requests -> Health!Request] /\ UNCHANGED <<clock, database, cache, turned>>
    BY HealthTypes DEF Health!health
<1>2. Health!TypeOK'
    BY <1>1, HealthTypes DEF Health!TypeOK
<1>3. \A q \in Requests : HealthFits(request'[q])
    BY <1>1 DEF HealthInv
<1>4. \A q \in Requests : HealthFits(request[q])'
    BY <1>1, <1>3 DEF HealthFits, Begun, FoundLately, AnswersLately
<1>5. cache' # TRUE => alone' = {}
    BY <1>1 DEF HealthInv
<1> QED
    BY <1>2, <1>4, <1>5 DEF HealthInv

\* Steps that have nothing to do with the key of the cache.
LEMMA HealthAsideStep ==
    ASSUME HealthInv, NEW r \in Requests, UNCHANGED <<clock, Health!health, probe>>,
           request' = [request EXCEPT ![r] = request'[r]],
           request'[r] \in Health!Request, HealthFits(request'[r]),
           kept' \in Health!Kept \cup {None}, KeptFromLately',
           ~Health!Checking(r), request'[r].step \notin {"get", "delete"},
           \/ r \notin alone /\ UNCHANGED alone
           \/ alone' = alone \ {r}
           \/ request[r].step = "store" /\ request'[r].step = "answer"
              /\ request'[r].cache = request[r].cache /\ UNCHANGED alone
    PROVE  HealthInv'
<1>0. /\ request \in [Requests -> Health!Request] /\ probe \in Requests \cup {None}
      /\ \A q \in Requests \ {r} : request'[q] = request[q]
    BY HealthTypes
<1>1. ASSUME NEW q \in Requests PROVE FindsOwn(q)'
    <2>1. FindsOwn(q) /\ FindsOwn(r)
        BY DEF HealthInv
    <2>2. \A p \in Requests : Health!Checking(p)' => Health!Checking(p)
        BY <1>0 DEF Health!Checking
    <2>3. CASE q = r
        BY <2>1, <2>2, <2>3 DEF FindsOwn, Health!Checking
    <2>4. CASE q # r
        BY <1>0, <2>1, <2>2, <2>4 DEF FindsOwn
    <2> QED
        BY <2>3, <2>4
<1> QED
    BY <1>0, <1>1, HealthRequestStep

LEMMA HealthBeginStep ==
    ASSUME HealthInv, NEW r \in Requests, Health!Begin(r)
    PROVE  HealthInv'
<1>0. /\ request \in [Requests -> Health!Request] /\ clock \in 0..MaxTime
      /\ request[r].step = "idle" /\ UNCHANGED <<clock, Health!health, probe, kept, alone>>
    BY HealthTypes DEF Health!Begin
<1>1. PICK kind \in {"readyz", "metrics"} :
        request' = [request EXCEPT ![r] = [Health!Idle EXCEPT
            !.step = IF kind = "metrics" THEN "look" ELSE "database", !.kind = kind, !.start = clock]]
    BY DEF Health!Begin
<1> DEFINE q == [Health!Idle EXCEPT !.step = IF kind = "metrics" THEN "look" ELSE "database",
                                    !.kind = kind, !.start = clock]
<1>2. q \in Health!Request /\ q.start = clock /\ q.step \in {"look", "database"}
    BY <1>0, HealthIdle DEF Health!Request, Health!Steps
<1> HIDE DEF q
<1>3. request'[r] = q /\ request' = [request EXCEPT ![r] = q]
    BY <1>0, <1>1 DEF q
<1>4. HealthFits(q)
    BY <1>0, <1>2 DEF HealthFits, Begun, FoundLately, AnswersLately
<1>5. r \notin alone
    BY <1>0 DEF HealthInv, FindsOwn
<1>6. KeptFromLately' /\ kept' \in Health!Kept \cup {None}
    BY <1>0, HealthTypes DEF HealthInv, KeptFromLately, Health!health
<1> QED
    BY <1>0, <1>2, <1>3, <1>4, <1>5, <1>6, HealthAsideStep DEF Health!Checking

LEMMA HealthLookStep ==
    ASSUME HealthInv, NEW r \in Requests, Health!Look(r)
    PROVE  HealthInv'
<1> DEFINE q == request'[r]
<1>0. /\ request \in [Requests -> Health!Request] /\ request[r] \in Health!Request
      /\ clock \in 0..MaxTime /\ request[r].start \in 0..MaxTime /\ request[r].start <= clock
      /\ request[r].step = "look" /\ UNCHANGED <<clock, Health!health, probe, kept, alone>>
    BY HealthTypes DEF Health!Look, HealthInv, HealthFits, Begun, Health!Request
<1>1. r \notin alone
    BY <1>0 DEF HealthInv, FindsOwn
<1>2. KeptFromLately' /\ kept' \in Health!Kept \cup {None}
    BY <1>0, HealthTypes DEF HealthInv, KeptFromLately, Health!health
<1>3. CASE kept # None /\ request[r].start < kept.expires
    <2>1. /\ q = [request[r] EXCEPT !.step = "answer", !.database = kept.database, !.cache = kept.cache]
          /\ request' = [request EXCEPT ![r] = q]
        BY <1>0, <1>3 DEF Health!Look
    <2>k. kept \in Health!Kept
        BY <1>3, HealthTypes
    <2>l. kept.database \in BOOLEAN /\ kept.cache \in BOOLEAN /\ kept.expires \in Nat
        BY <2>k, HealthNumbers DEF Health!Kept
    <2>m. kept.database = database \/ (turned # None /\ turned + TTL >= kept.expires)
        BY <1>3 DEF HealthInv, KeptFromLately
    <2>2. /\ kept.database \in BOOLEAN /\ kept.cache \in BOOLEAN /\ kept.expires \in Nat
          /\ kept.database = database \/ (turned # None /\ turned + TTL >= kept.expires)
        BY <2>l, <2>m
    <2>3. /\ q \in Health!Request /\ q.step = "answer" /\ q.database = kept.database
          /\ q.start = request[r].start
        BY <1>0, <2>1, <2>2 DEF Health!Request, Health!Steps
    <2>4. HealthFits(q)
        BY <1>0, <1>3, <2>2, <2>3, HealthTypes, HealthNumbers
        DEF HealthFits, Begun, FoundLately, AnswersLately
    <2> QED
        BY <1>0, <1>1, <1>2, <2>1, <2>3, <2>4, HealthAsideStep DEF Health!Checking
<1>4. CASE ~(kept # None /\ request[r].start < kept.expires)
    <2>1. q = [request[r] EXCEPT !.step = "database"] /\ request' = [request EXCEPT ![r] = q]
        BY <1>0, <1>4 DEF Health!Look, Health!Go
    <2>2. q \in Health!Request /\ q.step = "database" /\ q.start = request[r].start
        BY <1>0, <2>1 DEF Health!Request, Health!Steps
    <2>3. HealthFits(q)
        BY <1>0, <2>2 DEF HealthFits, Begun, FoundLately, AnswersLately
    <2> QED
        BY <1>0, <1>1, <1>2, <2>1, <2>2, <2>3, HealthAsideStep DEF Health!Checking
<1> QED
    BY <1>3, <1>4

LEMMA HealthDatabaseStep ==
    ASSUME HealthInv, NEW r \in Requests, Health!CheckDatabase(r)
    PROVE  HealthInv'
<1> DEFINE q == request'[r]
<1>0. /\ request \in [Requests -> Health!Request] /\ request[r] \in Health!Request
      /\ request[r].start <= clock /\ database \in BOOLEAN
      /\ request[r].step = "database" /\ UNCHANGED <<clock, Health!health, probe, kept, alone>>
    BY HealthTypes DEF Health!CheckDatabase, HealthInv, HealthFits, Begun
<1>1. r \notin alone
    BY <1>0 DEF HealthInv, FindsOwn
<1>2. KeptFromLately' /\ kept' \in Health!Kept \cup {None}
    BY <1>0, HealthTypes DEF HealthInv, KeptFromLately, Health!health
<1>3. /\ q = [request[r] EXCEPT !.step = "set", !.database = database]
      /\ request' = [request EXCEPT ![r] = q]
    BY <1>0 DEF Health!CheckDatabase
<1>4. /\ q \in Health!Request /\ q.step = "set" /\ q.database = database
      /\ q.start = request[r].start
    BY <1>0, <1>3 DEF Health!Request, Health!Steps
<1>5. HealthFits(q)
    BY <1>0, <1>4 DEF HealthFits, Begun, FoundLately, AnswersLately
<1> QED
    BY <1>0, <1>1, <1>2, <1>3, <1>4, <1>5, HealthAsideStep DEF Health!Checking

LEMMA HealthStoreStep ==
    ASSUME HealthInv, NEW r \in Requests, Health!Store(r)
    PROVE  HealthInv'
<1> DEFINE q == request'[r]
           new == [database |-> request[r].database, cache |-> request[r].cache,
                   expires |-> request[r].start + TTL]
<1>0. /\ request \in [Requests -> Health!Request] /\ request[r] \in Health!Request
      /\ request[r].start \in 0..MaxTime /\ request[r].start <= clock
      /\ clock \in 0..MaxTime /\ turned \in 0..MaxTime \cup {None}
      /\ request[r].database = database \/ (turned # None /\ turned >= request[r].start)
      /\ request[r].step = "store" /\ kept' = new
      /\ UNCHANGED <<clock, database, turned, Health!health, probe, alone>>
    BY HealthTypes
    DEF Health!Store, HealthInv, HealthFits, Begun, FoundLately, Health!Request, Health!health
<1>1. q = [request[r] EXCEPT !.step = "answer"] /\ request' = [request EXCEPT ![r] = q]
    BY <1>0 DEF Health!Store, Health!Go
<1>2. /\ q \in Health!Request /\ q.step = "answer" /\ q.database = request[r].database
      /\ q.start = request[r].start /\ q.cache = request[r].cache
    BY <1>0, <1>1 DEF Health!Request, Health!Steps
<1>3. HealthFits(q)
    BY <1>0, <1>2, HealthNumbers DEF HealthFits, Begun, FoundLately, AnswersLately
<1>4. new \in Health!Kept
    BY <1>0, HealthNumbers DEF Health!Kept, Health!Request
<1>5. KeptFromLately'
    BY <1>0, HealthNumbers DEF KeptFromLately
<1> QED
    BY <1>0, <1>1, <1>2, <1>3, <1>4, <1>5, HealthAsideStep DEF Health!Checking

LEMMA HealthAnswerStep ==
    ASSUME HealthInv, NEW r \in Requests, Health!Answer(r)
    PROVE  HealthInv'
<1>0. /\ request \in [Requests -> Health!Request] /\ request[r].step = "answer"
      /\ request' = [request EXCEPT ![r] = Health!Idle] /\ alone' = alone \ {r}
      /\ UNCHANGED <<clock, Health!health, probe, kept>>
    BY HealthTypes DEF Health!Answer
<1>1. request'[r] = Health!Idle
    BY <1>0
<1>2. KeptFromLately' /\ kept' \in Health!Kept \cup {None}
    BY <1>0, HealthTypes DEF HealthInv, KeptFromLately, Health!health
<1> QED
    BY <1>0, <1>1, <1>2, HealthIdle, HealthAsideStep DEF Health!Checking

\* What a check makes of a request, and what is kept meanwhile.
LEMMA HealthChecked ==
    ASSUME HealthInv, NEW r \in Requests, NEW ok \in BOOLEAN, Health!Checked(r, ok),
           request[r].step \in {"set", "get", "delete"}, UNCHANGED <<clock, Health!health, kept>>
    PROVE  /\ request' = [request EXCEPT ![r] = request'[r]]
           /\ request'[r] \in Health!Request /\ HealthFits(request'[r])
           /\ request'[r].step \in {"store", "answer"} /\ request'[r].cache = ok
           /\ KeptFromLately' /\ kept' \in Health!Kept \cup {None}
<1> DEFINE q == request'[r]
<1>0. /\ request \in [Requests -> Health!Request] /\ request[r] \in Health!Request
      /\ request[r].start \in 0..MaxTime /\ request[r].start <= clock
      /\ turned \in 0..MaxTime \cup {None}
      /\ request[r].database = database \/ (turned # None /\ turned >= request[r].start)
    BY HealthTypes DEF HealthInv, HealthFits, Begun, FoundLately, Health!Request
<1>1. /\ q = [request[r] EXCEPT !.step = IF request[r].kind = "metrics" THEN "store" ELSE "answer",
                                !.cache = ok, !.value = None]
      /\ request' = [request EXCEPT ![r] = q]
    BY <1>0 DEF Health!Checked
<1>2. /\ q \in Health!Request /\ q.step \in {"store", "answer"} /\ q.cache = ok
      /\ q.database = request[r].database /\ q.start = request[r].start
    BY <1>0, <1>1 DEF Health!Request, Health!Steps
<1>3. HealthFits(q)
    BY <1>0, <1>2, HealthNumbers DEF HealthFits, Begun, FoundLately, AnswersLately
<1>4. KeptFromLately' /\ kept' \in Health!Kept \cup {None}
    BY HealthTypes DEF HealthInv, KeptFromLately, Health!health
<1> QED
    BY <1>1, <1>2, <1>3, <1>4

\* One that goes on with its check.
LEMMA HealthGoesOn ==
    ASSUME HealthInv, NEW r \in Requests, NEW next \in {"get", "delete"},
           NEW value \in Requests \cup {None},
           request' = [request EXCEPT ![r] = [request[r] EXCEPT !.step = next, !.value = value]],
           request[r].step \in {"set", "get"}, UNCHANGED <<clock, Health!health, kept>>
    PROVE  /\ request' = [request EXCEPT ![r] = request'[r]]
           /\ request'[r] \in Health!Request /\ HealthFits(request'[r])
           /\ request'[r].step = next /\ request'[r].value = value
           /\ KeptFromLately' /\ kept' \in Health!Kept \cup {None}
<1> DEFINE q == request'[r]
<1>0. /\ request \in [Requests -> Health!Request] /\ request[r] \in Health!Request
      /\ request[r].start <= clock
      /\ request[r].database = database \/ (turned # None /\ turned >= request[r].start)
    BY HealthTypes DEF HealthInv, HealthFits, Begun, FoundLately
<1>1. q = [request[r] EXCEPT !.step = next, !.value = value] /\ request' = [request EXCEPT ![r] = q]
    BY <1>0
<1>2. /\ q \in Health!Request /\ q.step = next /\ q.value = value
      /\ q.database = request[r].database /\ q.start = request[r].start
    BY <1>0, <1>1 DEF Health!Request, Health!Steps
<1>3. HealthFits(q)
    BY <1>0, <1>2 DEF HealthFits, Begun, FoundLately, AnswersLately
<1>4. KeptFromLately' /\ kept' \in Health!Kept \cup {None}
    BY HealthTypes DEF HealthInv, KeptFromLately, Health!health
<1> QED
    BY <1>1, <1>2, <1>3, <1>4

LEMMA HealthFailsStep ==
    ASSUME HealthInv, NEW r \in Requests, request[r].step \in {"set", "get", "delete"},
           Health!Fails(r), UNCHANGED <<clock, Health!health, kept>>
    PROVE  HealthInv'
<1>1. alone = {} /\ UNCHANGED <<probe, alone>>
    BY HealthTypes DEF Health!Fails, HealthInv
<1>2. /\ request' = [request EXCEPT ![r] = request'[r]]
      /\ request'[r] \in Health!Request /\ HealthFits(request'[r])
      /\ KeptFromLately' /\ kept' \in Health!Kept \cup {None}
    BY HealthChecked DEF Health!Fails
<1>3. \A q \in Requests : FindsOwn(q)'
    BY <1>1 DEF FindsOwn
<1>4. probe' \in Requests \cup {None}
    BY <1>1, HealthTypes
<1> QED
    BY <1>1, <1>2, <1>3, <1>4, HealthRequestStep

LEMMA HealthSetStep ==
    ASSUME HealthInv, NEW r \in Requests, Health!CheckSet(r)
    PROVE  HealthInv'
<1> DEFINE others == {q \in Requests \ {r} : Health!Checking(q)}
<1>0. /\ request[r].step = "set" /\ UNCHANGED <<clock, Health!health, kept>>
      /\ request \in [Requests -> Health!Request] /\ request[r] \in Health!Request
      /\ request[r].value \in Requests \cup {None}
    BY HealthTypes DEF Health!CheckSet, Health!Request
<1>1. CASE Health!Fails(r)
    BY <1>0, <1>1, HealthFailsStep
<1>2. ASSUME cache, probe' = r, Health!Go(r, "get"),
             alone' = (alone \ others) \cup (IF others = {} THEN {r} ELSE {})
      PROVE  HealthInv'
    <2>1. request' = [request EXCEPT ![r] = [request[r] EXCEPT !.step = "get", !.value = request[r].value]]
        BY <1>0, <1>2 DEF Health!Go, Health!Request
    <2>2. /\ request' = [request EXCEPT ![r] = request'[r]]
          /\ request'[r] \in Health!Request /\ HealthFits(request'[r])
          /\ request'[r].step = "get"
          /\ KeptFromLately' /\ kept' \in Health!Kept \cup {None}
        BY <1>0, <2>1, HealthGoesOn
    <2>3. r \notin alone /\ \A q \in Requests \ {r} : request'[q] = request[q]
        BY <1>0, <2>1 DEF HealthInv, FindsOwn
    <2>4. ASSUME NEW q \in Requests PROVE FindsOwn(q)'
        <3>1. CASE q = r
            <4>1. r \in alone' => \A p \in Requests \ {r} : ~Health!Checking(p)
                BY <1>2, <2>3
            <4>2. r \in alone' => \A p \in Requests \ {r} : ~Health!Checking(p)'
                BY <2>3, <4>1 DEF Health!Checking
            <4> QED
                BY <1>2, <2>2, <3>1, <4>2 DEF FindsOwn
        <3>2. CASE q # r
            <4>1. q \in alone' => q \in alone /\ ~Health!Checking(q)
                BY <1>2, <3>2
            <4>2. FindsOwn(q) /\ request'[q] = request[q]
                BY <2>3, <3>2 DEF HealthInv
            <4> QED
                BY <4>1, <4>2 DEF FindsOwn, Health!Checking
        <3> QED
            BY <3>1, <3>2
    <2>5. cache = TRUE /\ alone' \subseteq alone \cup {r} /\ probe' \in Requests \cup {None}
        BY <1>2, HealthTypes
    <2> QED
        BY <1>0, <2>2, <2>4, <2>5, HealthRequestStep
<1> QED
    BY <1>1, <1>2 DEF Health!CheckSet

LEMMA HealthGetStep ==
    ASSUME HealthInv, NEW r \in Requests, Health!CheckGet(r)
    PROVE  HealthInv'
<1>0. /\ request[r].step = "get" /\ UNCHANGED <<clock, Health!health, kept>>
      /\ request \in [Requests -> Health!Request] /\ probe \in Requests \cup {None}
    BY HealthTypes DEF Health!CheckGet
<1>1. CASE Health!Fails(r)
    BY <1>0, <1>1, HealthFailsStep
<1>2. ASSUME request' = [request EXCEPT ![r].step = "delete", ![r].value = probe],
             UNCHANGED <<probe, alone>>
      PROVE  HealthInv'
    <2>1. request' = [request EXCEPT ![r] = [request[r] EXCEPT !.step = "delete", !.value = probe]]
        BY <1>0, <1>2
    <2>2. /\ request' = [request EXCEPT ![r] = request'[r]]
          /\ request'[r] \in Health!Request /\ HealthFits(request'[r])
          /\ request'[r].step = "delete" /\ request'[r].value = probe
          /\ KeptFromLately' /\ kept' \in Health!Kept \cup {None}
        BY <1>0, <2>1, HealthGoesOn
    <2>3. \A q \in Requests \ {r} : request'[q] = request[q]
        BY <1>0, <2>1
    <2>4. \A q \in Requests : Health!Checking(q)' <=> Health!Checking(q)
        BY <1>0, <2>2, <2>3 DEF Health!Checking
    <2>5. ASSUME NEW q \in Requests PROVE FindsOwn(q)'
        <3>1. FindsOwn(q)
            BY DEF HealthInv
        <3> QED
            BY <1>0, <1>2, <2>2, <2>3, <2>4, <3>1 DEF FindsOwn
    <2> QED
        BY <1>0, <1>2, <2>2, <2>5, HealthRequestStep
<1> QED
    BY <1>1, <1>2 DEF Health!CheckGet

LEMMA HealthDeleteStep ==
    ASSUME HealthInv, NEW r \in Requests, Health!CheckDelete(r)
    PROVE  HealthInv'
<1>0. /\ request[r].step = "delete" /\ UNCHANGED <<clock, Health!health, kept>>
      /\ request \in [Requests -> Health!Request]
    BY HealthTypes DEF Health!CheckDelete
<1>1. CASE Health!Fails(r)
    BY <1>0, <1>1, HealthFailsStep
<1>2. ASSUME probe' = None, Health!Checked(r, request[r].value = r), UNCHANGED alone
      PROVE  HealthInv'
    <2>1. /\ request' = [request EXCEPT ![r] = request'[r]]
          /\ request'[r] \in Health!Request /\ HealthFits(request'[r])
          /\ request'[r].step \in {"store", "answer"} /\ request'[r].cache = (request[r].value = r)
          /\ KeptFromLately' /\ kept' \in Health!Kept \cup {None}
        BY <1>0, <1>2, HealthChecked
    <2>2. \A q \in Requests \ {r} : request'[q] = request[q]
        BY <1>0, <2>1
    <2>3. \A q \in Requests : Health!Checking(q)' => Health!Checking(q)
        BY <1>0, <2>1, <2>2 DEF Health!Checking
    <2>4. ASSUME NEW q \in Requests PROVE FindsOwn(q)'
        <3>1. FindsOwn(q)
            BY DEF HealthInv
        <3>2. CASE q = r
            BY <1>0, <1>2, <2>1, <2>3, <3>1, <3>2 DEF FindsOwn
        <3>3. CASE q # r
            <4>1. q \in alone => request[q].step # "get"
                BY <1>0, <3>1, <3>3 DEF FindsOwn, Health!Checking
            <4> QED
                BY <1>2, <2>2, <2>3, <3>1, <3>3, <4>1 DEF FindsOwn
        <3> QED
            BY <3>2, <3>3
    <2> QED
        BY <1>0, <1>2, <2>1, <2>4, HealthRequestStep
<1> QED
    BY <1>1, <1>2 DEF Health!CheckDelete

LEMMA HealthTurnsStep ==
    ASSUME HealthInv, Health!DatabaseTurns \/ Health!CacheTurns \/ Health!Tick
    PROVE  HealthInv'
<1>0. /\ request \in [Requests -> Health!Request] /\ clock \in 0..MaxTime
      /\ UNCHANGED <<request, probe, kept>>
    BY HealthTypes DEF Health!DatabaseTurns, Health!CacheTurns, Health!Tick
<1>1. \A r \in Requests : request[r].start \in 0..MaxTime /\ (request[r].step # "idle" => request[r].start <= clock)
    BY <1>0 DEF HealthInv, HealthFits, Begun, Health!Request
<1>2. kept # None => kept.expires \in Nat /\ kept.expires <= clock + TTL
    <2>1. kept # None => kept \in Health!Kept
        BY HealthTypes
    <2>2. kept # None => kept.expires \in Nat
        BY <2>1, HealthNumbers DEF Health!Kept
    <2>3. kept # None => kept.expires <= clock + TTL
        BY DEF HealthInv, KeptFromLately
    <2> QED
        BY <2>2, <2>3
<1>3. CASE Health!DatabaseTurns
    <2>1. database' = ~database /\ turned' = clock /\ turned' # None /\ UNCHANGED <<clock, cache, alone>>
        BY <1>0, <1>3, HealthNumbers DEF Health!DatabaseTurns
    <2>2. Health!TypeOK'
        BY <1>0, <2>1, HealthTypes DEF Health!TypeOK
    <2>3. \A r \in Requests : HealthFits(request[r])'
        BY <1>0, <1>1, <2>1, HealthNumbers DEF HealthFits, Begun, FoundLately, AnswersLately
    <2>4. KeptFromLately'
        BY <1>0, <1>2, <2>1, HealthNumbers DEF KeptFromLately
    <2>5. \A r \in Requests : FindsOwn(r)'
        BY <1>0, <2>1 DEF HealthInv, FindsOwn, Health!Checking
    <2> QED
        BY <2>1, <2>2, <2>3, <2>4, <2>5 DEF HealthInv
<1>4. CASE Health!CacheTurns
    <2>1. cache' = ~cache /\ alone' = {} /\ UNCHANGED <<clock, database, turned>>
        BY <1>4 DEF Health!CacheTurns
    <2>2. Health!TypeOK'
        BY <1>0, <2>1, HealthTypes DEF Health!TypeOK
    <2> QED
        BY <1>0, <2>1, <2>2
        DEF HealthInv, HealthFits, Begun, FoundLately, AnswersLately, KeptFromLately, FindsOwn
<1>5. CASE Health!Tick
    <2>1. clock' = clock + 1 /\ clock < MaxTime /\ UNCHANGED <<database, cache, turned, alone>>
        BY <1>5 DEF Health!Tick, Health!health
    <2>2. Health!TypeOK'
        BY <1>0, <2>1, HealthTypes, HealthNumbers DEF Health!TypeOK
    <2>3. \A r \in Requests : HealthFits(request[r])'
        BY <1>0, <1>1, <2>1, HealthNumbers DEF HealthInv, HealthFits, Begun, FoundLately, AnswersLately
    <2>4. KeptFromLately'
        <3>1. kept' # None => kept'.expires <= clock' + TTL
            BY <1>0, <1>2, <2>1, HealthNumbers
        <3> QED
            BY <1>0, <2>1, <3>1 DEF HealthInv, KeptFromLately
    <2>5. \A r \in Requests : FindsOwn(r)'
        BY <1>0, <2>1 DEF HealthInv, FindsOwn, Health!Checking
    <2> QED
        BY <2>1, <2>2, <2>3, <2>4, <2>5 DEF HealthInv
<1> QED
    BY <1>3, <1>4, <1>5

LEMMA HealthStep == HealthInv /\ [Health!Next]_(Health!vars) => HealthInv'
<1> SUFFICES ASSUME HealthInv, [Health!Next]_(Health!vars) PROVE HealthInv'
    OBVIOUS
<1>1. CASE UNCHANGED Health!vars
    BY <1>1 DEF Health!vars, Health!health, HealthInv, Health!TypeOK, HealthFits, Begun, FoundLately,
                AnswersLately, KeptFromLately, FindsOwn, Health!Checking
<1> QED
    BY <1>1, HealthBeginStep, HealthLookStep, HealthDatabaseStep, HealthSetStep, HealthGetStep,
       HealthDeleteStep, HealthStoreStep, HealthAnswerStep, HealthTurnsStep
       DEF Health!Next

LEMMA HealthReports == HealthInv => Health!FalseAlarmNeedsCompany /\ Health!ReportsAreRecent
<1> SUFFICES ASSUME HealthInv
             PROVE  Health!FalseAlarmNeedsCompany /\ Health!ReportsAreRecent
    OBVIOUS
<1>1. Health!FalseAlarmNeedsCompany
    BY HealthTypes DEF HealthInv, FindsOwn, Health!FalseAlarmNeedsCompany
<1>2. Health!ReportsAreRecent
    BY DEF HealthInv, HealthFits, AnswersLately, Health!ReportsAreRecent
<1> QED
    BY <1>1, <1>2

-----------------------------------------------------------------------------
(* Lists of posts and wiki pages                                           *)

LEMMA ListsInit == Lists!Init => Lists!TypeOK
<1> SUFFICES ASSUME Lists!Init PROVE Lists!TypeOK
    OBVIOUS
<1>1. wiki \in [published : BOOLEAN, revised : BOOLEAN]
    BY DEF Lists!Init
<1>2. /\ status \in [Posts -> {"draft", "published", None}]
      /\ comment \in [Posts -> {"live", "deleted", None}]
      /\ request \in [{l1} -> Lists!Mark \cup {None}]
    BY DEF Lists!Init
<1> QED
    BY <1>1, <1>2 DEF Lists!Init, Lists!TypeOK

\* A toggle begins with a mark that may be.
LEMMA ListsBegin ==
    ASSUME Lists!TypeOK, NEW r \in {l1}, NEW mark \in Lists!Mark, Lists!Begin(r, mark)
    PROVE  Lists!TypeOK'
BY DEF Lists!Begin, Lists!posts, Lists!TypeOK

LEMMA ListsStep == Lists!TypeOK /\ [Lists!Next]_(Lists!vars) => Lists!TypeOK'
<1> SUFFICES ASSUME Lists!TypeOK, [Lists!Next]_(Lists!vars) PROVE Lists!TypeOK'
    OBVIOUS
<1>1. ASSUME NEW p \in Posts, NEW as \in {"draft", "published"}, Lists!Submit(p, as)
      PROVE  Lists!TypeOK'
    BY <1>1 DEF Lists!Submit, Lists!TypeOK
<1>2. ASSUME NEW p \in Posts, NEW u \in {u1, u2}, Lists!Comment(u, p)
      PROVE  Lists!TypeOK'
    BY <1>2 DEF Lists!Comment, Lists!TypeOK
<1>3. ASSUME NEW p \in Posts, Lists!Moderate(p) \/ Lists!DeleteComment(p)
      PROVE  Lists!TypeOK'
    BY <1>3 DEF Lists!Moderate, Lists!DeleteComment, Lists!TypeOK
<1>4. ASSUME NEW r \in {l1}, NEW u \in {u1, u2}, NEW kind \in Lists!Kinds, NEW p \in Posts,
             Lists!ToggleRead(r, u, kind, p)
      PROVE  Lists!TypeOK'
    <2>1. [user |-> u, kind |-> kind, post |-> p] \in Lists!Mark
        BY DEF Lists!Mark
    <2> QED
        BY <1>4, <2>1, ListsBegin DEF Lists!ToggleRead
<1>5. ASSUME NEW r \in {l1}, NEW u \in {u1, u2}, Lists!WikiToggleRead(r, u)
      PROVE  Lists!TypeOK'
    <2>1. [user |-> u, kind |-> "wiki", post |-> None] \in Lists!Mark
        BY DEF Lists!Mark
    <2> QED
        BY <1>5, <2>1, ListsBegin DEF Lists!WikiToggleRead
<1>6. ASSUME NEW r \in {l1}, Lists!Toggle(r)
      PROVE  Lists!TypeOK'
    BY <1>6 DEF Lists!Toggle, Lists!posts, Lists!TypeOK
<1>7. CASE Lists!WikiChanges
    <2>1. wiki' \in [published : BOOLEAN, revised : BOOLEAN]
        BY <1>7 DEF Lists!WikiChanges, Lists!TypeOK
    <2> QED
        BY <1>7, <2>1 DEF Lists!WikiChanges, Lists!posts, Lists!TypeOK
<1>8. CASE UNCHANGED Lists!vars
    BY <1>8 DEF Lists!vars, Lists!posts, Lists!TypeOK
<1> QED
    BY <1>1, <1>2, <1>3, <1>4, <1>5, <1>6, <1>7, <1>8 DEF Lists!Next

\* What a user's own lists have: what is published, and drafts of the user's.
LEMMA OwnListsOpen ==
    ASSUME Lists!TypeOK, NEW u \in {u1, u2}
    PROVE  /\ Lists!ProfileVisible(u) \ deleted = Lists!Opens(u)
           /\ Lists!Authored(u) \subseteq Lists!Opens(u)
<1>1. status \in [Posts -> {"draft", "published", None}]
    BY DEF Lists!TypeOK
<1>2. Lists!ProfileVisible(u) \ deleted = Lists!Opens(u)
    BY DEF Lists!ProfileVisible, Lists!Opens, Lists!Published, Lists!Drafts
<1>3. Lists!Authored(u) \subseteq Lists!Opens(u)
    BY <1>1 DEF Lists!Authored, Lists!Opens, Lists!Published, Lists!Drafts
<1> QED
    BY <1>2, <1>3

LEMMA ListsOpen == Lists!TypeOK => Lists!ListedOpens
<1> SUFFICES ASSUME Lists!TypeOK PROVE Lists!ListedOpens
    OBVIOUS
<1>1. Lists!Feed \cup Lists!PublicMain \cup Lists!Hot \cup Lists!Search \cup Lists!Referring
      \cup UNION {Lists!Related(p) : p \in Posts} \subseteq Lists!Opens(None)
    BY DEF Lists!Feed, Lists!PublicMain, Lists!Hot, Lists!Search, Lists!Referring, Lists!Related, Lists!Opens
<1>2. ASSUME NEW u \in {u1, u2}
      PROVE  Lists!Dashboard(u) \cup Lists!DraftList(u) \cup Lists!Activity(u) \subseteq Lists!Opens(u)
    <2>1. Lists!Liked(u) \cup Lists!Bookmarked(u) \cup Lists!LikedComments(u) \subseteq Lists!Opens(u)
        BY OwnListsOpen DEF Lists!Liked, Lists!Bookmarked, Lists!LikedComments
    <2> QED
        BY <2>1, OwnListsOpen DEF Lists!Dashboard, Lists!DraftList, Lists!Activity, Lists!Opens
<1>3. Lists!WikiCards \/ Lists!WikiHome \/ (\E u \in {u1, u2} : Lists!WikiBookmarked(u)) => Lists!WikiOpens
    BY DEF Lists!WikiCards, Lists!WikiHome, Lists!WikiFound, Lists!WikiBookmarked, Lists!WikiOpens
<1> QED
    BY <1>1, <1>2, <1>3 DEF Lists!ListedOpens

LEMMA MarksListed == Lists!TypeOK => Lists!MarksAreListed
<1> SUFFICES ASSUME Lists!TypeOK PROVE Lists!MarksAreListed
    OBVIOUS
<1>1. ASSUME NEW u \in {u1, u2}
      PROVE  /\ Lists!Marked(u, "like") \cap Lists!Opens(u) \subseteq Lists!Liked(u)
             /\ Lists!Marked(u, "bookmark") \cap Lists!Opens(u) \subseteq Lists!Bookmarked(u)
             /\ (Lists!Marked(u, "comment") \cap Lists!Commented \cap Lists!Opens(u)) \subseteq Lists!LikedComments(u)
    BY OwnListsOpen DEF Lists!Liked, Lists!Bookmarked, Lists!LikedComments
<1>2. ASSUME NEW u \in {u1, u2}, Lists!WikiMarked(u), Lists!WikiOpens
      PROVE  Lists!WikiBookmarked(u)
    BY <1>2 DEF Lists!WikiOpens, Lists!WikiBookmarked
<1>3. ASSUME NEW u \in {u1, u2}
      PROVE  Lists!AuthoredCount(u) = Lists!Cardinality(Lists!Authored(u))
    <2>1. {p \in Posts : status[p] # None /\ Author[p] = u /\ p \notin deleted} = Lists!Authored(u)
        BY DEF Lists!Authored
    <2> QED
        BY <2>1 DEF Lists!AuthoredCount
<1>4. /\ Lists!PostCount = Lists!Cardinality(Lists!Feed)
      /\ Lists!ReferringCount = Lists!Cardinality(Lists!Referring)
    <2>1. {p \in Posts : status[p] = "published" /\ p \notin deleted} = Lists!Published
        BY DEF Lists!Published
    <2> QED
        BY <2>1 DEF Lists!PostCount, Lists!ReferringCount, Lists!Feed, Lists!Referring
<1> QED
    BY <1>1, <1>2, <1>3, <1>4 DEF Lists!MarksAreListed

-----------------------------------------------------------------------------
(* Composing a post                                                        *)

ComposeRequest ==
    request = None \/ request \in [step : {"check", "find", "update", "insert"},
                                   past : BOOLEAN, withdrawn : SUBSET Documents]

\* While a form is on its way there is no page to change it; what was a post when it was
\* sent still is, and will not be updated; and once the form is found valid, the documents
\* of it that are closed were closed since.
ComposeUnderway ==
    request # None =>
        /\ page = None
        /\ request.past => row # None /\ row.status # "draft"
        /\ request.past => request.step # "update"
        /\ request.step # "check" => chips \ open \subseteq request.withdrawn

ComposeInv == ComposeRequest /\ ComposeUnderway

-----------------------------------------------------------------------------

LEMMA ComposeInit == Compose!Init => ComposeInv
<1> SUFFICES ASSUME Compose!Init PROVE ComposeInv
    OBVIOUS
<1> QED
    BY DEF Compose!Init, ComposeInv, ComposeRequest, ComposeUnderway

\* The browser leaves the row alone, and has nothing to do while a form is on its way.
LEMMA ComposeBrowser ==
    ASSUME ComposeInv, UNCHANGED <<open, row, request>>,
           request # None => page' = None /\ chips' = chips
    PROVE  ComposeInv'
BY DEF ComposeInv, ComposeRequest, ComposeUnderway

LEMMA ComposeStep == ComposeInv /\ [Compose!Next]_(Compose!vars) => ComposeInv'
<1> SUFFICES ASSUME ComposeInv, [Compose!Next]_(Compose!vars) PROVE ComposeInv'
    OBVIOUS
<1>1. ASSUME NEW locked \in SUBSET Documents, NEW continues \in BOOLEAN, Compose!Load(locked, continues)
      PROVE  ComposeInv'
    BY <1>1, ComposeBrowser DEF Compose!Load
<1>2. CASE Compose!LoadDraft \/ Compose!Close
    BY <1>2, ComposeBrowser DEF Compose!LoadDraft, Compose!Close, Compose!Apply, ComposeInv, ComposeUnderway
<1>3. CASE Compose!Ask \/ Compose!PickerKnows \/ Compose!PickerAnswers
    BY <1>3, ComposeBrowser DEF Compose!Ask, Compose!PickerKnows, Compose!PickerAnswers,
                                Compose!form, ComposeInv, ComposeUnderway
<1>4. ASSUME NEW d \in Documents, Compose!Add(d) \/ Compose!Remove(d)
      PROVE  ComposeInv'
    BY <1>4, ComposeBrowser DEF Compose!Add, Compose!Remove, ComposeInv, ComposeUnderway
<1>5. CASE Compose!Submit
    BY <1>5 DEF Compose!Submit, Compose!form, Compose!IsDraft, ComposeInv, ComposeRequest, ComposeUnderway
<1>6. CASE Compose!Check
    BY <1>6 DEF Compose!Check, Compose!Valid, Compose!form, ComposeInv, ComposeRequest, ComposeUnderway
<1>7. CASE Compose!Refuse
    BY <1>7 DEF Compose!Refuse, ComposeInv, ComposeRequest, ComposeUnderway
<1>8. CASE Compose!Find
    <2>1. request.past => ~Compose!Continues
        BY <1>8 DEF Compose!Find, Compose!Continues, Compose!IsDraft, ComposeInv, ComposeUnderway
    <2> QED
        BY <1>8, <2>1 DEF Compose!Find, Compose!form, ComposeInv, ComposeRequest, ComposeUnderway
<1>9. ASSUME NEW as \in Compose!Statuses, Compose!Save(as)
      PROVE  ComposeInv'
    BY <1>9 DEF Compose!Save, ComposeInv, ComposeRequest, ComposeUnderway
<1>10. ASSUME NEW d \in Documents, Compose!Moderate(d)
       PROVE  ComposeInv'
    <2>1. ComposeRequest'
        BY <1>10 DEF Compose!Moderate, ComposeInv, ComposeRequest
    <2>2. ComposeUnderway'
        BY <1>10 DEF Compose!Moderate, Compose!form, ComposeInv, ComposeRequest, ComposeUnderway
    <2> QED
        BY <2>1, <2>2 DEF ComposeInv
<1>11. ASSUME NEW as \in Compose!Statuses, NEW docs \in SUBSET Documents, Compose!OtherTab(as, docs)
       PROVE  ComposeInv'
    BY <1>11 DEF Compose!OtherTab, Compose!IsDraft, Compose!form, ComposeInv, ComposeRequest, ComposeUnderway
<1>12. CASE UNCHANGED Compose!vars
    BY <1>12, ComposeBrowser DEF Compose!vars, Compose!form, ComposeInv, ComposeUnderway
<1> QED
    BY <1>1, <1>2, <1>3, <1>4, <1>5, <1>6, <1>7, <1>8, <1>9, <1>10, <1>11, <1>12 DEF Compose!Next

\* Only a save ends a submission and writes the row at once; all other steps leave one of
\* them alone.
LEMMA SaveSound ==
    ASSUME ComposeInv, NEW as \in Compose!Statuses, Compose!Save(as)
    PROVE  Compose!SavesAreSound
<1>1. request # None /\ request.step \in {"update", "insert"}
    BY DEF Compose!Save
<1>2. SUFFICES ASSUME row' # row
               PROVE  ~request.past /\ chips \ open \subseteq request.withdrawn
    BY DEF Compose!SavesAreSound
<1>3. request.step = "update" \/ row = None
    BY <1>2 DEF Compose!Save
<1>4. ~request.past
    BY <1>1, <1>3 DEF ComposeInv, ComposeUnderway
<1>5. chips \ open \subseteq request.withdrawn
    BY <1>1 DEF ComposeInv, ComposeUnderway
<1> QED
    BY <1>4, <1>5

LEMMA ComposeSaves == ComposeInv /\ [Compose!Next]_(Compose!vars) => Compose!SavesAreSound
<1> SUFFICES ASSUME ComposeInv, Compose!Next PROVE Compose!SavesAreSound
    BY DEF Compose!SavesAreSound, Compose!vars
<1>1. CASE \E as \in Compose!Statuses : Compose!Save(as)
    BY <1>1, SaveSound
<1>2. CASE row' = row \/ request' = request
    BY <1>2 DEF Compose!SavesAreSound
<1>3. CASE \E locked \in SUBSET Documents, continues \in BOOLEAN : Compose!Load(locked, continues)
    BY <1>2, <1>3 DEF Compose!Load
<1>4. CASE \/ Compose!LoadDraft \/ Compose!Close
           \/ Compose!Ask \/ Compose!PickerKnows \/ Compose!PickerAnswers
    BY <1>2, <1>4 DEF Compose!LoadDraft, Compose!Close, Compose!Ask, Compose!PickerKnows, Compose!PickerAnswers
<1>5. CASE Compose!Check \/ Compose!Refuse \/ Compose!Find \/ Compose!Submit
    BY <1>2, <1>5 DEF Compose!Check, Compose!Refuse, Compose!Find, Compose!Submit
<1>6. CASE \E d \in Documents : Compose!Add(d) \/ Compose!Remove(d) \/ Compose!Moderate(d)
    BY <1>2, <1>6 DEF Compose!Add, Compose!Remove, Compose!Moderate
<1>7. CASE \E as \in Compose!Statuses, docs \in SUBSET Documents : Compose!OtherTab(as, docs)
    BY <1>2, <1>7 DEF Compose!OtherTab
<1> QED
    BY <1>1, <1>3, <1>4, <1>5, <1>6, <1>7 DEF Compose!Next

\* A search that goes out has the chips there are; once the picker knows them, what it has
\* is right for open documents; the exceptions are those that have moved since.
SearchInv ==
    search # None =>
        /\ ~search.known => \A d \in Documents \ moved : d \in search.chips <=> d \in chips
        /\ search.known => \A d \in open \ moved : d \in search.chips <=> d \in chips

Labels == open \subseteq Documents /\ Compose!LabelsFollowChips /\ (page # None => SearchInv)

LEMMA LabelsInit == Compose!Init => Labels
BY DEF Compose!Init, Labels, Compose!LabelsFollowChips

LEMMA RenderLabels ==
    ASSUME Labels, open' = open, NEW locked, NEW docs, NEW continues,
           Compose!Render(locked, docs, continues)
    PROVE  Labels'
BY DEF Compose!Render, Labels, Compose!LabelsFollowChips, SearchInv

LEMMA ApplyLabels ==
    ASSUME Labels, page # None, NEW docs, NEW continues, Compose!Apply(docs, continues),
           UNCHANGED <<open, page>>
    PROVE  Labels'
<1>1. Compose!LabelsFollowChips'
    BY DEF Compose!Apply, Labels, Compose!LabelsFollowChips
<1>2. SearchInv'
    BY DEF Compose!Apply, Compose!Note, Labels, SearchInv
<1> QED
    BY <1>1, <1>2 DEF Labels

LEMMA ChipLabels ==
    ASSUME Labels, NEW d \in Documents, Compose!Add(d) \/ Compose!Remove(d)
    PROVE  Labels'
<1>1. Compose!LabelsFollowChips'
    BY DEF Compose!Add, Compose!Remove, Labels, Compose!LabelsFollowChips
<1>2. SearchInv'
    BY DEF Compose!Add, Compose!Remove, Compose!Note, Labels, SearchInv
<1> QED
    BY <1>1, <1>2 DEF Compose!Add, Compose!Remove, Labels

LEMMA PickerLabels ==
    ASSUME Labels, Compose!Ask \/ Compose!PickerKnows \/ Compose!PickerAnswers
    PROVE  Labels'
<1>1. CASE Compose!Ask
    BY <1>1 DEF Compose!Ask, Compose!form, Labels, Compose!LabelsFollowChips, SearchInv
<1>2. CASE Compose!PickerKnows
    <2>1. /\ open \subseteq Documents
          /\ \A d \in Documents \ moved : d \in search.chips <=> d \in chips
        BY <1>2 DEF Compose!PickerKnows, Labels, SearchInv
    <2> QED
        BY <1>2, <2>1 DEF Compose!PickerKnows, Compose!form, Labels, Compose!LabelsFollowChips, SearchInv
<1>3. CASE Compose!PickerAnswers
    <2>1. \A d \in open \ moved : d \in search.chips <=> d \in chips
        BY <1>3 DEF Compose!PickerAnswers, Labels, SearchInv
    <2> QED
        BY <1>3, <2>1 DEF Compose!PickerAnswers, Compose!form, Labels, Compose!LabelsFollowChips, SearchInv
<1> QED
    BY <1>1, <1>2, <1>3

LEMMA ModerateLabels ==
    ASSUME Labels, NEW d \in Documents, Compose!Moderate(d)
    PROVE  Labels'
<1>1. /\ open' \subseteq Documents
      /\ \A e \in open' \ {d} : e \in open
    BY DEF Compose!Moderate, Labels
<1>2. Compose!LabelsFollowChips'
    BY DEF Compose!Moderate, Compose!form, Labels, Compose!LabelsFollowChips
<1>3. ASSUME page # None PROVE SearchInv'
    BY <1>1, <1>3 DEF Compose!Moderate, Compose!Note, Compose!form, Labels, SearchInv
<1> QED
    BY <1>1, <1>2, <1>3 DEF Compose!Moderate, Labels

\* A form that is saved has no page whose labels it could make wrong.
LEMMA LabelsStep == ComposeInv /\ Labels /\ [Compose!Next]_(Compose!vars) => Labels'
<1> SUFFICES ASSUME ComposeInv, Labels, [Compose!Next]_(Compose!vars) PROVE Labels'
    OBVIOUS
<1>1. ASSUME NEW locked \in SUBSET Documents, NEW continues \in BOOLEAN, Compose!Load(locked, continues)
      PROVE  Labels'
    BY <1>1, RenderLabels DEF Compose!Load
<1>2. CASE Compose!LoadDraft \/ Compose!Close
    BY <1>2, ApplyLabels DEF Compose!LoadDraft, Compose!Close
<1>3. CASE Compose!Ask \/ Compose!PickerKnows \/ Compose!PickerAnswers
    BY <1>3, PickerLabels
<1>4. ASSUME NEW d \in Documents, Compose!Add(d) \/ Compose!Remove(d)
      PROVE  Labels'
    BY <1>4, ChipLabels
<1>5. CASE Compose!Refuse
    BY <1>5, RenderLabels DEF Compose!Refuse
<1>6. CASE Compose!Submit
    BY <1>6 DEF Compose!Submit, Labels, Compose!LabelsFollowChips
<1>7. ASSUME NEW d \in Documents, Compose!Moderate(d)
      PROVE  Labels'
    BY <1>7, ModerateLabels
<1>8. CASE UNCHANGED <<open, page, Compose!form, Compose!results>>
    BY <1>8 DEF Compose!form, Compose!results, Labels, Compose!LabelsFollowChips, SearchInv
<1>9. CASE Compose!Check \/ Compose!Find
    BY <1>8, <1>9 DEF Compose!Check, Compose!Find
<1>10. CASE \E as \in Compose!Statuses, docs \in SUBSET Documents : Compose!OtherTab(as, docs)
    BY <1>8, <1>10 DEF Compose!OtherTab
<1>11. ASSUME NEW as \in Compose!Statuses, Compose!Save(as)
       PROVE  Labels'
    <2>1. page' = None
        BY <1>11 DEF Compose!Save, ComposeInv, ComposeUnderway
    <2> QED
        BY <1>11, <2>1 DEF Compose!Save, Labels, Compose!LabelsFollowChips
<1>12. CASE UNCHANGED Compose!vars
    BY <1>8, <1>12 DEF Compose!vars
<1> QED
    BY <1>1, <1>2, <1>3, <1>4, <1>5, <1>6, <1>7, <1>9, <1>10, <1>11, <1>12 DEF Compose!Next

LEMMA LabelsRight == Labels => Compose!LabelsFollowChips
BY DEF Labels

\* What the form has, what it began with and what is locked into it, the draft it offers and
\* the one that is stored.
PageFits ==
    page # None =>
        /\ page.locked \subseteq page.initial /\ page.locked \subseteq chips
        /\ Cardinality(page.locked) <= 1
        /\ page.initial \subseteq Documents /\ Cardinality(page.initial) <= MaxChips + 1
        /\ page.payload # None =>
               page.payload \subseteq Documents /\ Cardinality(page.payload) <= MaxChips

RowFits == row # None => row.docs \subseteq Documents /\ Cardinality(row.docs) <= MaxChips

ChipsFit ==
    /\ chips \subseteq Documents /\ Cardinality(chips) <= MaxChips + 1
    /\ request # None => page = None
    /\ request # None /\ request.step # "check" => Cardinality(chips) <= MaxChips

Sizes == /\ open \subseteq Documents /\ PageFits /\ RowFits /\ ChipsFit
         /\ Compose!AtMostOneTooMany

LEMMA ComposeNumbers == IsFiniteSet(Documents) /\ MaxChips \in Nat /\ MaxChips > 0 /\ MaxMoves \in Nat
<1>1. Compose!IsFiniteSet(Documents) /\ MaxChips \in Nat /\ MaxChips > 0 /\ MaxMoves \in Nat
    BY PartsAssumption DEF Compose!ComposeAssumption
<1> QED
    BY <1>1 DEF Compose!IsFiniteSet, IsFiniteSet

LEMMA ComposeCardinality == \A S : Compose!Cardinality(S) = Cardinality(S)
BY DEF Compose!Cardinality, Cardinality

LEMMA DocumentsCount ==
    ASSUME NEW S, S \subseteq Documents
    PROVE  /\ IsFiniteSet(S) /\ Cardinality(S) \in Nat
           /\ \A T : T \subseteq S => Cardinality(T) \in Nat /\ Cardinality(T) <= Cardinality(S)
           /\ \A d : /\ Cardinality(S \cup {d}) <= Cardinality(S) + 1
                     /\ d \in S => Cardinality(S \ {d}) + 1 = Cardinality(S)
<1>1. IsFiniteSet(S) /\ Cardinality(S) \in Nat
    BY ComposeNumbers, FS_Subset, FS_CardinalityType
<1>2. ASSUME NEW T, T \subseteq S PROVE Cardinality(T) \in Nat /\ Cardinality(T) <= Cardinality(S)
    BY <1>1, <1>2, FS_Subset, FS_CardinalityType
<1>3. ASSUME NEW d PROVE Cardinality(S \cup {d}) <= Cardinality(S) + 1
    BY <1>1, FS_AddElement
<1>4. ASSUME NEW d \in S PROVE Cardinality(S \ {d}) + 1 = Cardinality(S)
    <2>1. Cardinality(S \ {d}) = Cardinality(S) - 1
        BY <1>1, FS_RemoveElement
    <2> QED
        BY <1>1, <2>1
<1> QED
    BY <1>1, <1>2, <1>3, <1>4

\* What is locked is one document at most.
LEMMA LockedIsOne ==
    ASSUME NEW L, L \subseteq Documents, Cardinality(L) <= 1
    PROVE  L = {} \/ \E d \in L : L = {d}
<1>1. IsFiniteSet(L) /\ Cardinality(L) \in {0, 1}
    BY DocumentsCount
<1> QED
    BY <1>1, FS_EmptySet, FS_Singleton

\* Documents beside the locked one.
LEMMA BesideLocked ==
    ASSUME NEW L, NEW docs, L \subseteq Documents, docs \subseteq Documents, Cardinality(L) <= 1,
           Cardinality(docs) <= MaxChips
    PROVE  /\ L \cup docs \subseteq Documents /\ Cardinality(L \cup docs) <= MaxChips + 1
           /\ Cardinality(L \cup docs) > MaxChips => \E d \in L : docs = (L \cup docs) \ {d}
<1>1. CASE L = {}
    <2>1. L \cup docs = docs
        BY <1>1
    <2> QED
        BY <2>1, DocumentsCount, ComposeNumbers
<1>2. ASSUME NEW d \in L, L = {d}
      PROVE  /\ L \cup docs \subseteq Documents /\ Cardinality(L \cup docs) <= MaxChips + 1
             /\ Cardinality(L \cup docs) > MaxChips => docs = (L \cup docs) \ {d}
    <2>1. L \cup docs = docs \cup {d} /\ d \in Documents
        BY <1>2
    <2>2. /\ Cardinality(docs) \in Nat /\ Cardinality(docs \cup {d}) <= Cardinality(docs) + 1
          /\ Cardinality(docs \cup {d}) \in Nat
        BY <2>1, DocumentsCount
    <2>3. d \in docs => docs \cup {d} = docs
        OBVIOUS
    <2>4. Cardinality(docs \cup {d}) > MaxChips => d \notin docs
        BY <2>2, <2>3, ComposeNumbers
    <2> QED
        BY <1>2, <2>1, <2>2, <2>4, ComposeNumbers
<1> QED
    BY <1>1, <1>2, LockedIsOne

LEMMA SizesInit == Compose!Init => Sizes
<1> SUFFICES ASSUME Compose!Init PROVE Sizes
    OBVIOUS
<1>1. RowFits
    BY ComposeCardinality DEF Compose!Init, RowFits
<1>2. chips = {} /\ Cardinality(chips) = 0 /\ page = None /\ request = None
    BY FS_EmptySet DEF Compose!Init
<1> QED
    BY <1>1, <1>2, ComposeNumbers
    DEF Compose!Init, Sizes, PageFits, ChipsFit, Compose!AtMostOneTooMany

\* A page comes with chips, and offers the draft that is stored.
LEMMA RenderSizes ==
    ASSUME Sizes, NEW locked, NEW docs, NEW continues, Compose!Render(locked, docs, continues),
           locked \subseteq docs, locked \subseteq open, Cardinality(locked) <= 1,
           docs \subseteq Documents, Cardinality(docs) <= MaxChips + 1,
           UNCHANGED <<open, row>>, request' = None
    PROVE  Sizes'
<1>1. /\ page' = [locked |-> locked, initial |-> docs \cap open, continues |-> continues,
                  payload |-> IF Compose!IsDraft THEN row.docs ELSE None]
      /\ chips' = docs \cap open
    BY DEF Compose!Render
<1>2. /\ page'.locked = locked /\ page'.initial = docs \cap open
      /\ page'.payload = IF Compose!IsDraft THEN row.docs ELSE None
    BY <1>1
<1>3. /\ docs \cap open \subseteq Documents /\ Cardinality(docs \cap open) <= MaxChips + 1
      /\ Cardinality(docs \cap open) \in Nat
    <2>1. docs \cap open \subseteq docs
        OBVIOUS
    <2> QED
        BY <2>1, DocumentsCount, ComposeNumbers
<1>4. PageFits'
    BY <1>1, <1>2, <1>3 DEF Sizes, PageFits, RowFits, Compose!IsDraft
<1>5. ChipsFit'
    BY <1>1, <1>3 DEF ChipsFit
<1>6. Compose!AtMostOneTooMany'
    <2>1. Cardinality(chips') > MaxChips => Cardinality(chips') = MaxChips + 1
        BY <1>1, <1>3, ComposeNumbers
    <2> QED
        BY <1>1, <1>2, <2>1, ComposeCardinality DEF Compose!AtMostOneTooMany
<1> QED
    BY <1>4, <1>5, <1>6 DEF Sizes, RowFits

LEMMA LoadSizes ==
    ASSUME Sizes, NEW locked \in SUBSET Documents, NEW continues \in BOOLEAN,
           Compose!Load(locked, continues)
    PROVE  Sizes'
<1> DEFINE docs == IF continues THEN row.docs \cup locked ELSE locked
<1>1. /\ locked \subseteq open /\ Cardinality(locked) <= 1 /\ request = None
      /\ continues => row # None
      /\ Compose!Render(locked, docs, continues) /\ UNCHANGED <<open, row, request>>
    BY ComposeCardinality DEF Compose!Load, Compose!IsDraft
<1>2. continues => row.docs \subseteq Documents /\ Cardinality(row.docs) <= MaxChips
    BY <1>1 DEF Sizes, RowFits
<1>3. /\ docs \subseteq Documents /\ Cardinality(docs) <= MaxChips + 1 /\ locked \subseteq docs
    <2>1. CASE continues
        <3>1. docs = locked \cup row.docs
            BY <2>1
        <3> QED
            BY <1>1, <1>2, <2>1, <3>1, BesideLocked
    <2>2. CASE ~continues
        <3>1. docs = locked /\ docs \subseteq Documents
            BY <2>2
        <3>2. Cardinality(locked) \in Nat
            BY DocumentsCount
        <3>3. Cardinality(locked) <= MaxChips + 1
            BY <1>1, <3>2, ComposeNumbers
        <3> HIDE DEF docs
        <3> QED
            BY <3>1, <3>3
    <2> QED
        BY <2>1, <2>2
<1> HIDE DEF docs
<1> QED
    BY <1>1, <1>3, RenderSizes

LEMMA RefuseSizes ==
    ASSUME Sizes, Compose!Refuse
    PROVE  Sizes'
<1>1. Cardinality({}) <= 1 /\ {} \subseteq chips /\ {} \subseteq open
    BY FS_EmptySet
<1> QED
    BY <1>1, RenderSizes DEF Compose!Refuse, Sizes, ChipsFit

\* The page stays; a form that is replaced keeps what is locked.
LEMMA ApplySizes ==
    ASSUME Sizes, page # None, NEW docs, NEW continues, Compose!Apply(docs, continues),
           docs \subseteq Documents, Cardinality(docs) <= MaxChips \/ docs = page.initial,
           docs # page.initial => docs = page.payload,
           UNCHANGED <<open, row, page, request>>
    PROVE  Sizes'
<1> DEFINE L == page.locked
<1>1. /\ L \subseteq Documents /\ L \subseteq chips /\ L \subseteq page.initial /\ Cardinality(L) <= 1
      /\ page.initial \subseteq Documents /\ Cardinality(page.initial) <= MaxChips + 1
      /\ request = None
    BY DEF Sizes, PageFits, ChipsFit
<1>2. chips' = L \cup docs
    BY <1>1 DEF Compose!Apply
<1>3. PageFits'
    BY <1>2 DEF Sizes, PageFits
<1>4. CASE docs = page.initial
    <2>1. chips' = page.initial /\ Cardinality(chips') \in Nat
        BY <1>1, <1>2, <1>4, DocumentsCount
    <2>2. ChipsFit'
        BY <1>1, <2>1 DEF ChipsFit
    <2>3. Cardinality(chips') > MaxChips => Cardinality(chips') = MaxChips + 1
        BY <1>1, <2>1, ComposeNumbers
    <2>4. Compose!AtMostOneTooMany'
        BY <2>1, <2>3, ComposeCardinality DEF Compose!AtMostOneTooMany
    <2> QED
        BY <1>3, <2>2, <2>4 DEF Sizes, RowFits
<1>5. CASE docs # page.initial
    <2>1. /\ chips' \subseteq Documents /\ Cardinality(chips') <= MaxChips + 1
          /\ Cardinality(chips') > MaxChips => \E d \in L : docs = chips' \ {d}
          /\ Cardinality(chips') \in Nat
        <3>1. PICK all : all = L \cup docs /\ all = chips'
            BY <1>2
        <3>2. /\ all \subseteq Documents /\ Cardinality(all) <= MaxChips + 1
              /\ Cardinality(all) > MaxChips => \E d \in L : docs = all \ {d}
            BY <1>1, <1>5, <3>1, BesideLocked
        <3>3. Cardinality(all) \in Nat
            BY <3>2, DocumentsCount
        <3> QED
            BY <3>1, <3>2, <3>3
    <2>2. ChipsFit'
        BY <1>1, <2>1 DEF ChipsFit
    <2>3. Cardinality(chips') > MaxChips => Cardinality(chips') = MaxChips + 1
        BY <2>1, ComposeNumbers
    <2>4. Compose!AtMostOneTooMany'
        BY <1>5, <2>1, <2>3, ComposeCardinality DEF Compose!AtMostOneTooMany
    <2> QED
        BY <1>3, <2>2, <2>4 DEF Sizes, RowFits
<1> QED
    BY <1>4, <1>5

\* With no more chips than there may be, little has to be said.
LEMMA FewChips ==
    ASSUME Sizes, chips' \subseteq Documents, Cardinality(chips') \in Nat, Cardinality(chips') <= MaxChips,
           page # None => page.locked \subseteq chips', open' \subseteq Documents,
           page' = page, RowFits', request' # None => page = None
    PROVE  Sizes'
<1>1. PageFits'
    BY DEF Sizes, PageFits
<1>2. ChipsFit'
    BY ComposeNumbers DEF ChipsFit
<1>3. Compose!AtMostOneTooMany'
    <2>1. ~(Cardinality(chips') > MaxChips)
        BY ComposeNumbers
    <2> QED
        BY <2>1, ComposeCardinality DEF Compose!AtMostOneTooMany
<1> QED
    BY <1>1, <1>2, <1>3 DEF Sizes

LEMMA ChipSizes ==
    ASSUME Sizes, NEW d \in Documents, Compose!Add(d) \/ Compose!Remove(d)
    PROVE  Sizes'
<1>1. /\ chips \subseteq Documents /\ Cardinality(chips) \in Nat /\ Cardinality(chips) <= MaxChips + 1
      /\ page # None => page.locked \subseteq chips
    BY DocumentsCount DEF Sizes, ChipsFit, PageFits
<1>2. UNCHANGED <<open, row, page, request>>
    BY DEF Compose!Add, Compose!Remove
<1>3. /\ chips' \subseteq Documents
      /\ page # None => page.locked \subseteq chips'
      /\ Cardinality(chips') \in Nat /\ Cardinality(chips') <= MaxChips
    <2>1. CASE Compose!Add(d)
        <3>1. chips' = chips \cup {d} /\ Cardinality(chips) < MaxChips
            BY <2>1, ComposeCardinality DEF Compose!Add
        <3>2. chips' \subseteq Documents /\ Cardinality(chips') \in Nat /\ Cardinality(chips') <= Cardinality(chips) + 1
            BY <1>1, <3>1, DocumentsCount
        <3> QED
            BY <1>1, <3>1, <3>2, ComposeNumbers
    <2>2. CASE Compose!Remove(d)
        <3>1. chips' = chips \ {d} /\ d \in chips /\ d \notin page.locked
            BY <2>2 DEF Compose!Remove
        <3>2. chips' \subseteq Documents /\ Cardinality(chips') \in Nat /\ Cardinality(chips') + 1 = Cardinality(chips)
            BY <1>1, <3>1, DocumentsCount
        <3> QED
            BY <1>1, <3>1, <3>2, ComposeNumbers
    <2> QED
        BY <2>1, <2>2
<1>4. RowFits' /\ open' \subseteq Documents /\ (request' # None => page = None)
    BY <1>2 DEF Sizes, RowFits, ChipsFit
<1>5. page' = page
    BY <1>2
<1> QED
    BY <1>3, <1>4, <1>5, FewChips

\* Steps that leave the form, its page and the row alone.
LEMMA OtherSizes ==
    ASSUME Sizes, UNCHANGED <<chips, page>>, open' \subseteq Documents, RowFits',
           request' # None =>
               /\ page = None
               /\ request'.step # "check" => Cardinality(chips) <= MaxChips
    PROVE  Sizes'
BY DEF Sizes, PageFits, ChipsFit, Compose!AtMostOneTooMany

LEMMA SizesStep == Sizes /\ [Compose!Next]_(Compose!vars) => Sizes'
<1> SUFFICES ASSUME Sizes, [Compose!Next]_(Compose!vars) PROVE Sizes'
    OBVIOUS
<1>0. row' = row => RowFits'
    BY DEF Sizes, RowFits
<1>1. ASSUME NEW locked \in SUBSET Documents, NEW continues \in BOOLEAN,
             Compose!Load(locked, continues)
      PROVE  Sizes'
    BY <1>1, LoadSizes
<1>2. CASE Compose!LoadDraft
    BY <1>2, ApplySizes DEF Compose!LoadDraft, Sizes, PageFits
<1>3. CASE Compose!Close
    BY <1>3, ApplySizes DEF Compose!Close, Sizes, PageFits
<1>4. CASE Compose!Ask \/ Compose!PickerKnows \/ Compose!PickerAnswers \/ UNCHANGED Compose!vars
    <2>1. UNCHANGED <<open, row, page, chips, request>>
        BY <1>4 DEF Compose!Ask, Compose!PickerKnows, Compose!PickerAnswers, Compose!form, Compose!vars
    <2> QED
        BY <1>0, <2>1, OtherSizes DEF Sizes, ChipsFit
<1>5. ASSUME NEW d \in Documents, Compose!Add(d) \/ Compose!Remove(d)
      PROVE  Sizes'
    BY <1>5, ChipSizes
<1>6. CASE Compose!Refuse
    BY <1>6, RefuseSizes
<1>7. CASE Compose!Submit
    <2>1. /\ page' = None /\ UNCHANGED <<open, row, chips>> /\ request'.step = "check"
          /\ request = None
        BY <1>7 DEF Compose!Submit, Compose!form, Sizes, ChipsFit
    <2> QED
        BY <1>0, <2>1 DEF Sizes, PageFits, ChipsFit, Compose!AtMostOneTooMany
<1>8. CASE Compose!Check
    <2>1. /\ UNCHANGED <<open, row, chips, page>> /\ request # None /\ Cardinality(chips) <= MaxChips
        BY <1>8, ComposeCardinality DEF Compose!Check, Compose!form, Compose!Valid
    <2> QED
        BY <1>0, <2>1, OtherSizes DEF Sizes, ChipsFit
<1>9. CASE Compose!Find
    <2>1. /\ UNCHANGED <<open, row, chips, page>> /\ request # None /\ request.step = "find"
        BY <1>9 DEF Compose!Find, Compose!form
    <2> QED
        BY <1>0, <2>1, OtherSizes DEF Sizes, ChipsFit
<1>10. ASSUME NEW as \in Compose!Statuses, Compose!Save(as)
       PROVE  Sizes'
    <2>1. /\ UNCHANGED <<open, page>> /\ request # None /\ request' = None /\ chips' = {}
          /\ row' = row \/ row' = [status |-> as, docs |-> chips]
          /\ request.step # "check"
        BY <1>10 DEF Compose!Save
    <2>2. page = None /\ chips \subseteq Documents /\ Cardinality(chips) <= MaxChips
        BY <2>1 DEF Sizes, ChipsFit
    <2>3. RowFits'
        <3>1. CASE row' = [status |-> as, docs |-> chips]
            <4>1. row'.docs = chips
                BY <3>1
            <4> QED
                BY <2>2, <4>1 DEF RowFits
        <3> QED
            BY <1>0, <2>1, <3>1
    <2>4. Cardinality(chips') = 0 /\ chips' \subseteq Documents /\ open' \subseteq Documents
        BY <2>1, FS_EmptySet DEF Sizes
    <2> QED
        BY <2>1, <2>2, <2>3, <2>4, FewChips, ComposeNumbers
<1>11. ASSUME NEW d \in Documents, Compose!Moderate(d)
       PROVE  Sizes'
    <2>1. /\ UNCHANGED <<row, page, chips>> /\ open' \subseteq Documents
          /\ request' # None => request # None
        BY <1>11 DEF Compose!Moderate, Compose!form, Sizes
    <2>2. request' # None => (request'.step # "check" => request.step # "check")
        BY <1>11 DEF Compose!Moderate
    <2> QED
        BY <1>0, <2>1, <2>2, OtherSizes DEF Sizes, ChipsFit
<1>12. ASSUME NEW as \in Compose!Statuses, NEW docs \in SUBSET Documents, Compose!OtherTab(as, docs)
       PROVE  Sizes'
    <2>1. /\ UNCHANGED <<open, page, chips, request>> /\ row' = [status |-> as, docs |-> docs]
          /\ Cardinality(docs) <= MaxChips
        BY <1>12, ComposeCardinality DEF Compose!OtherTab, Compose!form
    <2>2. RowFits'
        BY <2>1 DEF RowFits
    <2> QED
        BY <2>1, <2>2, OtherSizes DEF Sizes, ChipsFit
<1> QED
    BY <1>1, <1>2, <1>3, <1>4, <1>5, <1>6, <1>7, <1>8, <1>9, <1>10, <1>11, <1>12 DEF Compose!Next

\* The types, of which only what comes back from the page is not plain.
ComposeTypes ==
    /\ Compose!TypeOK
    /\ page # None => page.continues \in BOOLEAN

LEMMA TypesInit == Compose!Init => ComposeTypes
<1> SUFFICES ASSUME Compose!Init PROVE ComposeTypes
    OBVIOUS
<1>1. moves \in 0..MaxMoves
    BY ComposeNumbers DEF Compose!Init
<1>2. target \in BOOLEAN
    BY DEF Compose!Init
<1> QED
    BY <1>1, <1>2 DEF Compose!Init, ComposeTypes, Compose!TypeOK

LEMMA RenderTypes ==
    ASSUME ComposeTypes, NEW locked, NEW docs, NEW continues \in BOOLEAN,
           Compose!Render(locked, docs, continues), UNCHANGED <<open, moves>>
    PROVE  ComposeTypes'
<1>1. page'.continues = continues
    BY DEF Compose!Render
<1> QED
    BY <1>1 DEF Compose!Render, ComposeTypes, Compose!TypeOK

LEMMA ApplyTypes ==
    ASSUME Sizes, ComposeTypes, page # None, NEW docs, docs \subseteq Documents, NEW continues \in BOOLEAN,
           Compose!Apply(docs, continues), UNCHANGED <<open, page, moves>>
    PROVE  ComposeTypes'
<1>1. chips' \subseteq Documents /\ moved' \subseteq Documents
    BY DEF Compose!Apply, Compose!Note, ComposeTypes, Compose!TypeOK
<1> QED
    BY <1>1 DEF Compose!Apply, ComposeTypes, Compose!TypeOK

LEMMA TypesStep == Sizes /\ ComposeTypes /\ [Compose!Next]_(Compose!vars) => ComposeTypes'
<1> SUFFICES ASSUME Sizes, ComposeTypes, [Compose!Next]_(Compose!vars) PROVE ComposeTypes'
    OBVIOUS
<1>1. ASSUME NEW locked \in SUBSET Documents, NEW continues \in BOOLEAN,
             Compose!Load(locked, continues)
      PROVE  ComposeTypes'
    BY <1>1, RenderTypes DEF Compose!Load
<1>2. CASE Compose!LoadDraft \/ Compose!Close
    <2>1. page # None => /\ page.initial \subseteq Documents /\ page.continues \in BOOLEAN
                         /\ page.payload # None => page.payload \subseteq Documents
        BY DEF Sizes, PageFits, ComposeTypes
    <2> QED
        BY <1>2, <2>1, ApplyTypes DEF Compose!LoadDraft, Compose!Close
<1>3. CASE Compose!Ask \/ Compose!PickerKnows \/ Compose!PickerAnswers
    BY <1>3 DEF Compose!Ask, Compose!PickerKnows, Compose!PickerAnswers,
                Compose!form, ComposeTypes, Compose!TypeOK
<1>4. ASSUME NEW d \in Documents, Compose!Add(d) \/ Compose!Remove(d)
      PROVE  ComposeTypes'
    BY <1>4 DEF Compose!Add, Compose!Remove, Compose!Note, ComposeTypes, Compose!TypeOK
<1>5. CASE Compose!Refuse
    BY <1>5, RenderTypes DEF Compose!Refuse, ComposeTypes, Compose!TypeOK
<1>6. CASE Compose!Submit
    BY <1>6 DEF Compose!Submit, Compose!form, ComposeTypes, Compose!TypeOK
<1>7. CASE Compose!Check \/ Compose!Find \/ UNCHANGED Compose!vars
    BY <1>7 DEF Compose!Check, Compose!Find, Compose!form,
                Compose!results, Compose!vars, ComposeTypes, Compose!TypeOK
<1>8. ASSUME NEW as \in Compose!Statuses, Compose!Save(as)
      PROVE  ComposeTypes'
    BY <1>8 DEF Compose!Save, Compose!results, ComposeTypes, Compose!TypeOK
<1>9. ASSUME NEW d \in Documents, Compose!Moderate(d)
      PROVE  ComposeTypes'
    <2>1. moves' \in 0..MaxMoves
        BY <1>9, ComposeNumbers DEF Compose!Moderate, ComposeTypes, Compose!TypeOK
    <2> QED
        BY <1>9, <2>1 DEF Compose!Moderate, Compose!Note, Compose!form, ComposeTypes, Compose!TypeOK
<1>10. ASSUME NEW as \in Compose!Statuses, NEW docs \in SUBSET Documents, Compose!OtherTab(as, docs)
       PROVE  ComposeTypes'
    <2>1. moves' \in 0..MaxMoves
        BY <1>10, ComposeNumbers DEF Compose!OtherTab, ComposeTypes, Compose!TypeOK
    <2> QED
        BY <1>10, <2>1 DEF Compose!OtherTab, Compose!form, Compose!results, ComposeTypes, Compose!TypeOK
<1> QED
    BY <1>1, <1>2, <1>3, <1>4, <1>5, <1>6, <1>7, <1>8, <1>9, <1>10 DEF Compose!Next

-----------------------------------------------------------------------------
(* The limit of logins                                                     *)

\* The wrong passwords of a window are the last n, the first of them as old as the window,
\* and before them no more than the limit; when it is over no more than the limit are left.
Counted(ages, n, expires) ==
    /\ n \in 1 .. Attempts
    /\ IF expires > 0
       THEN /\ ages[n] = Logins!Window - expires
            /\ ages[n + Attempts + 1] = Logins!Window
       ELSE ages[Attempts + 1] = Logins!Window

Recording(r) == req[r].step = "record"

\* As long as logins follow one another the count is right, in the entry or with the request
\* that is about to set it, and a request that passed the check is below the limit.
CountIsRight == calm =>
    /\ ~Logins!Overlap
    /\ \A r \in Requests : Recording(r) => Counted(recent, req[r].attempts, req[r].expires)
    /\ (\A r \in Requests : ~Recording(r)) =>
           IF entry = None THEN recent[Attempts + 1] = Logins!Window
           ELSE Counted(recent, entry.attempts, entry.expires)
    /\ (\E r \in Requests : req[r].step # "idle") => ~Logins!Limited

InOrder == \A i, j \in Logins!Kept : i <= j => recent[i] <= recent[j]

LoginsInv ==
    /\ Logins!TypeOK
    /\ \A r \in Requests : Recording(r) => req[r].attempts > 0
    /\ Logins!EntryEndsWithWindow
    /\ InOrder
    /\ CountIsRight

LEMMA LoginsNumbers ==
    /\ Attempts \in Nat /\ Attempts > 0
    /\ TicksPerSecond \in Nat /\ TicksPerSecond > 0
    /\ Logins!Window \in Nat /\ Logins!Window > 0
    /\ Logins!Kept = 1 .. 2 * Attempts + 1
    /\ None \notin [attempts : Nat, expires : Nat, ttl : Nat]
<1>1. {Attempts, WindowSeconds, TicksPerSecond} \subseteq Nat \ {0}
    BY PartsAssumption DEF Logins!LimitAssumption
<1>2. WindowSeconds * TicksPerSecond \in Nat \ {0}
    BY <1>1
<1> QED
    BY <1>1, <1>2, PartsAssumption DEF Logins!LimitAssumption, Logins!Window, Logins!Kept

\* _remaining_timeout_seconds rounds up: never less than what is left, at most a second more.
LEMMA TimeoutBounds ==
    ASSUME NEW e \in Nat
    PROVE  /\ Logins!RemainingTimeout(e) \in Nat \ {0}
           /\ e <= Logins!RemainingTimeout(e) /\ Logins!RemainingTimeout(e) <= e + TicksPerSecond
<1> DEFINE T == TicksPerSecond
           q == (e + T - 1) \div T
<1>1. T \in Nat /\ T > 0
    BY LoginsNumbers
<1>2. q \in Nat /\ T * q <= e + T - 1 /\ e + T - 1 < T * q + T
    BY <1>1
<1>3. Logins!Max({1, q}) = IF q > 1 THEN q ELSE 1
    BY <1>2 DEF Logins!Max
<1>4. Logins!RemainingTimeout(e) = T * IF q > 1 THEN q ELSE 1
    BY <1>3 DEF Logins!RemainingTimeout
<1>5. CASE q > 1
    <2>1. T * q \in Nat
        BY <1>1, <1>2
    <2> QED
        BY <1>1, <1>2, <1>4, <1>5, <2>1
<1>6. CASE ~(q > 1)
    <2>1. T * q <= T
        BY <1>1, <1>2, <1>6
    <2>2. T * 1 = T
        BY <1>1
    <2> QED
        BY <1>1, <1>2, <1>4, <1>6, <2>1, <2>2
<1> QED
    BY <1>5, <1>6

LEMMA LoginsInit == Logins!Init => LoginsInv
<1> SUFFICES ASSUME Logins!Init PROVE LoginsInv
    OBVIOUS
<1> USE LoginsNumbers
<1>1. \A r \in Requests : req[r] = Logins!Idle /\ req[r].step = "idle"
    BY DEF Logins!Init, Logins!Idle
<1>2. recent = [i \in Logins!Kept |-> Logins!Window] /\ entry = None /\ calm = TRUE
    BY DEF Logins!Init
<1>3. Logins!TypeOK
    BY <1>2 DEF Logins!Init, Logins!Idle, Logins!TypeOK
<1>4. InOrder /\ recent[Attempts + 1] = Logins!Window
    BY <1>2 DEF InOrder
<1>5. CountIsRight
    BY <1>1, <1>2, <1>4 DEF CountIsRight, Recording, Logins!Overlap
<1> QED
    BY <1>1, <1>2, <1>3, <1>4, <1>5 DEF LoginsInv, Recording, Logins!EntryEndsWithWindow

LEMMA LoginsTypes ==
    ASSUME LoginsInv
    PROVE  /\ req \in [Requests -> [step : {"idle", "verify", "record"},
                                    attempts : Nat, expires : 0 .. Logins!Window]]
           /\ recent \in [Logins!Kept -> 0 .. Logins!Window]
           /\ calm \in BOOLEAN
           /\ entry # None =>
                 /\ entry \in [attempts : Nat \ {0}, expires : 0 .. Logins!Window, ttl : Nat \ {0}]
                 /\ entry.attempts \in Nat /\ entry.attempts > 0
                 /\ entry.expires \in Nat /\ entry.expires <= Logins!Window
                 /\ entry.ttl \in Nat /\ entry.ttl > 0
                 /\ entry.expires <= entry.ttl /\ entry.ttl <= entry.expires + TicksPerSecond
           /\ \A r \in Requests :
                 /\ req[r].step \in {"idle", "verify", "record"}
                 /\ req[r].attempts \in Nat
                 /\ req[r].expires \in Nat /\ req[r].expires <= Logins!Window
           /\ \A i \in Logins!Kept : recent[i] \in Nat /\ recent[i] <= Logins!Window
<1>1. /\ req \in [Requests -> [step : {"idle", "verify", "record"},
                                attempts : Nat, expires : 0 .. Logins!Window]]
      /\ recent \in [Logins!Kept -> 0 .. Logins!Window]
      /\ calm \in BOOLEAN
      /\ entry # None =>
            entry \in [attempts : Nat \ {0}, expires : 0 .. Logins!Window, ttl : Nat \ {0}]
    BY DEF LoginsInv, Logins!TypeOK
<1>2. entry # None => entry.expires <= entry.ttl /\ entry.ttl <= entry.expires + TicksPerSecond
    BY DEF LoginsInv, Logins!EntryEndsWithWindow
<1>3. entry # None => /\ entry.attempts \in Nat /\ entry.attempts > 0
                      /\ entry.expires \in Nat /\ entry.expires <= Logins!Window
                      /\ entry.ttl \in Nat /\ entry.ttl > 0
    BY <1>1, LoginsNumbers
<1>4. \A r \in Requests :
         /\ req[r].step \in {"idle", "verify", "record"}
         /\ req[r].attempts \in Nat
         /\ req[r].expires \in Nat /\ req[r].expires <= Logins!Window
    BY <1>1, LoginsNumbers
<1>5. \A i \in Logins!Kept : recent[i] \in Nat /\ recent[i] <= Logins!Window
    BY <1>1, LoginsNumbers
<1> QED
    BY <1>1, <1>2, <1>3, <1>4, <1>5

\* What a count says is still true a tick later.
LEMMA CountedLater ==
    ASSUME LoginsInv, recent' = [i \in Logins!Kept |-> Logins!After(recent[i])],
           NEW n \in Nat, NEW e \in 0 .. Logins!Window, Counted(recent, n, e)
    PROVE  Counted(recent', n, Logins!Before(e))
<1> USE LoginsNumbers
<1>1. /\ n \in 1 .. Attempts /\ n \in Logins!Kept /\ Attempts + 1 \in Logins!Kept
      /\ n + Attempts + 1 \in Logins!Kept
    BY DEF Counted
<1>2. \A i \in Logins!Kept : /\ recent[i] \in Nat /\ recent[i] <= Logins!Window
                             /\ recent'[i] = Logins!After(recent[i])
    BY LoginsTypes
<1>3. CASE e > 1
    BY <1>1, <1>2, <1>3 DEF Counted, Logins!Before, Logins!After
<1>4. CASE e = 1
    <2>1. recent[n] = Logins!Window - 1 /\ recent[n] <= recent[Attempts + 1]
        BY <1>1, <1>4 DEF Counted, LoginsInv, InOrder
    <2>2. recent'[Attempts + 1] = Logins!Window
        BY <1>1, <1>2, <2>1 DEF Logins!After
    <2> QED
        BY <1>1, <1>4, <2>2 DEF Counted, Logins!Before
<1>5. CASE e = 0
    BY <1>1, <1>2, <1>5 DEF Counted, Logins!Before, Logins!After
<1> QED
    BY <1>3, <1>4, <1>5

LEMMA TickKeepsOrder ==
    ASSUME LoginsInv, recent' = [i \in Logins!Kept |-> Logins!After(recent[i])]
    PROVE  recent' \in [Logins!Kept -> 0 .. Logins!Window] /\ InOrder'
<1> USE LoginsNumbers
<1>1. \A i \in Logins!Kept : /\ recent[i] \in Nat /\ recent[i] <= Logins!Window
                             /\ recent'[i] = Logins!After(recent[i])
    BY LoginsTypes
<1>2. \A i \in Logins!Kept : recent'[i] \in 0 .. Logins!Window
    BY <1>1 DEF Logins!After
<1>3. InOrder'
    BY <1>1 DEF LoginsInv, InOrder, Logins!After, Logins!Kept
<1> QED
    BY <1>2, <1>3

LEMMA LoginsTick == ASSUME LoginsInv, Logins!Tick, calm' = (calm /\ ~Logins!Overlap')
                    PROVE  LoginsInv'
<1> USE LoginsNumbers
<1>0. /\ recent' = [i \in Logins!Kept |-> Logins!After(recent[i])]
      /\ req' = [r \in Requests |-> [req[r] EXCEPT !.expires = Logins!Before(@)]]
      /\ entry' = IF entry = None \/ entry.ttl = 1 THEN None
                  ELSE [entry EXCEPT !.expires = Logins!Before(@), !.ttl = @ - 1]
    BY DEF Logins!Tick
<1>1. \A r \in Requests : /\ req'[r].step = req[r].step /\ req'[r].attempts = req[r].attempts
                          /\ req'[r].expires = Logins!Before(req[r].expires)
                          /\ req'[r].expires \in 0 .. Logins!Window
    BY <1>0, LoginsTypes DEF Logins!Before
<1>2. \/ entry = None /\ entry' = None
      \/ entry # None /\ entry' = None /\ entry.expires \in {0, 1}
      \/ /\ entry # None /\ entry' # None /\ entry.ttl > 1
         /\ entry' = [attempts |-> entry.attempts, expires |-> Logins!Before(entry.expires),
                      ttl |-> entry.ttl - 1]
    <2>1. CASE entry = None
        BY <1>0, <2>1
    <2>2. CASE entry # None /\ entry.ttl = 1
        BY <1>0, <2>2, LoginsTypes
    <2>3. CASE entry # None /\ entry.ttl # 1
        <3>1. entry \in [attempts : Nat \ {0}, expires : 0 .. Logins!Window, ttl : Nat \ {0}]
            BY <2>3, LoginsTypes
        <3>2. entry' = [entry EXCEPT !.expires = Logins!Before(entry.expires), !.ttl = entry.ttl - 1]
            BY <1>0, <2>3
        <3>3. entry' = [attempts |-> entry.attempts, expires |-> Logins!Before(entry.expires),
                        ttl |-> entry.ttl - 1]
            BY <3>1, <3>2
        <3>4. entry.ttl > 1
            BY <2>3, LoginsTypes
        <3>5. entry' \in [attempts : Nat, expires : Nat, ttl : Nat]
            BY <3>3, <3>4, <2>3, LoginsTypes DEF Logins!Before
        <3> QED
            BY <2>3, <3>3, <3>4, <3>5
    <2> QED
        BY <2>1, <2>2, <2>3
<1>3. Logins!TypeOK'
    <2>1. req' \in [Requests -> [step : {"idle", "verify", "record"},
                                 attempts : Nat, expires : 0 .. Logins!Window]]
        BY <1>0, <1>1, LoginsTypes DEF Logins!Before
    <2>2. calm' \in BOOLEAN
        OBVIOUS
    <2>3. entry' \in [attempts : Nat \ {0}, expires : 0 .. Logins!Window, ttl : Nat \ {0}] \cup {None}
        BY <1>2, LoginsTypes DEF Logins!Before
    <2> QED
        BY <1>0, <2>1, <2>2, <2>3, TickKeepsOrder DEF Logins!TypeOK
<1>4. Logins!EntryEndsWithWindow'
    BY <1>2, LoginsTypes DEF Logins!EntryEndsWithWindow, Logins!Before
<1>5. CountIsRight'
    <2> SUFFICES ASSUME calm' PROVE CountIsRight'
        BY DEF CountIsRight
    <2>1. calm /\ ~Logins!Overlap'
        OBVIOUS
    <2>2. ASSUME NEW r \in Requests, Recording(r)'
          PROVE  Counted(recent', req'[r].attempts, req'[r].expires)
        <3>1. /\ Counted(recent, req[r].attempts, req[r].expires)
              /\ req[r].attempts \in Nat /\ req[r].expires \in 0 .. Logins!Window
            BY <1>1, <2>1, <2>2, LoginsTypes DEF LoginsInv, CountIsRight, Recording
        <3>2. Counted(recent', req[r].attempts, Logins!Before(req[r].expires))
            BY <1>0, <3>1, CountedLater
        <3> QED
            BY <1>1, <3>2
    <2>3. ASSUME \A r \in Requests : ~Recording(r)'
          PROVE  IF entry' = None THEN recent'[Attempts + 1] = Logins!Window
                 ELSE Counted(recent', entry'.attempts, entry'.expires)
        <3>1. IF entry = None THEN recent[Attempts + 1] = Logins!Window
              ELSE Counted(recent, entry.attempts, entry.expires)
            BY <1>1, <2>1, <2>3 DEF LoginsInv, CountIsRight, Recording
        <3>2. CASE entry = None
            BY <1>0, <1>2, <3>1, <3>2 DEF Logins!After
        <3>3. CASE entry # None
            <4>1. Counted(recent', entry.attempts, Logins!Before(entry.expires))
                BY <1>0, <3>1, <3>3, CountedLater, LoginsTypes
            <4>2. CASE entry' # None
                BY <1>2, <3>3, <4>1, <4>2
            <4>3. CASE entry' = None
                <5>1. Logins!Before(entry.expires) = 0
                    BY <1>2, <3>3, <4>3 DEF Logins!Before
                <5> QED
                    BY <4>1, <4>3, <5>1 DEF Counted
            <4> QED
                BY <4>2, <4>3
        <3> QED
            BY <3>2, <3>3
    <2>4. (\E r \in Requests : req[r].step # "idle")' => ~Logins!Limited'
        BY <1>1, <1>2, <2>1 DEF LoginsInv, CountIsRight, Logins!Limited
    <2> QED
        BY <2>1, <2>2, <2>3, <2>4 DEF CountIsRight
<1> QED
    BY <1>0, <1>1, <1>3, <1>4, <1>5, TickKeepsOrder DEF LoginsInv, Recording

\* A count goes up by one with the wrong password it stands for.
LEMMA OneMore ==
    ASSUME NEW n \in Nat, NEW e \in Nat, n > 0, ~(n >= Attempts), e > 0,
           recent' = [i \in Logins!Kept |-> IF i = 1 THEN 0 ELSE recent[i - 1]],
           Counted(recent, n, e)
    PROVE  Counted(recent', n + 1, e)
<1>1. /\ Attempts \in Nat /\ Logins!Kept = 1 .. 2 * Attempts + 1
    BY LoginsNumbers
<1>2. n + 1 \in 1 .. Attempts
    BY <1>1
<1>3. n + 1 \in Logins!Kept /\ n + 1 + Attempts + 1 \in Logins!Kept
    BY <1>1
<1>4. n + 1 # 1 /\ n + 1 + Attempts + 1 # 1 /\ (n + 1) - 1 = n
      /\ (n + 1 + Attempts + 1) - 1 = n + Attempts + 1
    BY <1>1
<1>5. recent'[n + 1] = recent[n] /\ recent'[n + 1 + Attempts + 1] = recent[n + Attempts + 1]
    BY <1>3, <1>4
<1> QED
    BY <1>2, <1>5 DEF Counted

\* Another wrong password: the window it is in has one more, or it begins a window.
LEMMA CountedMore ==
    ASSUME LoginsInv, recent' = [i \in Logins!Kept |-> IF i = 1 THEN 0 ELSE recent[i - 1]],
           ~Logins!Limited,
           IF entry = None THEN recent[Attempts + 1] = Logins!Window
           ELSE Counted(recent, entry.attempts, entry.expires)
    PROVE  IF entry = None \/ entry.expires = 0 THEN Counted(recent', 1, Logins!Window)
           ELSE Counted(recent', entry.attempts + 1, entry.expires)
<1> USE LoginsNumbers
<1>1. \A i \in Logins!Kept : recent'[i] = IF i = 1 THEN 0 ELSE recent[i - 1]
    OBVIOUS
<1>2. CASE entry = None \/ entry.expires = 0
    <2>1. recent[Attempts + 1] = Logins!Window
        BY <1>2 DEF Counted
    <2>2. recent'[1] = 0 /\ recent'[1 + Attempts + 1] = recent[Attempts + 1]
        BY <1>1
    <2> QED
        BY <1>2, <2>1, <2>2 DEF Counted
<1>3. CASE entry # None /\ entry.expires # 0
    <2>1. PICK n \in Nat : n = entry.attempts
        BY <1>3, LoginsTypes
    <2>2. PICK e \in Nat : e = entry.expires
        BY <1>3, LoginsTypes
    <2>3. n > 0 /\ ~(n >= Attempts) /\ e > 0
        <3>1. ~(entry.attempts >= Attempts)
            BY <1>3 DEF Logins!Limited
        <3> QED
            BY <1>3, <2>1, <2>2, <3>1, LoginsTypes
    <2>7. Counted(recent, n, e)
        BY <1>3, <2>1, <2>2
    <2>8. Counted(recent', n + 1, e)
        BY <2>3, <2>7, OneMore
    <2> QED
        BY <1>3, <2>1, <2>2, <2>8
<1> QED
    BY <1>2, <1>3

LEMMA LoginsCheck == ASSUME LoginsInv, NEW r \in Requests, Logins!Check(r), calm' = (calm /\ ~Logins!Overlap')
                     PROVE  LoginsInv'
<1> USE LoginsNumbers
<1>0. /\ req[r].step = "idle" /\ ~Logins!Limited /\ UNCHANGED <<entry, recent>>
      /\ req' = [req EXCEPT ![r].step = "verify"]
    BY DEF Logins!Check
<1>1. /\ req'[r].step = "verify"
      /\ \A s \in Requests : s # r => req'[s] = req[s]
      /\ req' \in [Requests -> [step : {"idle", "verify", "record"},
                                attempts : Nat, expires : 0 .. Logins!Window]]
    BY <1>0, LoginsTypes
<1>2. Logins!TypeOK'
    BY <1>0, <1>1 DEF Logins!TypeOK, LoginsInv
<1>3. CountIsRight'
    <2> SUFFICES ASSUME calm' PROVE CountIsRight'
        BY DEF CountIsRight
    <2>1. calm /\ ~Logins!Overlap'
        OBVIOUS
    <2>2. \A s \in Requests : Recording(s)' <=> Recording(s) /\ s # r
        BY <1>0, <1>1 DEF Recording
    <2>3. \A s \in Requests : ~Recording(s)'
        BY <1>1, <2>1 DEF Recording, Logins!Overlap
    <2>4. \A s \in Requests : ~Recording(s)
        BY <1>0, <2>2, <2>3 DEF Recording
    <2> QED
        BY <1>0, <2>1, <2>3, <2>4 DEF LoginsInv, CountIsRight, Logins!Limited
<1> QED
    BY <1>0, <1>1, <1>2, <1>3 DEF LoginsInv, Recording, InOrder, Logins!EntryEndsWithWindow

LEMMA LoginsFail == ASSUME LoginsInv, NEW r \in Requests, Logins!Fail(r), calm' = (calm /\ ~Logins!Overlap')
                    PROVE  LoginsInv'
<1> USE LoginsNumbers
<1> DEFINE over == entry = None \/ entry.expires = 0
           q == [step |-> "record", attempts |-> IF over THEN 1 ELSE entry.attempts + 1,
                 expires |-> IF over THEN Logins!Window ELSE entry.expires]
<1>0. /\ req[r].step = "verify" /\ entry' = entry
      /\ req' = [req EXCEPT ![r] = q]
      /\ recent' = [i \in Logins!Kept |-> IF i = 1 THEN 0 ELSE recent[i - 1]]
    BY DEF Logins!Fail
<1>1. /\ q.step = "record" /\ q.attempts \in Nat /\ q.attempts > 0
      /\ q.expires \in 0 .. Logins!Window
      /\ q \in [step : {"idle", "verify", "record"}, attempts : Nat, expires : 0 .. Logins!Window]
    BY LoginsTypes
<1>2. /\ req'[r] = q
      /\ \A s \in Requests : s # r => req'[s] = req[s]
      /\ req' \in [Requests -> [step : {"idle", "verify", "record"},
                                attempts : Nat, expires : 0 .. Logins!Window]]
    BY <1>0, <1>1, LoginsTypes
<1>3. /\ \A i \in Logins!Kept : recent'[i] = IF i = 1 THEN 0 ELSE recent[i - 1]
      /\ \A i \in Logins!Kept : recent'[i] \in 0 .. Logins!Window
      /\ \A i \in Logins!Kept : i # 1 => i - 1 \in Logins!Kept
    BY <1>0, LoginsTypes
<1>4. InOrder'
    BY <1>3 DEF LoginsInv, InOrder
<1>5. Logins!TypeOK'
    BY <1>0, <1>2, <1>3 DEF Logins!TypeOK, LoginsInv
<1>6. CountIsRight'
    <2> SUFFICES ASSUME calm' PROVE CountIsRight'
        BY DEF CountIsRight
    <2>1. calm /\ ~Logins!Overlap' /\ ~Logins!Overlap
        BY DEF LoginsInv, CountIsRight
    <2>2. ~Logins!Limited /\ ~Logins!Limited'
        BY <1>0, <2>1 DEF LoginsInv, CountIsRight, Logins!Limited
    <2>3. \A s \in Requests : ~Recording(s)
        BY <1>0, <2>1 DEF Recording, Logins!Overlap
    <2>4. IF over THEN Counted(recent', 1, Logins!Window)
          ELSE Counted(recent', entry.attempts + 1, entry.expires)
        BY <1>0, <2>1, <2>2, <2>3, CountedMore DEF LoginsInv, CountIsRight
    <2>5. Counted(recent', q.attempts, q.expires)
        BY <2>4
    <2>6. \A s \in Requests : Recording(s)' <=> s = r
        BY <1>1, <1>2, <2>3 DEF Recording
    <2>7. \A s \in Requests : Recording(s)' => Counted(recent', req'[s].attempts, req'[s].expires)
        BY <1>2, <2>5, <2>6
    <2> HIDE DEF q
    <2> QED
        BY <2>1, <2>2, <2>6, <2>7 DEF CountIsRight
<1>7. \A s \in Requests : Recording(s)' => req'[s].attempts > 0
    BY <1>1, <1>2 DEF LoginsInv, Recording
<1> QED
    BY <1>0, <1>4, <1>5, <1>6, <1>7 DEF LoginsInv, Logins!EntryEndsWithWindow

LEMMA LoginsRecord == ASSUME LoginsInv, NEW r \in Requests, Logins!Record(r), calm' = (calm /\ ~Logins!Overlap')
                      PROVE  LoginsInv'
<1> USE LoginsNumbers
<1> DEFINE left == Logins!RemainingTimeout(req[r].expires)
<1>0. /\ req[r].step = "record" /\ recent' = recent
      /\ req' = [req EXCEPT ![r] = Logins!Idle]
      /\ entry' = [attempts |-> req[r].attempts, expires |-> req[r].expires, ttl |-> left]
    BY DEF Logins!Record
<1>1. /\ req[r].attempts \in Nat /\ req[r].attempts > 0
      /\ req[r].expires \in Nat /\ req[r].expires <= Logins!Window
      /\ left \in Nat /\ left > 0
      /\ req[r].expires <= left /\ left <= req[r].expires + TicksPerSecond
    <2>1. PICK e \in Nat : e = req[r].expires
        BY LoginsTypes
    <2>2. left \in Nat \ {0} /\ e <= left /\ left <= e + TicksPerSecond
        BY <2>1, TimeoutBounds
    <2>3. req[r].attempts \in Nat /\ e <= Logins!Window
        BY <2>1, LoginsTypes
    <2>4. req[r].attempts > 0
        BY <1>0 DEF LoginsInv, Recording
    <2> HIDE DEF left
    <2> QED
        BY <2>1, <2>2, <2>3, <2>4
<1> HIDE DEF left
<1>2. /\ entry'.attempts = req[r].attempts /\ entry'.expires = req[r].expires
      /\ entry'.ttl = left
      /\ entry' \in [attempts : Nat \ {0}, expires : 0 .. Logins!Window, ttl : Nat \ {0}]
      /\ entry' # None
    BY <1>0, <1>1
<1>3. /\ req'[r] = Logins!Idle /\ req'[r].step = "idle"
      /\ \A s \in Requests : s # r => req'[s] = req[s]
      /\ req' \in [Requests -> [step : {"idle", "verify", "record"},
                                attempts : Nat, expires : 0 .. Logins!Window]]
    BY <1>0, LoginsTypes DEF Logins!Idle
<1>4. Logins!TypeOK'
    BY <1>0, <1>2, <1>3 DEF Logins!TypeOK, LoginsInv
<1>5. CountIsRight'
    <2> SUFFICES ASSUME calm' PROVE CountIsRight'
        BY DEF CountIsRight
    <2>1. calm /\ ~Logins!Overlap' /\ ~Logins!Overlap
        BY DEF LoginsInv, CountIsRight
    <2>2. \A s \in Requests : req'[s].step = "idle"
        BY <1>0, <1>3, <2>1 DEF Logins!Overlap
    <2>3. Counted(recent', entry'.attempts, entry'.expires)
        BY <1>0, <1>2, <2>1 DEF LoginsInv, CountIsRight, Recording
    <2> QED
        BY <1>2, <2>1, <2>2, <2>3 DEF CountIsRight, Recording
<1>6. Logins!EntryEndsWithWindow'
    BY <1>1, <1>2 DEF Logins!EntryEndsWithWindow
<1>7. \A s \in Requests : Recording(s)' => req'[s].attempts > 0
    BY <1>3 DEF LoginsInv, Recording
<1> QED
    BY <1>0, <1>4, <1>5, <1>6, <1>7 DEF LoginsInv, InOrder

LEMMA LoginsSucceed == ASSUME LoginsInv, NEW r \in Requests, Logins!Succeed(r), calm' = (calm /\ ~Logins!Overlap')
                       PROVE  LoginsInv'
<1> USE LoginsNumbers
<1>0. /\ entry' = None
      /\ req' = [req EXCEPT ![r] = Logins!Idle]
      /\ recent' = [i \in Logins!Kept |-> Logins!Window]
    BY DEF Logins!Succeed
<1>1. /\ req'[r].step = "idle"
      /\ \A s \in Requests : s # r => req'[s] = req[s]
      /\ req' \in [Requests -> [step : {"idle", "verify", "record"},
                                attempts : Nat, expires : 0 .. Logins!Window]]
    BY <1>0, LoginsTypes DEF Logins!Idle
<1>2. Logins!TypeOK'
    BY <1>0, <1>1 DEF Logins!TypeOK, LoginsInv
<1>3. InOrder' /\ recent'[Attempts + 1] = Logins!Window
    BY <1>0 DEF InOrder
<1>4. CountIsRight'
    <2> SUFFICES ASSUME calm' PROVE CountIsRight'
        BY DEF CountIsRight
    <2>1. ~Logins!Overlap' /\ ~Logins!Overlap
        BY DEF LoginsInv, CountIsRight
    <2>2. req[r].step = "verify"
        BY DEF Logins!Succeed
    <2>3. \A s \in Requests : req'[s].step = "idle"
        BY <1>1, <2>1, <2>2 DEF Logins!Overlap
    <2> QED
        BY <1>0, <1>3, <2>1, <2>3 DEF CountIsRight, Recording
<1> QED
    BY <1>0, <1>1, <1>2, <1>3, <1>4 DEF LoginsInv, Recording, Logins!EntryEndsWithWindow

LEMMA LoginsStep == LoginsInv /\ [Logins!Next]_(Logins!vars) => LoginsInv'
<1> SUFFICES ASSUME LoginsInv, [Logins!Next]_(Logins!vars) PROVE LoginsInv'
    OBVIOUS
<1>1. CASE UNCHANGED Logins!vars
    BY <1>1 DEF Logins!vars, LoginsInv, InOrder, CountIsRight, Recording, Logins!TypeOK,
                Logins!EntryEndsWithWindow, Logins!Overlap, Logins!Limited
<1>2. CASE Logins!Next
    BY <1>2, LoginsTick, LoginsCheck, LoginsFail, LoginsRecord, LoginsSucceed
       DEF Logins!Next, Logins!Step
<1> QED
    BY <1>1, <1>2

LEMMA LoginsLimited == LoginsInv => Logins!LimitIsKept
<1> SUFFICES ASSUME LoginsInv, calm PROVE Logins!TriesAreLimited /\ Logins!LockedForCause
    BY DEF Logins!LimitIsKept
<1> USE LoginsNumbers
<1>1. /\ 2 * Attempts + 1 \in Logins!Kept /\ Attempts \in Logins!Kept /\ Attempts + 1 \in Logins!Kept
      /\ recent[2 * Attempts + 1] \in Nat /\ recent[2 * Attempts + 1] <= Logins!Window
    BY LoginsTypes
<1>2. ASSUME NEW n \in Nat, NEW e \in Nat, e <= Logins!Window, Counted(recent, n, e)
      PROVE  Logins!TriesAreLimited /\ (n >= Attempts /\ e > 0 => recent[Attempts] < Logins!Window)
    <2>1. recent[2 * Attempts + 1] >= Logins!Window
        <3>1. n + Attempts + 1 \in Logins!Kept
            BY <1>2 DEF Counted
        <3>2. recent[n + Attempts + 1] <= recent[2 * Attempts + 1]
            BY <1>1, <1>2, <3>1 DEF LoginsInv, InOrder, Counted
        <3>3. recent[Attempts + 1] <= recent[2 * Attempts + 1]
            BY <1>1 DEF LoginsInv, InOrder
        <3> QED
            BY <1>2, <3>2, <3>3 DEF Counted
    <2>2. n >= Attempts /\ e > 0 => recent[Attempts] < Logins!Window
        BY <1>2 DEF Counted
    <2> QED
        BY <1>1, <2>1, <2>2 DEF Logins!TriesAreLimited
<1>3. CASE \E r \in Requests : Recording(r)
    <2>1. PICK r \in Requests : Recording(r)
        BY <1>3
    <2>2. Counted(recent, req[r].attempts, req[r].expires) /\ ~Logins!Limited
        BY <2>1 DEF LoginsInv, CountIsRight, Recording
    <2> QED
        BY <1>2, <2>2, LoginsTypes DEF Logins!LockedForCause
<1>4. CASE \A r \in Requests : ~Recording(r)
    <2>1. IF entry = None THEN recent[Attempts + 1] = Logins!Window
          ELSE Counted(recent, entry.attempts, entry.expires)
        BY <1>4 DEF LoginsInv, CountIsRight
    <2>2. CASE entry = None
        <3>1. recent[Attempts + 1] <= recent[2 * Attempts + 1]
            BY <1>1 DEF LoginsInv, InOrder
        <3> QED
            BY <1>1, <2>1, <2>2, <3>1 DEF Logins!TriesAreLimited, Logins!LockedForCause, Logins!Limited
    <2>3. CASE entry # None
        BY <1>2, <2>1, <2>3, LoginsTypes DEF Logins!LockedForCause, Logins!Limited
    <2> QED
        BY <2>2, <2>3
<1> QED
    BY <1>3, <1>4

-----------------------------------------------------------------------------
(* Tags                                                                    *)

InsertingTag(r) == req[r].step \in {"insert", "again"}

AllTags == tags \cup UNION {req[r].made : r \in Requests}

\* A row under one of its name's slugs, the slugs tried before it being taken in rows.
InTurn(t, rows) == \E i \in 1 .. MaxAttempts :
    /\ t.slug = SlugFor[t.name][i]
    /\ \A k \in 1 .. MaxAttempts : k < i => Tagging!SlugTaken(rows, SlugFor[t.name][k])

\* The slugs a submission has tried belong to tags of other names.
TriedInVain(r) == \A k \in 1 .. MaxAttempts : k < req[r].suffix =>
    \E t \in Tagging!Seen(r) : /\ t.slug = SlugFor[Tagging!Name(r)][k]
                               /\ ~Tagging!SameName(t.name, Tagging!Name(r))

SlugsUnique == \A t, u \in AllTags : t.slug = u.slug => t = u

MadeInTurn == \A r \in Requests : \A t \in req[r].made : InTurn(t, Tagging!Seen(r))

\* A tag that has come to have the name since it was looked for was made in turn.
NewInTurn == \A r \in Requests : InsertingTag(r) =>
    \A t \in tags : Tagging!SameName(t.name, Tagging!Name(r)) => InTurn(t, tags)

Tried == \A r \in Requests : InsertingTag(r) =>
    /\ TriedInVain(r)
    /\ req[r].step = "again" => Tagging!SlugTaken(Tagging!Seen(r), Tagging!Slug(r))

TagRows == Tagging!NamesUnique /\ (~administered => SlugsUnique /\ MadeInTurn /\ NewInTurn /\ Tried)

NamesLeft == \A r \in Requests : req[r].step \in {"look", "insert", "again"} => req[r].todo # <<>>

TagsInv == Tagging!TypeOK /\ NamesLeft /\ TagRows

Todos == UNION {[1 .. k -> Names] : k \in 0 .. MaxNames}

LEMMA TagNumbers ==
    /\ MaxAttempts \in Nat /\ MaxAttempts > 0 /\ MaxNames \in Nat /\ MaxNames > 0
    /\ \A n \in Names : DOMAIN SlugFor[n] = 1 .. MaxAttempts
    /\ \A m, n \in Names : CaseKey[m] = CaseKey[n] => SlugFor[m] = SlugFor[n]
    /\ Entered \subseteq Tagging!Tag
<1>1. Tagging!TagsAssumption
    BY PartsAssumption
<1>2. {MaxAttempts, MaxNames} \subseteq Nat \ {0}
    BY <1>1 DEF Tagging!TagsAssumption
<1>3. ASSUME NEW t \in Entered PROVE t \in Tagging!Tag
    BY <1>1 DEF Tagging!TagsAssumption, Tagging!Tag, Tagging!Slugs
<1> QED
    BY <1>1, <1>2, <1>3 DEF Tagging!TagsAssumption

LEMMA TodoParts ==
    ASSUME NEW todo \in Todos
    PROVE  /\ todo \in Seq(Names) /\ Len(todo) \in Nat
           /\ todo # <<>> => /\ Head(todo) \in Names /\ Tail(todo) \in Todos
                             /\ Len(todo) # 1 => Tail(todo) # <<>>
<1>1. PICK k \in 0 .. MaxNames : todo \in [1 .. k -> Names]
    BY DEF Todos
<1>2. todo \in Seq(Names) /\ Len(todo) = k
    BY <1>1, TagNumbers
<1>3. ASSUME todo # <<>>
      PROVE  /\ Head(todo) \in Names /\ Tail(todo) \in Todos
             /\ Len(todo) # 1 => Tail(todo) # <<>>
    <2>1. /\ Head(todo) \in Names /\ Tail(todo) \in Seq(Names) /\ Len(Tail(todo)) = Len(todo) - 1
          /\ Len(todo) # 0
        BY <1>2, <1>3, HeadTailProperties, EmptySeq
    <2>2. k \in Nat /\ k > 0 /\ k <= MaxNames /\ k - 1 \in 0 .. MaxNames
        BY <1>2, <2>1, TagNumbers
    <2>3. PICK rest : rest = Tail(todo)
        OBVIOUS
    <2>4. rest \in Seq(Names) /\ Len(rest) = k - 1
        BY <1>2, <2>1, <2>3
    <2>5. rest \in [1 .. k - 1 -> Names]
        BY <2>4, LenProperties
    <2>6. Len(todo) # 1 => rest # <<>>
        BY <1>2, <2>2, <2>4, EmptySeq
    <2> QED
        BY <2>1, <2>2, <2>3, <2>5, <2>6 DEF Todos
<1> QED
    BY <1>2, <1>3

LEMMA TagTypes ==
    ASSUME TagsInv
    PROVE  /\ tags \subseteq Tagging!Tag /\ administered \in BOOLEAN
           /\ req \in [Requests -> Tagging!Request]
           /\ \A r \in Requests :
                 /\ req[r] \in [step : {"idle", "look", "insert", "again", "commit"}, todo : Todos,
                                suffix : 1 .. MaxAttempts, made : SUBSET Tagging!Tag]
                 /\ req[r].step \in {"idle", "look", "insert", "again", "commit"}
                 /\ req[r].todo \in Todos
                 /\ req[r].suffix \in 1 .. MaxAttempts
                 /\ req[r].made \subseteq Tagging!Tag
                 /\ req[r].step = "idle" => req[r] = Tagging!Idle
                 /\ req[r].step \in {"look", "insert", "again"} =>
                       /\ req[r].todo # <<>>
                       /\ Tagging!Name(r) \in Names
<1>1. Tagging!TypeOK /\ NamesLeft
    BY DEF TagsInv
<1>2. ASSUME NEW r \in Requests
      PROVE  /\ req[r] \in [step : {"idle", "look", "insert", "again", "commit"}, todo : Todos,
                            suffix : 1 .. MaxAttempts, made : SUBSET Tagging!Tag]
             /\ req[r].step = "idle" => req[r] = Tagging!Idle
    BY <1>1 DEF Tagging!TypeOK, Tagging!Request, Todos
<1>3. ASSUME NEW r \in Requests, req[r].step \in {"look", "insert", "again"}
      PROVE  req[r].todo # <<>> /\ Tagging!Name(r) \in Names
    BY <1>1, <1>2, <1>3, TodoParts DEF NamesLeft, Tagging!Name
<1> QED
    BY <1>1, <1>2, <1>3 DEF Tagging!TypeOK

\* What is new in rows that have gained some.
LEMMA TakenStays ==
    ASSUME NEW rows, NEW more, rows \subseteq more, NEW slug, Tagging!SlugTaken(rows, slug)
    PROVE  Tagging!SlugTaken(more, slug)
BY DEF Tagging!SlugTaken

LEMMA InTurnStays ==
    ASSUME NEW rows, NEW more, rows \subseteq more, NEW t, InTurn(t, rows)
    PROVE  InTurn(t, more)
BY DEF InTurn, Tagging!SlugTaken

LEMMA IdleTagRequest ==
    /\ Tagging!Idle \in Tagging!Request
    /\ Tagging!Idle.step = "idle" /\ Tagging!Idle.todo = <<>> /\ Tagging!Idle.made = {}
    /\ Tagging!Idle.suffix = 1
<1>1. <<>> \in [1 .. 0 -> Names] /\ 0 \in 0 .. MaxNames
    BY TagNumbers
<1>2. <<>> \in Todos
    BY <1>1 DEF Todos
<1> QED
    BY <1>2, TagNumbers DEF Tagging!Idle, Tagging!Request, Todos

LEMMA TagsInit == Tagging!Init => TagsInv
<1> SUFFICES ASSUME Tagging!Init PROVE TagsInv
    OBVIOUS
<1>1. /\ \A r \in Requests : req[r] = Tagging!Idle
      /\ req = [r \in Requests |-> Tagging!Idle]
      /\ administered = FALSE
      /\ tags \subseteq Tagging!Tag /\ Tagging!WellFormed(tags)
    BY DEF Tagging!Init
<1>2. Tagging!TypeOK /\ NamesLeft
    BY <1>1, IdleTagRequest DEF Tagging!TypeOK, NamesLeft
<1>3. AllTags = tags
    BY <1>1, IdleTagRequest DEF AllTags
<1>4. Tagging!NamesUnique
    BY <1>1, <1>3 DEF Tagging!NamesUnique, AllTags, Tagging!WellFormed, Tagging!SameName
<1>5. SlugsUnique
    BY <1>1, <1>3 DEF SlugsUnique, Tagging!WellFormed
<1>6. MadeInTurn /\ NewInTurn /\ Tried
    BY <1>1, IdleTagRequest DEF MadeInTurn, NewInTurn, Tried, InsertingTag
<1> QED
    BY <1>2, <1>4, <1>5, <1>6 DEF TagsInv, TagRows

\* What a submission's next step leaves of the others.
LEMMA TagRequestMoves ==
    ASSUME TagsInv, NEW r \in Requests, NEW q \in Tagging!Request,
           req' = [req EXCEPT ![r] = q], tags' = tags, administered' = administered,
           q.step = "idle" => q = Tagging!Idle,
           q.step \in {"look", "insert", "again"} => q.todo # <<>>
    PROVE  /\ Tagging!TypeOK' /\ NamesLeft'
           /\ req'[r] = q /\ Tagging!Seen(r)' = tags \cup q.made
           /\ Tagging!Name(r)' = Head(q.todo)
           /\ \A s \in Requests : s # r =>
                 /\ req'[s] = req[s] /\ Tagging!Seen(s)' = Tagging!Seen(s)
                 /\ Tagging!Name(s)' = Tagging!Name(s) /\ Tagging!Slug(s)' = Tagging!Slug(s)
                 /\ InsertingTag(s)' = InsertingTag(s)
<1>1. req \in [Requests -> Tagging!Request]
    BY TagTypes
<1>2. req'[r] = q /\ \A s \in Requests : s # r => req'[s] = req[s]
    BY <1>1
<1>3. req' \in [Requests -> Tagging!Request]
    BY <1>1
<1>4. Tagging!TypeOK' /\ NamesLeft'
    BY <1>2, <1>3 DEF TagsInv, Tagging!TypeOK, NamesLeft
<1> QED
    BY <1>2, <1>4 DEF Tagging!Seen, Tagging!Name, Tagging!Slug, InsertingTag

\* Nothing is said of a submission that is not inserting, and no rows come about.
LEMMA TagRowsStay ==
    ASSUME TagsInv, NEW r \in Requests, NEW q \in Tagging!Request,
           req' = [req EXCEPT ![r] = q], tags' = tags, administered' = administered,
           q.step = "idle" => q = Tagging!Idle,
           q.step \in {"look", "insert", "again"} => q.todo # <<>>,
           q.made \in {req[r].made, {}},
           ~administered /\ q.step \in {"insert", "again"} =>
               /\ \A t \in tags : Tagging!SameName(t.name, Head(q.todo)) => InTurn(t, tags)
               /\ TriedInVain(r)'
               /\ q.step = "again" => Tagging!SlugTaken(Tagging!Seen(r), Tagging!Slug(r))'
    PROVE  TagsInv'
<1>1. /\ Tagging!TypeOK' /\ NamesLeft'
      /\ req'[r] = q /\ Tagging!Seen(r)' = tags \cup q.made
      /\ Tagging!Name(r)' = Head(q.todo)
      /\ \A s \in Requests : s # r =>
            /\ req'[s] = req[s] /\ Tagging!Seen(s)' = Tagging!Seen(s)
            /\ Tagging!Name(s)' = Tagging!Name(s) /\ Tagging!Slug(s)' = Tagging!Slug(s)
            /\ InsertingTag(s)' = InsertingTag(s)
    BY TagRequestMoves
<1> SUFFICES ASSUME ~administered PROVE TagRows'
    BY <1>1 DEF TagsInv, TagRows, Tagging!NamesUnique
<1>2. Tagging!NamesUnique /\ SlugsUnique /\ MadeInTurn /\ NewInTurn /\ Tried
    BY DEF TagsInv, TagRows
<1>3. AllTags' \subseteq AllTags
    <2>1. \A s \in Requests : req'[s].made \subseteq req[s].made
        BY <1>1
    <2> QED
        BY <2>1 DEF AllTags
<1>4. Tagging!NamesUnique'
    <2>1. \A t, u \in AllTags : Tagging!SameName(t.name, u.name) => t = u
        BY <1>2 DEF AllTags, Tagging!NamesUnique
    <2>2. \A t, u \in AllTags' : Tagging!SameName(t.name, u.name) => t = u
        BY <1>3, <2>1
    <2> QED
        BY <2>2 DEF AllTags, Tagging!NamesUnique, Tagging!SameName
<1>5. SlugsUnique'
    BY <1>2, <1>3 DEF SlugsUnique
<1>6. MadeInTurn'
    <2> SUFFICES ASSUME NEW s \in Requests, NEW t \in req'[s].made
                 PROVE  InTurn(t, Tagging!Seen(s)')
        BY DEF MadeInTurn, InTurn, Tagging!SlugTaken
    <2>1. CASE s # r
        BY <1>1, <1>2, <2>1 DEF MadeInTurn
    <2>2. CASE s = r
        <3>1. q.made = req[r].made /\ t \in req[r].made
            BY <1>1, <2>2
        <3>2. Tagging!Seen(r)' = Tagging!Seen(r)
            BY <1>1, <3>1 DEF Tagging!Seen
        <3> QED
            BY <1>2, <2>2, <3>1, <3>2 DEF MadeInTurn
    <2> QED
        BY <2>1, <2>2
<1>7. NewInTurn'
    <2> SUFFICES ASSUME NEW s \in Requests, InsertingTag(s)', NEW t \in tags,
                        Tagging!SameName(t.name, Tagging!Name(s)')
                 PROVE  InTurn(t, tags)
        BY DEF NewInTurn, InTurn, Tagging!SlugTaken, Tagging!SameName
    <2>1. CASE s # r
        BY <1>1, <1>2, <2>1 DEF NewInTurn
    <2>2. CASE s = r
        BY <1>1, <2>2 DEF InsertingTag
    <2> QED
        BY <2>1, <2>2
<1>8. Tried'
    <2> SUFFICES ASSUME NEW s \in Requests, InsertingTag(s)'
                 PROVE  /\ TriedInVain(s)'
                        /\ req'[s].step = "again" =>
                              Tagging!SlugTaken(Tagging!Seen(s)', Tagging!Slug(s)')
        BY DEF Tried, Tagging!SlugTaken
    <2>1. CASE s # r
        <3>1. /\ TriedInVain(s)
              /\ req[s].step = "again" => Tagging!SlugTaken(Tagging!Seen(s), Tagging!Slug(s))
            BY <1>1, <1>2, <2>1 DEF Tried
        <3> QED
            BY <1>1, <2>1, <3>1 DEF TriedInVain, Tagging!SameName
    <2>2. CASE s = r
        BY <1>1, <2>2 DEF InsertingTag, Tagging!SlugTaken
    <2> QED
        BY <2>1, <2>2
<1> QED
    BY <1>4, <1>5, <1>6, <1>7, <1>8 DEF TagRows

LEMMA IdleWith ==
    ASSUME NEW a, NEW b, NEW m
    PROVE  /\ [Tagging!Idle EXCEPT !.step = a, !.todo = b, !.made = m]
                  = [step |-> a, todo |-> b, suffix |-> 1, made |-> m]
           /\ [Tagging!Idle EXCEPT !.step = a, !.todo = b]
                  = [step |-> a, todo |-> b, suffix |-> 1, made |-> {}]
<1>1. PICK x : x = [Tagging!Idle EXCEPT !.step = a]
    OBVIOUS
<1>2. x = [step |-> a, todo |-> <<>>, suffix |-> 1, made |-> {}]
    BY <1>1 DEF Tagging!Idle
<1>3. PICK y : y = [x EXCEPT !.todo = b]
    OBVIOUS
<1>4. y = [step |-> a, todo |-> b, suffix |-> 1, made |-> {}]
    BY <1>2, <1>3
<1>5. [y EXCEPT !.made = m] = [step |-> a, todo |-> b, suffix |-> 1, made |-> m]
    BY <1>4
<1>6. [Tagging!Idle EXCEPT !.step = a, !.todo = b] = [[Tagging!Idle EXCEPT !.step = a] EXCEPT !.todo = b]
    BY Zenon
<1>7. [Tagging!Idle EXCEPT !.step = a, !.todo = b, !.made = m]
          = [[[Tagging!Idle EXCEPT !.step = a] EXCEPT !.todo = b] EXCEPT !.made = m]
    BY Zenon
<1> QED
    BY <1>1, <1>3, <1>4, <1>5, <1>6, <1>7

\* Two fields of a request change.
LEMMA StepAndSuffix ==
    ASSUME NEW x \in Tagging!Request, NEW a, NEW i
    PROVE  [x EXCEPT !.step = a, !.suffix = i]
               = [step |-> a, todo |-> x.todo, suffix |-> i, made |-> x.made]
<1>1. PICK y : y = [x EXCEPT !.step = a]
    OBVIOUS
<1>2. y = [step |-> a, todo |-> x.todo, suffix |-> x.suffix, made |-> x.made]
    BY <1>1 DEF Tagging!Request
<1>3. [y EXCEPT !.suffix = i] = [step |-> a, todo |-> x.todo, suffix |-> i, made |-> x.made]
    BY <1>2
<1>4. [x EXCEPT !.step = a, !.suffix = i] = [[x EXCEPT !.step = a] EXCEPT !.suffix = i]
    BY Zenon
<1> QED
    BY <1>1, <1>3, <1>4

LEMMA TagRequestIs ==
    ASSUME NEW a \in {"idle", "look", "insert", "again", "commit"}, NEW b \in Todos,
           NEW i \in 1 .. MaxAttempts, NEW m, m \subseteq Tagging!Tag
    PROVE  [step |-> a, todo |-> b, suffix |-> i, made |-> m] \in Tagging!Request
BY DEF Tagging!Request, Todos

\* A submission that has its tag goes on to the next name or to its commit.
GoesOn(r, made) == \E q \in Tagging!Request :
    /\ req' = [req EXCEPT ![r] = q] /\ q.made = made /\ q.step \in {"look", "commit"}
    /\ q.step = "look" => q.todo # <<>>

LEMMA NextNameRequest ==
    ASSUME TagsInv, NEW r \in Requests, req[r].step \in {"look", "insert", "again"},
           NEW made \in SUBSET Tagging!Tag, req' = Tagging!NextName(r, made)
    PROVE  GoesOn(r, made)
<1>1. PICK a : a = IF Len(req[r].todo) = 1 THEN "commit" ELSE "look"
    OBVIOUS
<1>2. PICK b : b = Tail(req[r].todo)
    OBVIOUS
<1>3. req' = [req EXCEPT ![r] = [Tagging!Idle EXCEPT !.step = a, !.todo = b, !.made = made]]
    BY <1>1, <1>2 DEF Tagging!NextName
<1>4. PICK q : q = [step |-> a, todo |-> b, suffix |-> 1, made |-> made]
    OBVIOUS
<1>5. req' = [req EXCEPT ![r] = q]
    BY <1>3, <1>4, IdleWith
<1>6. b \in Todos /\ (Len(req[r].todo) # 1 => b # <<>>) /\ a \in {"look", "commit"}
    BY <1>1, <1>2, TagTypes, TodoParts
<1>7. q \in Tagging!Request
    <2>1. a \in {"idle", "look", "insert", "again", "commit"} /\ 1 \in 1 .. MaxAttempts
        BY <1>6, TagNumbers
    <2>2. [step |-> a, todo |-> b, suffix |-> 1, made |-> made] \in Tagging!Request
        BY <1>6, <2>1, TagRequestIs
    <2> QED
        BY <1>4, <2>2
<1>8. q.made = made /\ q.step \in {"look", "commit"} /\ (q.step = "look" => q.todo # <<>>)
    BY <1>1, <1>4, <1>6
<1> QED
    BY <1>5, <1>7, <1>8 DEF GoesOn

LEMMA TagsEnd ==
    ASSUME TagsInv, NEW r \in Requests, req' = [req EXCEPT ![r] = Tagging!Idle], tags' = tags,
           administered' = administered
    PROVE  TagsInv'
<1>1. Tagging!Idle.made = {} /\ Tagging!Idle \in Tagging!Request /\ Tagging!Idle.step = "idle"
    BY IdleTagRequest
<1> QED
    BY <1>1, TagRowsStay

LEMMA TagsFound ==
    ASSUME TagsInv, NEW r \in Requests, req[r].step \in {"look", "again"},
           req' = Tagging!NextName(r, req[r].made), tags' = tags, administered' = administered
    PROVE  TagsInv'
<1>1. PICK made \in SUBSET Tagging!Tag : made = req[r].made
    BY TagTypes
<1>2. PICK q \in Tagging!Request :
          /\ req' = [req EXCEPT ![r] = q] /\ q.made = made /\ q.step \in {"look", "commit"}
          /\ q.step = "look" => q.todo # <<>>
    <2>1. req[r].step \in {"look", "insert", "again"} /\ req' = Tagging!NextName(r, made)
        BY <1>1
    <2>2. GoesOn(r, made)
        BY <2>1, NextNameRequest
    <2> QED
        BY <2>2 DEF GoesOn
<1> QED
    BY <1>1, <1>2, TagRowsStay

LEMMA TagsBegin ==
    ASSUME TagsInv, NEW r \in Requests, NEW k \in 1 .. MaxNames, NEW names \in [1 .. k -> Names],
           Tagging!Begin(r, names), administered' = administered
    PROVE  TagsInv'
<1> DEFINE q == [Tagging!Idle EXCEPT !.step = "look", !.todo = names]
<1>1. req' = [req EXCEPT ![r] = q] /\ tags' = tags /\ req[r].step = "idle" /\ names # <<>>
    BY DEF Tagging!Begin
<1>2. k \in 0 .. MaxNames
    BY TagNumbers
<1>3. names \in Todos
    BY <1>2 DEF Todos
<1>4. q = [step |-> "look", todo |-> names, suffix |-> 1, made |-> {}]
    BY IdleWith
<1> HIDE DEF q
<1>5. q \in Tagging!Request
    BY <1>3, <1>4, TagNumbers, TagRequestIs
<1>6. q.made = {} /\ q.step = "look" /\ q.todo # <<>>
    BY <1>1, <1>4
<1> QED
    BY <1>1, <1>5, <1>6, TagRowsStay

\* A submission that does not find its name begins with the first slug.
LEMMA TagsLook ==
    ASSUME TagsInv, NEW r \in Requests, Tagging!Look(r), administered' = administered
    PROVE  TagsInv'
<1>1. CASE Tagging!Found(r)
    BY <1>1, TagsFound DEF Tagging!Look
<1>2. CASE ~Tagging!Found(r)
    <2> DEFINE q == [step |-> "insert", todo |-> req[r].todo, suffix |-> 1, made |-> req[r].made]
    <2>1. req[r].step = "look" /\ tags' = tags
          /\ req' = [req EXCEPT ![r].step = "insert", ![r].suffix = 1]
        BY <1>2 DEF Tagging!Look
    <2>0. [req[r] EXCEPT !.step = "insert", !.suffix = 1] = q
        BY StepAndSuffix, TagTypes
    <2>2. req' = [req EXCEPT ![r] = q]
        BY <2>0, <2>1
    <2>3. /\ q \in Tagging!Request /\ q.made = req[r].made /\ q.step = "insert"
          /\ q.todo = req[r].todo /\ q.suffix = 1 /\ q.todo # <<>>
        BY <2>1, TagTypes, TagNumbers DEF Tagging!Request, Todos
    <2> HIDE DEF q
    <2>4. \A t \in tags : ~Tagging!SameName(t.name, Head(q.todo))
        BY <1>2, <2>3 DEF Tagging!Found, Tagging!Seen, Tagging!Name
    <2>5. req'[r] = q
        BY <2>2, TagTypes
    <2>6. TriedInVain(r)'
        BY <2>3, <2>5 DEF TriedInVain
    <2> QED
        BY <2>1, <2>2, <2>3, <2>4, <2>6, TagRowsStay
<1> QED
    BY <1>1, <1>2

\* One whose slug somebody has inserted before looks whether it has the name ...
LEMMA TagsRefused ==
    ASSUME TagsInv, NEW r \in Requests, Tagging!Insert(r), administered' = administered,
           Tagging!SlugTaken(Tagging!Seen(r), Tagging!Slug(r))
    PROVE  TagsInv'
<1> DEFINE q == [step |-> "again", todo |-> req[r].todo, suffix |-> req[r].suffix,
                 made |-> req[r].made]
<1>1. /\ req[r].step = "insert" /\ tags' = tags
      /\ req' = [req EXCEPT ![r].step = "again"]
    BY DEF Tagging!Insert
<1>0. [req[r] EXCEPT !.step = "again"] = q
    BY TagTypes
<1>2. req' = [req EXCEPT ![r] = q]
    BY <1>0, <1>1
<1>3. /\ q \in Tagging!Request /\ q.made = req[r].made /\ q.step = "again"
      /\ q.todo = req[r].todo /\ q.suffix = req[r].suffix /\ q.todo # <<>>
    BY <1>1, TagTypes, TagNumbers DEF Tagging!Request, Todos
<1> HIDE DEF q
<1>4. req'[r] = q
    BY <1>2, TagTypes
<1>5. /\ Tagging!Seen(r)' = Tagging!Seen(r) /\ Tagging!Name(r)' = Tagging!Name(r)
      /\ Tagging!Slug(r)' = Tagging!Slug(r) /\ req'[r].suffix = req[r].suffix
    BY <1>1, <1>3, <1>4 DEF Tagging!Seen, Tagging!Name, Tagging!Slug
<1>6. Tagging!SlugTaken(Tagging!Seen(r), Tagging!Slug(r))'
    BY <1>5 DEF Tagging!SlugTaken
<1>7. ASSUME ~administered
      PROVE  /\ \A t \in tags : Tagging!SameName(t.name, Head(q.todo)) => InTurn(t, tags)
             /\ TriedInVain(r)'
    <2>1. NewInTurn /\ Tried /\ InsertingTag(r)
        BY <1>1, <1>7 DEF TagsInv, TagRows, InsertingTag
    <2>2. \A t \in tags : Tagging!SameName(t.name, Head(q.todo)) => InTurn(t, tags)
        BY <1>3, <2>1 DEF NewInTurn, Tagging!Name
    <2>3. TriedInVain(r)'
        BY <1>5, <2>1 DEF Tried, TriedInVain, Tagging!SameName
    <2> QED
        BY <2>2, <2>3
<1> QED
    BY <1>1, <1>2, <1>3, <1>6, <1>7, TagRowsStay

\* ... and tries the next slug if not.
LEMMA TagsAgain ==
    ASSUME TagsInv, NEW r \in Requests, Tagging!Again(r), administered' = administered
    PROVE  TagsInv'
<1>1. req[r].step = "again" /\ tags' = tags
    BY DEF Tagging!Again
<1>2. CASE Tagging!Found(r)
    BY <1>1, <1>2, TagsFound DEF Tagging!Again
<1>3. CASE ~Tagging!Found(r) /\ ~(req[r].suffix < MaxAttempts)
    BY <1>1, <1>3, TagsEnd DEF Tagging!Again
<1>4. CASE ~Tagging!Found(r) /\ req[r].suffix < MaxAttempts
    <2> DEFINE q == [step |-> "insert", todo |-> req[r].todo, suffix |-> req[r].suffix + 1,
                     made |-> req[r].made]
    <2>1. req' = [req EXCEPT ![r].step = "insert", ![r].suffix = @ + 1]
        BY <1>4 DEF Tagging!Again
    <2>2. req' = [req EXCEPT ![r] = q]
        BY <2>1, TagTypes
    <2>3. req[r].suffix \in 1 .. MaxAttempts /\ req[r].suffix + 1 \in 1 .. MaxAttempts
        BY <1>4, TagTypes, TagNumbers
    <2>4. /\ q \in Tagging!Request /\ q.made = req[r].made /\ q.step = "insert"
          /\ q.todo = req[r].todo /\ q.suffix = req[r].suffix + 1 /\ q.todo # <<>>
        BY <1>1, <2>3, TagTypes DEF Tagging!Request, Todos
    <2> HIDE DEF q
    <2>5. req'[r] = q
        BY <2>2, TagTypes
    <2>6. /\ Tagging!Seen(r)' = Tagging!Seen(r) /\ Tagging!Name(r)' = Tagging!Name(r)
          /\ req'[r].suffix = req[r].suffix + 1
        BY <1>1, <2>4, <2>5 DEF Tagging!Seen, Tagging!Name
    <2>7. ASSUME ~administered
          PROVE  /\ \A t \in tags : Tagging!SameName(t.name, Head(q.todo)) => InTurn(t, tags)
                 /\ TriedInVain(r)'
        <3>1. NewInTurn /\ Tried /\ InsertingTag(r)
            BY <1>1, <2>7 DEF TagsInv, TagRows, InsertingTag
        <3>2. \A t \in tags : Tagging!SameName(t.name, Head(q.todo)) => InTurn(t, tags)
            BY <2>4, <3>1 DEF NewInTurn, Tagging!Name
        <3>3. PICK t \in Tagging!Seen(r) : t.slug = SlugFor[Tagging!Name(r)][req[r].suffix]
            BY <1>1, <3>1 DEF Tried, Tagging!SlugTaken, Tagging!Slug
        <3>4. ~Tagging!SameName(t.name, Tagging!Name(r))
            BY <1>4, <3>3 DEF Tagging!Found
        <3>5. \A k \in 1 .. MaxAttempts : k < req[r].suffix + 1 =>
                  \E u \in Tagging!Seen(r) : /\ u.slug = SlugFor[Tagging!Name(r)][k]
                                             /\ ~Tagging!SameName(u.name, Tagging!Name(r))
            <4>1. \A k \in 1 .. MaxAttempts : k < req[r].suffix + 1 => k < req[r].suffix \/ k = req[r].suffix
                BY <2>3
            <4> QED
                BY <3>1, <3>3, <3>4, <4>1 DEF Tried, TriedInVain
        <3>6. TriedInVain(r)'
            BY <2>6, <3>5 DEF TriedInVain, Tagging!SameName
        <3> QED
            BY <3>2, <3>6
    <2> QED
        BY <1>1, <2>2, <2>4, <2>7, TagRowsStay
<1> QED
    BY <1>2, <1>3, <1>4

\* Another row: its slug was free, and every tag with its name was made in turn, so that
\* there can be none.
LEMMA TagsMade ==
    ASSUME TagsInv, NEW r \in Requests, Tagging!Insert(r), administered' = administered,
           ~Tagging!SlugTaken(Tagging!Seen(r), Tagging!Slug(r))
    PROVE  TagsInv'
<1> DEFINE new == [name |-> Tagging!Name(r), slug |-> Tagging!Slug(r)]
<1>1. /\ req[r].step = "insert" /\ tags' = tags
      /\ Tagging!Holders(Tagging!Slug(r)) \subseteq {r}
      /\ req' = Tagging!NextName(r, req[r].made \cup {new})
    BY DEF Tagging!Insert
<1>2. /\ new.name = Tagging!Name(r) /\ new.slug = Tagging!Slug(r)
      /\ new.name \in Names /\ req[r].suffix \in 1 .. MaxAttempts
      /\ new.slug = SlugFor[new.name][req[r].suffix]
    BY <1>1, TagTypes DEF Tagging!Slug
<1>3. new \in Tagging!Tag
    BY <1>2 DEF Tagging!Tag, Tagging!Slugs
<1> HIDE DEF new
<1>4. PICK made \in SUBSET Tagging!Tag : made = req[r].made \cup {new}
    <2>1. req[r].made \cup {new} \in SUBSET Tagging!Tag
        BY <1>3, TagTypes
    <2> QED
        BY <2>1
<1>5. PICK q \in Tagging!Request :
          /\ req' = [req EXCEPT ![r] = q] /\ q.made = made /\ q.step \in {"look", "commit"}
          /\ q.step = "look" => q.todo # <<>>
    <2>1. req[r].step \in {"look", "insert", "again"} /\ req' = Tagging!NextName(r, made)
        BY <1>1, <1>4
    <2>2. GoesOn(r, made)
        BY <2>1, NextNameRequest
    <2> QED
        BY <2>2 DEF GoesOn
<1>6. /\ Tagging!TypeOK' /\ NamesLeft'
      /\ req'[r] = q /\ Tagging!Seen(r)' = tags \cup q.made
      /\ \A s \in Requests : s # r =>
            /\ req'[s] = req[s] /\ Tagging!Seen(s)' = Tagging!Seen(s)
            /\ Tagging!Name(s)' = Tagging!Name(s) /\ Tagging!Slug(s)' = Tagging!Slug(s)
            /\ InsertingTag(s)' = InsertingTag(s)
    BY <1>1, <1>5, TagRequestMoves
<1> SUFFICES ASSUME ~administered PROVE TagRows'
    BY <1>6 DEF TagsInv, TagRows, Tagging!NamesUnique
<1>7. Tagging!NamesUnique /\ SlugsUnique /\ MadeInTurn /\ NewInTurn /\ Tried
    BY DEF TagsInv, TagRows
<1>8. AllTags' = AllTags \cup {new}
    <2>1. req'[r].made = req[r].made \cup {new}
        BY <1>4, <1>5, <1>6
    <2>2. \A s \in Requests : s # r => req'[s].made = req[s].made
        BY <1>6
    <2>3. \A t : t \in AllTags' <=> t \in tags' \/ \E s \in Requests : t \in req'[s].made
        BY DEF AllTags
    <2>4. \A t : t \in AllTags <=> t \in tags \/ \E s \in Requests : t \in req[s].made
        BY DEF AllTags
    <2>5. ASSUME NEW t PROVE t \in AllTags' <=> t \in AllTags \/ t = new
        BY <1>1, <2>1, <2>2, <2>3, <2>4
    <2> QED
        BY <2>5
<1>9. \A t \in AllTags : t.slug # new.slug
    <2>1. ASSUME NEW s \in Requests, NEW t \in req[s].made, t.slug = new.slug PROVE FALSE
        <3>1. s = r
            BY <1>1, <1>2, <2>1 DEF Tagging!Holders, Tagging!SlugTaken
        <3> QED
            BY <1>2, <2>1, <3>1 DEF Tagging!SlugTaken, Tagging!Seen
    <2>2. ASSUME NEW t \in tags, t.slug = new.slug PROVE FALSE
        BY <1>2, <2>2 DEF Tagging!SlugTaken, Tagging!Seen
    <2> QED
        BY <2>1, <2>2 DEF AllTags
<1>10. ASSUME NEW t \in AllTags, Tagging!SameName(t.name, new.name) PROVE FALSE
    <2>1. t.name \in Names /\ SlugFor[t.name] = SlugFor[new.name]
        BY <1>2, <1>10, TagTypes, TagNumbers DEF AllTags, Tagging!SameName, Tagging!Tag
    <2>2. \E rows : rows \subseteq AllTags /\ InTurn(t, rows)
        <3>1. CASE t \in tags
            BY <1>1, <1>2, <1>7, <1>10, <3>1 DEF NewInTurn, InsertingTag, AllTags
        <3>2. CASE \E s \in Requests : t \in req[s].made
            BY <1>7, <3>2 DEF MadeInTurn, AllTags, Tagging!Seen
        <3> QED
            BY <3>1, <3>2 DEF AllTags
    <2>3. PICK rows : rows \subseteq AllTags /\ InTurn(t, rows)
        BY <2>2
    <2>4. PICK i \in 1 .. MaxAttempts :
              /\ t.slug = SlugFor[t.name][i]
              /\ \A k \in 1 .. MaxAttempts : k < i => Tagging!SlugTaken(rows, SlugFor[t.name][k])
        BY <2>3 DEF InTurn
    <2>5. CASE i = req[r].suffix
        BY <1>2, <1>9, <1>10, <2>1, <2>4, <2>5
    <2>6. CASE req[r].suffix < i
        <3>1. Tagging!SlugTaken(rows, new.slug)
            BY <1>2, <2>1, <2>4, <2>6
        <3> QED
            BY <1>9, <2>3, <3>1 DEF Tagging!SlugTaken
    <2>7. CASE i < req[r].suffix
        <3>1. TriedInVain(r)
            BY <1>1, <1>7 DEF Tried, InsertingTag
        <3>2. PICK u \in Tagging!Seen(r) : /\ u.slug = SlugFor[Tagging!Name(r)][i]
                                           /\ ~Tagging!SameName(u.name, Tagging!Name(r))
            BY <2>4, <2>7, <3>1 DEF TriedInVain
        <3>3. u \in AllTags /\ u.slug = t.slug
            BY <1>2, <2>1, <2>4, <3>2 DEF AllTags, Tagging!Seen
        <3> QED
            BY <1>2, <1>7, <1>10, <3>2, <3>3 DEF SlugsUnique
    <2>8. i \in Nat /\ req[r].suffix \in Nat
        BY <1>2, <2>4
    <2> QED
        BY <2>5, <2>6, <2>7, <2>8
<1>11. Tagging!NamesUnique'
    <2>1. \A t, u \in AllTags : Tagging!SameName(t.name, u.name) => t = u
        BY <1>7 DEF AllTags, Tagging!NamesUnique
    <2>2. \A t, u \in AllTags' : Tagging!SameName(t.name, u.name) => t = u
        BY <1>8, <1>10, <2>1 DEF Tagging!SameName
    <2> QED
        BY <2>2 DEF AllTags, Tagging!NamesUnique, Tagging!SameName
<1>12. SlugsUnique'
    BY <1>7, <1>8, <1>9 DEF SlugsUnique
<1>13. Tagging!Seen(r) \subseteq Tagging!Seen(r)'
    BY <1>4, <1>5, <1>6 DEF Tagging!Seen
<1>14. MadeInTurn'
    <2> SUFFICES ASSUME NEW s \in Requests, NEW t \in req'[s].made
                 PROVE  InTurn(t, Tagging!Seen(s)')
        BY DEF MadeInTurn, InTurn, Tagging!SlugTaken
    <2>1. CASE s # r
        BY <1>6, <1>7, <2>1 DEF MadeInTurn
    <2>2. CASE s = r /\ t \in req[r].made
        <3>1. InTurn(t, Tagging!Seen(r))
            BY <1>7, <2>2 DEF MadeInTurn
        <3> QED
            BY <1>13, <2>2, <3>1, InTurnStays
    <2>3. CASE s = r /\ t = new
        <3>1. TriedInVain(r)
            BY <1>1, <1>7 DEF Tried, InsertingTag
        <3>2. InTurn(new, Tagging!Seen(r))
            BY <1>2, <3>1 DEF InTurn, TriedInVain, Tagging!SlugTaken
        <3> QED
            BY <1>13, <2>3, <3>2, InTurnStays
    <2> QED
        BY <1>4, <1>5, <1>6, <2>1, <2>2, <2>3
<1>15. NewInTurn'
    <2> SUFFICES ASSUME NEW s \in Requests, InsertingTag(s)', NEW t \in tags,
                        Tagging!SameName(t.name, Tagging!Name(s)')
                 PROVE  InTurn(t, tags)
        BY <1>1 DEF NewInTurn, InTurn, Tagging!SlugTaken, Tagging!SameName
    <2>1. s # r
        BY <1>5, <1>6 DEF InsertingTag
    <2> QED
        BY <1>6, <1>7, <2>1 DEF NewInTurn
<1>16. Tried'
    <2> SUFFICES ASSUME NEW s \in Requests, InsertingTag(s)'
                 PROVE  /\ TriedInVain(s)'
                        /\ req'[s].step = "again" =>
                              Tagging!SlugTaken(Tagging!Seen(s)', Tagging!Slug(s)')
        BY DEF Tried, Tagging!SlugTaken
    <2>1. s # r
        BY <1>5, <1>6 DEF InsertingTag
    <2>2. /\ TriedInVain(s)
          /\ req[s].step = "again" => Tagging!SlugTaken(Tagging!Seen(s), Tagging!Slug(s))
        BY <1>6, <1>7, <2>1 DEF Tried
    <2> QED
        BY <1>6, <2>1, <2>2 DEF TriedInVain, Tagging!SameName
<1> QED
    BY <1>11, <1>12, <1>14, <1>15, <1>16 DEF TagRows

LEMMA TagsCommit ==
    ASSUME TagsInv, NEW r \in Requests, Tagging!Commit(r), administered' = administered
    PROVE  TagsInv'
<1>1. /\ req[r].step = "commit" /\ tags' = tags \cup req[r].made
      /\ req' = [req EXCEPT ![r] = Tagging!Idle]
    BY DEF Tagging!Commit
<1>2. /\ req'[r] = Tagging!Idle /\ req'[r].made = {} /\ req'[r].step = "idle"
      /\ \A s \in Requests : s # r => req'[s] = req[s]
    BY <1>1, TagTypes, IdleTagRequest
<1>3. Tagging!TypeOK' /\ NamesLeft'
    <2>1. req' \in [Requests -> Tagging!Request]
        BY <1>1, TagTypes, IdleTagRequest
    <2>2. tags' \subseteq Tagging!Tag
        BY <1>1, TagTypes
    <2> QED
        BY <1>2, <2>1, <2>2 DEF TagsInv, Tagging!TypeOK, NamesLeft
<1> SUFFICES ASSUME ~administered PROVE TagRows'
    BY <1>3 DEF TagsInv, TagRows, Tagging!NamesUnique
<1>4. Tagging!NamesUnique /\ SlugsUnique /\ MadeInTurn /\ NewInTurn /\ Tried
    BY DEF TagsInv, TagRows
<1>5. AllTags' = AllTags
    BY <1>1, <1>2 DEF AllTags
<1>6. Tagging!NamesUnique'
    <2>1. \A t, u \in AllTags' : Tagging!SameName(t.name, u.name) => t = u
        BY <1>4, <1>5 DEF AllTags, Tagging!NamesUnique
    <2> QED
        BY <2>1 DEF AllTags, Tagging!NamesUnique, Tagging!SameName
<1>7. SlugsUnique'
    BY <1>4, <1>5 DEF SlugsUnique
<1>8. \A s \in Requests : s # r => Tagging!Seen(s) \subseteq Tagging!Seen(s)'
    BY <1>1, <1>2 DEF Tagging!Seen
<1>9. MadeInTurn'
    <2> SUFFICES ASSUME NEW s \in Requests, NEW t \in req'[s].made
                 PROVE  InTurn(t, Tagging!Seen(s)')
        BY DEF MadeInTurn, InTurn, Tagging!SlugTaken
    <2>1. s # r /\ InTurn(t, Tagging!Seen(s))
        BY <1>2, <1>4 DEF MadeInTurn
    <2> QED
        BY <1>8, <2>1, InTurnStays
<1>10. NewInTurn'
    <2> SUFFICES ASSUME NEW s \in Requests, InsertingTag(s)', NEW t \in tags',
                        Tagging!SameName(t.name, Tagging!Name(s)')
                 PROVE  InTurn(t, tags')
        BY DEF NewInTurn, InTurn, Tagging!SlugTaken, Tagging!SameName
    <2>1. s # r /\ InsertingTag(s) /\ Tagging!Name(s)' = Tagging!Name(s)
        BY <1>2 DEF InsertingTag, Tagging!Name
    <2>2. CASE t \in tags
        <3>1. InTurn(t, tags)
            BY <1>4, <2>1, <2>2 DEF NewInTurn
        <3> QED
            BY <1>1, <3>1, InTurnStays
    <2>3. CASE t \in req[r].made
        BY <1>1, <1>4, <2>3 DEF MadeInTurn, Tagging!Seen
    <2> QED
        BY <1>1, <2>2, <2>3
<1>11. Tried'
    <2> SUFFICES ASSUME NEW s \in Requests, InsertingTag(s)'
                 PROVE  /\ TriedInVain(s)'
                        /\ req'[s].step = "again" =>
                              Tagging!SlugTaken(Tagging!Seen(s)', Tagging!Slug(s)')
        BY DEF Tried, Tagging!SlugTaken
    <2>1. /\ s # r /\ InsertingTag(s) /\ Tagging!Name(s)' = Tagging!Name(s)
          /\ req'[s] = req[s] /\ Tagging!Slug(s)' = Tagging!Slug(s)
        BY <1>2 DEF InsertingTag, Tagging!Name, Tagging!Slug
    <2>2. /\ TriedInVain(s)
          /\ req[s].step = "again" => Tagging!SlugTaken(Tagging!Seen(s), Tagging!Slug(s))
        BY <1>4, <2>1 DEF Tried
    <2>3. Tagging!Seen(s) \subseteq Tagging!Seen(s)'
        BY <1>8, <2>1
    <2>4. TriedInVain(s)'
        BY <2>1, <2>2, <2>3 DEF TriedInVain, Tagging!SameName
    <2> QED
        BY <2>1, <2>2, <2>3, <2>4, TakenStays
<1> QED
    BY <1>6, <1>7, <1>9, <1>10, <1>11 DEF TagRows

\* After an administrator's change only the types are claimed.
LEMMA TagsAdministered ==
    ASSUME TagsInv, Tagging!Administer, administered' = TRUE
    PROVE  TagsInv'
<1>1. req' = req /\ tags' \subseteq Tagging!Tag
    BY TagTypes, TagNumbers DEF Tagging!Administer, Tagging!AdminMake, Tagging!AdminChange
<1>2. Tagging!TypeOK' /\ NamesLeft'
    BY <1>1 DEF TagsInv, Tagging!TypeOK, NamesLeft
<1> QED
    BY <1>2 DEF TagsInv, TagRows, Tagging!NamesUnique

LEMMA TagsStep == TagsInv /\ [Tagging!Next]_(Tagging!vars) => TagsInv'
<1> SUFFICES ASSUME TagsInv, [Tagging!Next]_(Tagging!vars) PROVE TagsInv'
    OBVIOUS
<1>1. CASE UNCHANGED Tagging!vars
    <2>1. tags' = tags /\ req' = req /\ administered' = administered
        BY <1>1 DEF Tagging!vars
    <2>2. Tagging!TypeOK' /\ NamesLeft'
        BY <2>1 DEF TagsInv, Tagging!TypeOK, NamesLeft
    <2>3. TagRows'
        BY <2>1 DEF TagsInv, TagRows, Tagging!NamesUnique, SlugsUnique, MadeInTurn, NewInTurn,
                    Tried, TriedInVain, AllTags, InTurn, InsertingTag, Tagging!SlugTaken,
                    Tagging!Seen, Tagging!Name, Tagging!Slug, Tagging!SameName
    <2> QED
        BY <2>2, <2>3 DEF TagsInv
<1>2. ASSUME NEW r \in Requests, Tagging!Submission(r), administered' = administered PROVE TagsInv'
    <2>1. ASSUME NEW k \in 1 .. MaxNames, NEW names \in [1 .. k -> Names], Tagging!Begin(r, names)
          PROVE  TagsInv'
        BY <1>2, <2>1, TagsBegin
    <2>2. CASE Tagging!Look(r)
        BY <1>2, <2>2, TagsLook
    <2>3. CASE Tagging!Insert(r)
        BY <1>2, <2>3, TagsMade, TagsRefused
    <2>4. CASE Tagging!Again(r)
        BY <1>2, <2>4, TagsAgain
    <2>5. CASE Tagging!Commit(r)
        BY <1>2, <2>5, TagsCommit
    <2>6. CASE Tagging!Abort(r)
        BY <1>2, <2>6, TagsEnd DEF Tagging!Abort
    <2>7. CASE Tagging!DeadlockVictim(r)
        BY <1>2, <2>7, TagsEnd DEF Tagging!DeadlockVictim
    <2> QED
        BY <1>2, <2>1, <2>2, <2>3, <2>4, <2>5, <2>6, <2>7 DEF Tagging!Submission, Tagging!Statement
<1>3. CASE Tagging!Administer /\ administered' = TRUE
    BY <1>3, TagsAdministered
<1> QED
    BY <1>1, <1>2, <1>3 DEF Tagging!Next

LEMMA TagsUnique == TagsInv => Tagging!NamesUnique
BY DEF TagsInv, TagRows

\* The last suffix is given up when it and all before it belong to tags of other names.
LEMMA TagsGiveUp == TagsInv => Tagging!GivesUpForCause
<1> SUFFICES ASSUME TagsInv, NEW r \in Requests, ~administered, req[r].step = "again",
                    Tagging!Again(r), req'[r].step = "idle",
                    NEW slug \in Tagging!Attempted(Tagging!Name(r))
             PROVE  \E t \in Tagging!Seen(r) :
                        t.slug = slug /\ ~Tagging!SameName(t.name, Tagging!Name(r))
    BY DEF Tagging!GivesUpForCause
<1>1. PICK i \in 1 .. MaxAttempts : slug = SlugFor[Tagging!Name(r)][i]
    BY DEF Tagging!Attempted
<1>2. ~Tagging!Found(r)
    <2> SUFFICES ASSUME Tagging!Found(r) PROVE FALSE
        OBVIOUS
    <2>1. PICK made \in SUBSET Tagging!Tag : made = req[r].made
        BY TagTypes
    <2>2. req[r].step \in {"look", "insert", "again"} /\ req' = Tagging!NextName(r, made)
        BY <2>1 DEF Tagging!Again
    <2>3. PICK q \in Tagging!Request :
              /\ req' = [req EXCEPT ![r] = q] /\ q.made = made /\ q.step \in {"look", "commit"}
              /\ q.step = "look" => q.todo # <<>>
        <3>1. GoesOn(r, made)
            BY <2>2, NextNameRequest
        <3> QED
            BY <3>1 DEF GoesOn
    <2>4. req'[r] = q
        BY <2>3, TagTypes
    <2> QED
        BY <2>3, <2>4
<1>3. req[r].suffix \in 1 .. MaxAttempts /\ ~(req[r].suffix < MaxAttempts)
    <2> SUFFICES ASSUME req[r].suffix < MaxAttempts PROVE FALSE
        BY TagTypes
    <2>1. req' = [req EXCEPT ![r].step = "insert", ![r].suffix = @ + 1]
        BY <1>2 DEF Tagging!Again
    <2>2. req'[r].step = "insert"
        BY <2>1, TagTypes
    <2> QED
        BY <2>2
<1>4. /\ TriedInVain(r) /\ Tagging!SlugTaken(Tagging!Seen(r), Tagging!Slug(r))
    BY DEF TagsInv, TagRows, Tried, InsertingTag
<1>5. CASE i < req[r].suffix
    BY <1>1, <1>4, <1>5 DEF TriedInVain
<1>6. CASE i = req[r].suffix
    BY <1>1, <1>2, <1>4, <1>6 DEF Tagging!SlugTaken, Tagging!Slug, Tagging!Found
<1> QED
    BY <1>3, <1>5, <1>6, TagNumbers

-----------------------------------------------------------------------------
(* The whole                                                               *)

PartsInv ==
    /\ part = "embeddings" => EmbInv
    /\ part = "pages" => WikiInv
    /\ part = "related" => RelatedInv
    /\ part = "threads" => ThreadsInv /\ ParentsInv
    /\ part = "health" => HealthInv
    /\ part = "lists" => Lists!TypeOK
    /\ part = "compose" => ComposeInv /\ Labels /\ Sizes /\ ComposeTypes
    /\ part = "logins" => LoginsInv
    /\ part = "tags" => TagsInv

\* Each part keeps its invariant, which says what an operation under way has read or will
\* write and how old that may be (wiki_embeddings.py, markdown_rendering.py,
\* notifications.py, observability.py, views.py and static/js/app.js).
THEOREM Invariance == Spec => []PartsInv
<1>1. Init => PartsInv
    BY EmbInit, WikiInit, RelatedInit, ThreadsInit, ParentsInit, HealthInit, ListsInit,
       ComposeInit, LabelsInit, SizesInit, TypesInit, LoginsInit, TagsInit DEF Init, PartsInv
<1>2. PartsInv /\ [Next]_vars => PartsInv'
    <2> SUFFICES ASSUME PartsInv, [Next]_vars PROVE PartsInv'
        OBVIOUS
    <2>1. (part = "embeddings" => EmbInv)'
        BY PartStays, EmbStep DEF PartsInv
    <2>2. (part = "pages" => WikiInv)'
        BY PartStays, WikiStep DEF PartsInv
    <2>3. (part = "threads" => ThreadsInv /\ ParentsInv)'
        BY PartStays, ThreadsStep, ParentsStep DEF PartsInv
    <2>4. (part = "health" => HealthInv)'
        BY PartStays, HealthStep DEF PartsInv
    <2>5. (part = "lists" => Lists!TypeOK)'
        BY PartStays, ListsStep DEF PartsInv
    <2>6. (part = "compose" => ComposeInv /\ Labels /\ Sizes /\ ComposeTypes)'
        BY PartStays, ComposeStep, LabelsStep, SizesStep, TypesStep DEF PartsInv
    <2>7. (part = "related" => RelatedInv)'
        BY PartStays, RelatedStep DEF PartsInv
    <2>8. (part = "logins" => LoginsInv)'
        BY PartStays, LoginsStep DEF PartsInv
    <2>9. (part = "tags" => TagsInv)'
        BY PartStays, TagsStep DEF PartsInv
    <2> QED
        BY <2>1, <2>2, <2>3, <2>4, <2>5, <2>6, <2>7, <2>8, <2>9 DEF PartsInv
<1> QED
    BY <1>1, <1>2, PTL DEF Spec

\* Rows, requests and what a browser holds keep their shapes, in each part.
THEOREM TypeCorrect == Spec => []TypeOK
<1>1. PartsInv => TypeOK
    BY DEF PartsInv, EmbInv, WikiInv, ThreadsInv, HealthInv, ComposeTypes, LoginsInv, TagsInv, TypeOK
<1> QED
    BY <1>1, Invariance, PTL

\* A row never mixes the title of one time with the text of another, for any number of
\* synchronisations, however they overlap and however long the embedding service takes
\* (sync_wiki_document_embedding).
THEOREM RowsDescribeDocuments == Spec => []RowDescribesDocument
<1>1. PartsInv => RowDescribesDocument
    BY EmbHolds DEF PartsInv, RowDescribesDocument
<1> QED
    BY <1>1, Invariance, PTL

\* When nobody is synchronising, the row is that of the document as it is, unless a change
\* was not followed or was overtaken (signals.py, sync_wiki_document_embedding).
THEOREM RowsAreCurrent == Spec => []CurrentWhenCalm
<1>1. PartsInv => CurrentWhenCalm
    BY EmbHolds DEF PartsInv, CurrentWhenCalm
<1> QED
    BY <1>1, Invariance, PTL

\* Where WIKI_EMBEDDING_DIM fits the column, a document has a row as soon as one can be
\* made, in whatever order the document, its revision, its sources and their vectors are
\* saved and whether or not the service fails, unless the service answered with a vector of
\* another length or a save went past the models (signals.py, wiki_embeddings.py).
THEOREM RowsAreMade == Spec => []EmbeddedWhenPossible
<1>1. PartsInv => EmbeddedWhenPossible
    BY EmbHolds DEF PartsInv, EmbeddedWhenPossible
<1> QED
    BY <1>1, Invariance, PTL

\* A wiki page shows the revision it was opened for, as it was a cache's time and two
\* requests ago at most, for any number of requests and any such times
\* (get_cached_revision_render).
THEOREM PagesShowRevisions == Spec => []ShowsItsRevision
<1>1. PartsInv => ShowsItsRevision
    BY WikiShows DEF PartsInv, ShowsItsRevision
<1> QED
    BY <1>1, Invariance, PTL

\* Whoever is concerned by a comment hears of it once, and nobody else does, for any number
\* of comments, users and requests (notify_comment_created).
THEOREM EachIsToldOnce == Spec => []EachHearsOnce
<1>1. PartsInv => EachHearsOnce
    BY ThreadsHear DEF PartsInv, EachHearsOnce
<1> QED
    BY <1>1, Invariance, PTL

\* False alarms need two checks at once, and a report is no older than the time to live,
\* however many checks overlap and however long they take (check_cache,
\* get_cached_readiness_checks).
THEOREM ReportsHaveCause == Spec => []ReportsForCause
<1>1. PartsInv => ReportsForCause
    BY HealthReports DEF PartsInv, ReportsForCause
<1> QED
    BY <1>1, Invariance, PTL

\* What is listed opens for the one it is listed for, and a mark on what opens is listed,
\* whatever has become of the posts since (core/views.py and accounts/views.py).
THEOREM ListedIsOpen == Spec => []ListsShowWhatOpens
<1>1. PartsInv => ListsShowWhatOpens
    BY ListsOpen, MarksListed DEF PartsInv, ListsShowWhatOpens, Lists!ListsShowWhatOpens
<1> QED
    BY <1>1, Invariance, PTL

\* What was a post when the form that continues it was sent is left alone, and links to
\* closed documents are saved only when they were closed after the form was sent, for any
\* number of documents, chips and moves (views.community_list, forms.PostForm).
THEOREM SavedSoundly == Spec => SavesAreSound
<1>1. PartsInv /\ [Next]_vars => [part = "compose" => Compose!SavesAreSound]_vars
    BY PartStays, ComposeSaves DEF PartsInv
<1> QED
    BY <1>1, Invariance, PTL DEF Spec, SavesAreSound

\* Every label of a search result is right but for documents that moved during the search,
\* whatever the user clicks and however the picker's two queries interleave with it
\* (static/js/app.js and views.community_wiki_picker).
THEOREM LabelsAreRight == Spec => []LabelsFollowChips
<1>1. PartsInv => LabelsFollowChips
    BY LabelsRight DEF PartsInv, LabelsFollowChips
<1> QED
    BY <1>1, Invariance, PTL

\* The form has one document too many at most, and only the two ways to get there that the
\* browser leaves open, for any limit and any number of documents (static/js/app.js).
THEOREM OneTooManyAtMost == Spec => []AtMostOneTooMany
<1>1. PartsInv => AtMostOneTooMany
    BY DEF PartsInv, Sizes, AtMostOneTooMany
<1> QED
    BY <1>1, Invariance, PTL

\* As long as logins follow one another, no more wrong passwords are tried than two windows
\* that meet allow, and nobody is locked out who has not used the limit up, for any limit, any
\* window and any number of requests (record_failed_login, reset_login_rate_limit).
THEOREM LimitsAreKept == Spec => []LimitIsKept
<1>1. PartsInv => LimitIsKept
    BY LoginsLimited DEF PartsInv, LimitIsKept
<1> QED
    BY <1>1, Invariance, PTL

\* A counter leaves the cache a second after its window at the latest, however logins overlap
\* (record_failed_login, _remaining_timeout_seconds).
THEOREM EntriesEndWithWindows == Spec => []EntryEndsWithWindow
<1>1. PartsInv => EntryEndsWithWindow
    BY DEF PartsInv, LoginsInv, EntryEndsWithWindow
<1> QED
    BY <1>1, Invariance, PTL

\* No two tags have one name, upper and lower case taken as one, however many submissions
\* make tags at once, until an administrator enters one; the tags that are not committed yet
\* are among them (PostForm._get_or_create_tag).
THEOREM TagNamesAreUnique == Spec => []NamesUnique
<1>1. PartsInv => NamesUnique
    BY TagsUnique DEF PartsInv, NamesUnique
<1> QED
    BY <1>1, Invariance, PTL

\* A submission gives up only when tags of other names have all the slugs it may try, for any
\* number of slugs and names, until an administrator enters or changes a tag
\* (PostForm._get_or_create_tag).
THEOREM SubmissionsGiveUpForCause == Spec => GivesUpForCause
<1>1. PartsInv /\ [Next]_vars => [part = "tags" => Tagging!GivesUpForCause]_vars
    BY TagsGiveUp DEF PartsInv
<1> QED
    BY <1>1, Invariance, PTL DEF Spec, GivesUpForCause

\* The pages recommended are the best there are while nothing is published or taken away, and
\* a sound list otherwise, for any number of pages and any limit (_get_related_wiki_documents).
THEOREM ListsAreRight == Spec => []ListIsRight
<1>1. PartsInv => ListIsRight
    BY RelatedRight DEF PartsInv, ListIsRight
<1> QED
    BY <1>1, Invariance, PTL

\* The walk from a comment to its ancestors ends, a comment that is shown has every thread
\* around it expanded, and threads opened one by one show what the whole tree shows, for any
\* number of comments (_get_comment_ancestor_ids, _get_comment_tree, _get_child_comments).
THEOREM ThreadsStayWhole == Spec => []ThreadsAreWhole
<1>1. PartsInv => ThreadsAreWhole
    BY ThreadsSame, FocusOpens DEF PartsInv, ThreadsAreWhole
<1> QED
    BY <1>1, Invariance, PTL

=============================================================================
