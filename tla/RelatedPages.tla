---------------------------- MODULE RelatedPages ----------------------------
(***************************************************************************)
(* The pages a page of the wiki recommends: those nearest to it by their   *)
(* vectors, then those that share sources with it, then the latest, up to  *)
(* a limit.  Each part is a query of its own, of what is published at that *)
(* moment, and looks only for what is still missing.                       *)
(*                                                                         *)
(* The posts a post recommends are found in the same way, without vectors: *)
(* those that share tags, wiki documents or words with it, then the most   *)
(* discussed.                                                              *)
(***************************************************************************)
EXTENDS Naturals, SequencesExt

CONSTANTS Pages, Self,
          Latest,  \* the pages from the latest to the oldest
          Limit

\* What is asked of the constants.
RelatedAssumption ==
    /\ Self \in Pages /\ Limit \in Nat
    /\ Latest \in Seq(Pages) /\ IsInjective(Latest) /\ ToSet(Latest) = Pages

VARIABLES listed, \* the pages that are published
          near,   \* those with a vector, from the nearest; Self is nearest to itself
          shared, \* those that share sources, in the order of how many
          ids,    \* the pages found by their vectors
          found,  \* the recommended pages
          step,
          always, calm \* history: the pages listed since the request began; nothing changed

data == <<near, shared>>
vars == <<listed, data, ids, found, step, always, calm>>

\* Sequences of some of the others, Self before them.
Orders == {<<Self>> \o order : order \in UNION {SetToSeqs(S) : S \in SUBSET (Pages \ {Self})}}

Upto(n, order) == SubSeq(order, 1, IF n < Len(order) THEN n ELSE Len(order))

\* The pages of an order that are in S, from its first n.
FirstOf(order, S) ==
    LET kept[n \in 0..Len(order)] ==
            IF n = 0 THEN <<>>
            ELSE IF order[n] \in S THEN Append(kept[n - 1], order[n]) ELSE kept[n - 1]
    IN kept
Of(order, S) == FirstOf(order, S)[Len(order)]

\* Mutant: what was found before may be found again.
SelfSeen == {Self}

\* The page itself is seen, and what has been found.
Seen == {Self} \cup ToSet(found)

\* The first of those not seen yet, as many as are missing.
Missing(order) == Upto(Limit - Len(found), Of(order, listed \ Seen))

Init ==
    /\ listed \in SUBSET Pages /\ Self \in listed
    /\ near \in Orders /\ shared \in Orders
    /\ ids = <<>> /\ found = <<>>
    /\ step \in {"vectors", "sources"} \* a page without a vector begins with its sources
    /\ always = listed /\ calm = TRUE

Vectors ==
    /\ step = "vectors" /\ step' = "fetch"
    /\ ids' = Upto(Limit, Of(near, listed \ {Self}))
    /\ UNCHANGED <<listed, data, found, always, calm>>

\* Fetched by their ids, in the order of the ids; some may be gone by now.
Fetch ==
    /\ step = "fetch" /\ step' = "sources"
    /\ found' = Of(ids, listed)
    /\ UNCHANGED <<listed, data, ids, always, calm>>

Sources ==
    /\ step = "sources" /\ step' = "latest"
    /\ found' = found \o Missing(shared)
    /\ UNCHANGED <<listed, data, ids, always, calm>>

Fallback ==
    /\ step = "latest" /\ step' = "done"
    /\ found' = found \o Missing(Latest)
    /\ UNCHANGED <<listed, data, ids, always, calm>>

\* An administrator publishes a page, or takes one away; what becomes of Self
\* meanwhile makes no difference, since every query leaves it out.
Moderate ==
    \E page \in Pages \ {Self} :
        /\ step # "done"
        /\ listed' = IF page \in listed THEN listed \ {page} ELSE listed \cup {page}
        /\ always' = always \cap listed' /\ calm' = FALSE
        /\ UNCHANGED <<data, ids, found, step>>

Next == Vectors \/ Fetch \/ Sources \/ Fallback \/ Moderate

Spec == Init /\ [][Next]_vars

-----------------------------------------------------------------------------
(* Properties. *)

\* The three queries put together what one would: the nearest, those with the most
\* sources in common, the latest, without one that came before.
Best(vectors) ==
    LET after(order, S) == Of(order, listed \ S)
        first == IF vectors THEN Of(near, listed \ {Self}) ELSE <<>>
        second == after(shared, {Self} \cup ToSet(first))
        third == after(Latest, {Self} \cup ToSet(first) \cup ToSet(second))
    IN Upto(Limit, first \o second \o third)

\* While nothing is published or taken away, the list is the best there is.
ListsBest ==
    (step = "done" /\ calm) => found = Best(ids # <<>>)

\* Whatever is published or taken away between the queries, no page is recommended
\* twice, none recommends itself, the limit holds, and it is reached unless every page
\* that was there all the time is on the list (_get_related_wiki_documents).
ListIsSound ==
    step = "done" =>
        /\ IsInjective(found) /\ Self \notin ToSet(found)
        /\ Len(found) <= Limit
        /\ Len(found) < Limit => always \ {Self} \subseteq ToSet(found)

=============================================================================
