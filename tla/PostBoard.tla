------------------------------ MODULE PostBoard ------------------------------
(***************************************************************************)
(* What the community board promises of its posts, without transactions:   *)
(* a submission of the author sets status, text and labels together and    *)
(* leaves it to moderation whether the post is deleted; moderation sets    *)
(* that and leaves the rest alone.                                         *)
(***************************************************************************)
CONSTANTS Posts, Texts, LabelsOf, None

VARIABLE board

Statuses == {"draft", "published"}

Whole(p) ==
    \/ board[p] = [status |-> "absent", text |-> None, labels |-> {}, deleted |-> FALSE]
    \/ \E t \in Texts, status \in Statuses, deleted \in BOOLEAN :
          board[p] = [status |-> status, text |-> t, labels |-> LabelsOf[t], deleted |-> deleted]

Init == \A p \in Posts : Whole(p)

Submit(p, t, status) ==
    board' = [board EXCEPT ![p] = [status |-> status, text |-> t, labels |-> LabelsOf[t],
                                   deleted |-> board[p].deleted]]

Remove(p) ==
    /\ board[p].status # "absent"
    /\ board' = [board EXCEPT ![p].deleted = TRUE]

Restore(p) ==
    /\ board[p].status # "absent"
    /\ board' = [board EXCEPT ![p].deleted = FALSE]

Next ==
    \E p \in Posts :
        \/ \E t \in Texts, status \in Statuses : Submit(p, t, status)
        \/ Remove(p) \/ Restore(p)

Spec == Init /\ [][Next]_board

=============================================================================
