---------------------------- MODULE MCNoteShares ----------------------------
(* One note; its owner, whose principal has no address, and a user known   *)
(* by id and by address.  Two requests meet whatever earlier ones left, a  *)
(* pair of shares with one target included; the note's row changes once,   *)
(* perhaps to an owner's address stored with a capital.                    *)
EXTENDS NoteShares, TLC

CONSTANTS r1, r2
MCRequests == {r1, r2}
Symmetry == Permutations(MCRequests)
MCEmailOf == [u \in {"ann", "bob"} |-> IF u = "ann" THEN "none" ELSE "b@x"]
MCLower == [m \in {"b@x", "B@x"} |-> "b@x"]
MCNoteRows == {[user |-> "ann", email |-> "none", archived |-> FALSE],
               [user |-> "nobody", email |-> "B@x", archived |-> FALSE],
               [user |-> "nobody", email |-> "b@x", archived |-> TRUE]}
MCInitialNotes == [n \in {"n1"} |-> [user |-> "ann", email |-> "none", archived |-> FALSE]]

Share(t, p, at) == [note |-> "n1", target |-> t, permission |-> p, at |-> at]
MCInitialShares == {{},
    {Share("b@x", "editor", 1), Share("b@x", "viewer", 2), Share("bob", "viewer", 3)}}
Payload(t, p, public) == [target |-> t, permission |-> p, public |-> public]
MCPayloads == {Payload("bob", "editor", FALSE), Payload("b@x", "viewer", FALSE),
               Payload("b@x", "none", FALSE), Payload("bob", "editor", TRUE),
               Payload("nobody in particular", "viewer", FALSE)}
=============================================================================
