---------------------------- MODULE Relationships ----------------------------
(***************************************************************************)
(* What FriendService promises about two people, as each of them sees it   *)
(* when looking the other up: nothing, a request sent, a request received, *)
(* a friend, or nobody at all because one of them blocked the other. The   *)
(* two always see mirror images, and a friendship comes from a request     *)
(* only. FriendGraph is shown to implement this.                           *)
(***************************************************************************)

CONSTANT Users

VARIABLE view   \* view[a][b]: how a sees b: "none", "outgoing", "incoming",
                \* "friend" or "hidden"

(* a and b come to see each other as x and y; nobody else is concerned *)
Become(a, b, x, y) ==
  view' = [c \in Users |-> [d \in Users |->
             IF c = a /\ d = b THEN x ELSE IF c = b /\ d = a THEN y ELSE view[c][d]]]

Ask(a, b)      == a # b /\ view[a][b] = "none" /\ Become(a, b, "outgoing", "incoming")
Agree(a, b)    == view[a][b] = "incoming" /\ Become(a, b, "friend", "friend")
Withdraw(a, b) == view[a][b] = "outgoing" /\ Become(a, b, "none", "none")
Part(a, b)     == view[a][b] = "friend" /\ Become(a, b, "none", "none")
Hide(a, b)     == a # b /\ Become(a, b, "hidden", "hidden")
Reveal(a, b)   == view[a][b] = "hidden" /\ Become(a, b, "none", "none")

(* u is leaving: the requests from and to u are off *)
Retire(u) ==
  view' = [c \in Users |-> [d \in Users |->
             IF u \in {c, d} /\ view[c][d] \in {"outgoing", "incoming"}
             THEN "none" ELSE view[c][d]]]

(* u has left *)
Vanish(u) ==
  view' = [c \in Users |-> [d \in Users |-> IF u \in {c, d} THEN "none" ELSE view[c][d]]]

Init == view = [a \in Users |-> [b \in Users |-> "none"]]

Next ==
  \/ \E a, b \in Users : \/ Ask(a, b) \/ Agree(a, b) \/ Withdraw(a, b)
                         \/ Part(a, b) \/ Hide(a, b) \/ Reveal(a, b)
  \/ \E u \in Users : Retire(u) \/ Vanish(u)

Spec == Init /\ [][Next]_view

=============================================================================
