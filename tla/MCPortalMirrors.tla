--------------------------- MODULE MCPortalMirrors ---------------------------
(* Small instances of PortalMirrors: each budget lets other things happen.   *)
EXTENDS PortalMirrors

Allow(names, c, r, s, m) ==
    [names |-> names, changes |-> c, registers |-> r, staged |-> s, mishaps |-> m]

p1 == CHOOSE p \in Players : TRUE
n1 == CHOOSE n \in Items : TRUE

MCBudgets ==
    { Allow({p1}, 4, 0, 0, 0),       \* a player changes hands
      Allow(Players, 2, 0, 0, 0),    \* two players want one path
      Allow({p1}, 1, 0, 2, 0),       \* artwork, and a player that goes
      Allow({p1}, 1, 0, 1, 1),       \* a mirror that cannot be published
      Allow({n1}, 2, 1, 0, 0),       \* an item whose name moves
      Allow({p1, n1}, 2, 0, 0, 0),   \* an owner gives up another name
      Allow({n1}, 1, 2, 0, 0) }      \* two items
====
