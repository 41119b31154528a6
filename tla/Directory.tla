------------------------------- MODULE Directory -------------------------------
(***************************************************************************)
(* What a unique index promises the applications that share a collection:   *)
(* a name belongs to one holder at a time.  A holder takes a free name once, *)
(* may change it for another free one, and gives it up for good.            *)
(***************************************************************************)
CONSTANTS Holders, Names, None, Gone

VARIABLE name       \* the name of each holder, None before, Gone after it had one

Free(n) == \A h \in Holders : name[h] /= n

Init ==
    /\ name \in [Holders -> Names \cup {None}]
    /\ \A h, g \in Holders : name[h] \in Names /\ name[h] = name[g] => h = g

Take(h, n) == name[h] = None /\ Free(n) /\ name' = [name EXCEPT ![h] = n]

Change(h, n) == name[h] \in Names /\ Free(n) /\ name' = [name EXCEPT ![h] = n]

GiveUp(h) == name[h] \in Names /\ name' = [name EXCEPT ![h] = Gone]

Next ==
    \E h \in Holders :
       /\ name'[h] /= name[h]
       /\ GiveUp(h) \/ \E n \in Names : Take(h, n) \/ Change(h, n)

Spec == Init /\ [][Next]_name
================================================================================
