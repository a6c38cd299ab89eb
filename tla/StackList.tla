----------------------------- MODULE StackList -----------------------------
(***************************************************************************)
(* What list.h promises of list_add and list_del when every entry is added *)
(* once and they do not race for an entry: entries are put in front, and a *)
(* deletion takes out one of them and leaves the others in their order.    *)
(***************************************************************************)
EXTENDS SequencesExt

CONSTANT Nodes
VARIABLES items, sound

Init == items = <<>> /\ sound = TRUE

Push(n) == /\ ~ Contains(items, n)
           /\ items' = <<n>> \o items

Delete(n) == \E i \in DOMAIN items : /\ items[i] = n
                                     /\ items' = RemoveAt(items, i)

Change == /\ sound /\ sound'
          /\ \E n \in Nodes : Push(n) \/ Delete(n)

\* after a race nothing is said of the entries, until the list is made anew
Race  == ~ sound'
Renew == ~ sound /\ sound' /\ items' = <<>>

Next == Change \/ Race \/ Renew

Spec == Init /\ [][Next]_<<items, sound>>
=============================================================================
