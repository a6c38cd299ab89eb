-------------------------- MODULE ResendListProofs --------------------------
(***************************************************************************)
(* Proofs about ResendList for any number of nodes.  Types are kept in     *)
(* every behaviour.  Until the first node is unlinked during a list_add,   *)
(* and again after the next start, no thread goes through a freed node,    *)
(* the list is a circle of the nodes that were added, and it changes as    *)
(* StackList says.                                                         *)
(***************************************************************************)
EXTENDS ResendList, SequenceTheorems, FiniteSetTheorems, WellFoundedInduction, TLAPS

(***************************************************************************)
(* The invariant: there is a sequence s of nodes, those on the list from   *)
(* the first to the last, that all links and both threads agree with.      *)
(***************************************************************************)
\* the circle, with the head at position 0 and again behind the last node
At(s, k) == IF k \in 1 .. Len(s) THEN s[k] ELSE HEAD
OnRing(s) == {s[k] : k \in 1 .. Len(s)} \cup {HEAD}

Distinct(s) == \A j, k \in 1 .. Len(s) : s[j] = s[k] => j = k

NextRing(s) == \A k \in 0 .. Len(s) : next[At(s, k)] = At(s, k + 1)

\* The back links are in step with the next links, except where a list_add has
\* linked behind the head but not in front, or a list_del behind but not in front.
LinkedBehind == adder.pc \in {"new->next", "new->prev", "prev->next"}
PrevOf(s, k) ==
    IF k = 0 /\ LinkedBehind THEN adder.new
    ELSE IF k # 0 /\ main.pc = "prev->next" /\ main.ptr = At(s, k) THEN main.before
    ELSE At(s, k)
PrevRing(s) == \A k \in 0 .. Len(s) : prev[At(s, k + 1)] = PrevOf(s, k)

\* A node is fresh, freed, on the circle, about to come or about to go.
InAdd == IF adder.pc = "idle" THEN {} ELSE {adder.new}
InFree == IF main.pc = "free" THEN {main.ptr} ELSE {}
Population(s) ==
    /\ \A n \in Nodes : n \in fresh \cup freed \cup OnRing(s) \cup InAdd \cup InFree
    /\ OnRing(s) \cap (fresh \cup freed) = {}
    /\ InAdd \cap (OnRing(s) \cup fresh \cup freed) = {}
    /\ InFree \cap (OnRing(s) \cup fresh \cup freed \cup InAdd) = {}

\* list_add works on the first position, and list_del elsewhere.
AdderStands(s) ==
    IF adder.pc = "idle" THEN main.pc # "adding"
    ELSE /\ adder.new \in Nodes /\ adder.at = At(s, 1)
         /\ adder.pc \in {"new->prev", "prev->next"} => next[adder.new] = adder.at
         /\ adder.pc = "prev->next" => prev[adder.new] = HEAD
         /\ main.pc \in {"next->prev", "prev->next"} => main.ptr # adder.at

\* The main thread stands on the circle, and what it has read of the links
\* around it is still so.
MainStands(s) ==
    /\ main.goal # HEAD
    /\ main.pc \in {"idle", "adding", "save", "visit"} => main.goal = POISON
    /\ main.pc \in {"find", "save", "visit", "unlink"} => main.ptr \in OnRing(s)
    /\ main.pc \in {"unlink", "next->prev", "prev->next"} => main.ptr \in OnRing(s) \ {HEAD}
    /\ main.pc = "visit" /\ main.ptr # HEAD => main.saved = next[main.ptr]
    /\ main.pc \in {"unlink", "next->prev", "prev->next"} /\ main.goal = POISON
          => main.saved = next[main.ptr]
    /\ main.pc \in {"next->prev", "prev->next"} =>
          /\ main.before \in OnRing(s) /\ next[main.before] = main.ptr
          /\ main.after = next[main.ptr]
    /\ main.pc = "free" =>
          main.ptr \in Nodes /\ (main.goal = POISON => main.saved \in OnRing(s))

RingInv(s) ==
    /\ Distinct(s) /\ NextRing(s) /\ PrevRing(s) /\ Population(s)
    /\ AdderStands(s) /\ MainStands(s)

\* Whether torn by the race or not, the list knows no node that was not added,
\* and each thread works on one that was.
Unknown(n) ==
    /\ \A p \in Places : next[p] # n /\ prev[p] # n
    /\ n \notin {main.ptr, main.saved, main.before, main.after, adder.new, adder.at}
AtWork ==
    /\ main.pc = "find" => main.goal \in Nodes
    /\ main.pc = "visit" => main.ptr \in Places
    /\ main.pc \in {"unlink", "next->prev", "prev->next", "free"} => main.ptr \in Nodes
    /\ adder.pc # "idle" => adder.new \in Nodes
TypeInv == TypeOK /\ AtWork /\ \A n \in fresh : Unknown(n)

ListInv == TypeInv /\ (~ raced => \E s \in Seq(Nodes) : RingInv(s))

(***************************************************************************)
(* The circle                                                              *)
(***************************************************************************)
LEMMA Positions ==
    ASSUME NEW s \in Seq(Nodes), Distinct(s)
    PROVE  /\ Len(s) \in Nat
           /\ \A k \in 1 .. Len(s) : At(s, k) = s[k] /\ s[k] \in Nodes /\ s[k] # HEAD
           /\ At(s, 0) = HEAD /\ At(s, Len(s) + 1) = HEAD
           /\ \A k \in 0 .. Len(s) + 1 : At(s, k) \in OnRing(s)
           /\ OnRing(s) \subseteq Places
           /\ \A p \in OnRing(s) : \E k \in 0 .. Len(s) : At(s, k) = p
           /\ \A j, k \in 0 .. Len(s) : At(s, j) = At(s, k) => j = k
           /\ \A j, k \in 1 .. Len(s) + 1 : At(s, j) = At(s, k) => j = k
<1>1. Len(s) \in Nat /\ \A k \in 1 .. Len(s) : s[k] \in Nodes
  BY ElementOfSeq
<1>2. \A k \in 1 .. Len(s) : At(s, k) = s[k] /\ s[k] \in Nodes /\ s[k] # HEAD
  BY <1>1, ListAssumption DEF At
<1>3. At(s, 0) = HEAD /\ At(s, Len(s) + 1) = HEAD
  BY <1>1 DEF At
<1>4. /\ \A k \in 0 .. Len(s) : k = 0 \/ k \in 1 .. Len(s)
      /\ \A k \in 1 .. Len(s) + 1 : k = Len(s) + 1 \/ k \in 1 .. Len(s)
      /\ \A k \in 0 .. Len(s) + 1 : k = 0 \/ k = Len(s) + 1 \/ k \in 1 .. Len(s)
      /\ 0 \in 0 .. Len(s) /\ \A k \in 1 .. Len(s) : k \in 0 .. Len(s)
  BY <1>1
<1>5. \A k \in 0 .. Len(s) + 1 : At(s, k) \in OnRing(s)
  BY <1>2, <1>3, <1>4 DEF OnRing
<1>6. OnRing(s) \subseteq Places
  BY <1>1 DEF OnRing, Places
<1>7. \A p \in OnRing(s) : \E k \in 0 .. Len(s) : At(s, k) = p
  BY <1>2, <1>3, <1>4 DEF OnRing
<1>8. \A j, k \in 0 .. Len(s) : At(s, j) = At(s, k) => j = k
  BY <1>2, <1>3, <1>4 DEF Distinct
<1>9. \A j, k \in 1 .. Len(s) + 1 : At(s, j) = At(s, k) => j = k
  BY <1>2, <1>3, <1>4 DEF Distinct
<1> QED
  BY <1>1, <1>2, <1>3, <1>5, <1>6, <1>7, <1>8, <1>9

\* Every place on the circle has its neighbours there.
LEMMA Neighbours ==
    ASSUME NEW s \in Seq(Nodes), RingInv(s), NEW p \in OnRing(s)
    PROVE  /\ p \in Places /\ next[p] \in OnRing(s) /\ p # POISON
           /\ prev[p] \in OnRing(s) \cup InAdd
           /\ p # HEAD =>
                \E k \in 1 .. Len(s) :
                   p = At(s, k) /\ next[p] = At(s, k + 1) /\ prev[p] = PrevOf(s, k - 1)
<1>1. /\ Distinct(s) /\ NextRing(s) /\ PrevRing(s) /\ MainStands(s)
  BY DEF RingInv
<1>2. PICK k \in 0 .. Len(s) : At(s, k) = p
  BY <1>1, Positions
<1>3. Len(s) \in Nat /\ k + 1 \in 0 .. Len(s) + 1
  BY Positions, <1>1
<1>4. next[p] = At(s, k + 1) /\ next[p] \in OnRing(s)
  BY <1>1, <1>2, <1>3, Positions DEF NextRing
<1>5. \E j \in 0 .. Len(s) : At(s, j + 1) = p /\ (k # 0 => j = k - 1)
  <2>1. CASE k = 0
    BY <1>1, <1>2, <1>3, <2>1, Positions
  <2>2. CASE k # 0
    <3>1. k - 1 \in 0 .. Len(s) /\ (k - 1) + 1 = k
      BY <1>3, <2>2
    <3> QED
      BY <1>2, <3>1
  <2> QED
    BY <2>1, <2>2
<1>6. PICK j \in 0 .. Len(s) : At(s, j + 1) = p /\ (k # 0 => j = k - 1)
  BY <1>5
<1>7. prev[p] = PrevOf(s, j)
  BY <1>1, <1>6 DEF PrevRing
<1>8. PrevOf(s, j) \in OnRing(s) \cup InAdd
  <2>1. At(s, j) \in OnRing(s)
    BY <1>1, <1>3, Positions
  <2> QED
    BY <1>1, <2>1 DEF PrevOf, MainStands, LinkedBehind, InAdd
<1>9. p \in Places /\ p # POISON
  BY <1>1, Positions, ListAssumption DEF Places
<1>10. p # HEAD => k \in 1 .. Len(s)
  BY <1>1, <1>2, Positions
<1> QED
  BY <1>2, <1>4, <1>6, <1>7, <1>8, <1>9, <1>10

(***************************************************************************)
(* Type correctness                                                        *)
(***************************************************************************)
LEMMA MainFields ==
    ASSUME TypeOK
    PROVE  /\ main.pc \in {"idle", "adding", "find", "save", "visit", "unlink",
                           "next->prev", "prev->next", "free"}
           /\ main.ptr \in Links /\ main.saved \in Links /\ main.before \in Links
           /\ main.after \in Links /\ main.goal \in Links
           /\ adder.pc \in {"idle", "next->prev", "new->next", "new->prev", "prev->next"}
           /\ adder.new \in Links /\ adder.at \in Links
  BY DEF TypeOK, MainThread, Adder

LEMMA InitTypes == Init => TypeInv
<1> SUFFICES ASSUME Init PROVE TypeInv
  OBVIOUS
<1> USE DEF Init
<1>1. \A p \in Places : next[p] \in {HEAD, POISON} /\ prev[p] \in {HEAD, POISON}
  BY DEF HeadAlone
<1>2. TypeOK
  BY DEF TypeOK, HeadAlone, Places, Links, Adder, NoAdder, MainThread, IdleMain
<1>3. AtWork
  BY DEF AtWork, NoAdder, IdleMain
<1>4. \A n \in fresh : Unknown(n)
  BY <1>1, ListAssumption DEF Unknown, NoAdder, IdleMain
<1> QED
  BY <1>2, <1>3, <1>4 DEF TypeInv

\* list_add hands a node out and stores it, the head and what head->next was.
LEMMA AdderTypes ==
    ASSUME TypeInv,
           \/ \E n \in Nodes, b \in BOOLEAN : AddBegins(n, b)
           \/ LinkBehind \/ PointToNext \/ PointToHead \/ LinkInFront
    PROVE  TypeInv'
<1>0. TypeOK /\ AtWork /\ (\A n \in fresh : Unknown(n)) /\ HEAD \in Places
      /\ HEAD \in Links /\ POISON \in Links /\ Nodes \subseteq Links /\ HEAD \notin Nodes
      /\ POISON \notin Nodes
  BY ListAssumption DEF TypeInv, Places, Links
<1> USE <1>0 DEF TypeInv
<1>m. ASSUME main' = [main EXCEPT !.pc = "adding"] \/ main' = IdleMain \/ main' = main,
             main' = IdleMain \/ main' = main \/ main'.pc = "adding" \/ main.pc = "idle"
      PROVE  /\ main' \in MainThread
             /\ main'.pc = "find" => main'.goal \in Nodes
             /\ main'.pc = "visit" => main'.ptr \in Places
             /\ main'.pc \in {"unlink", "next->prev", "prev->next", "free"} => main'.ptr \in Nodes
             /\ \A f \in {main'.ptr, main'.saved, main'.before, main'.after} :
                  f = POISON \/ f \in {main.ptr, main.saved, main.before, main.after}
  <2>1. CASE main' = main
    BY <2>1 DEF TypeOK, AtWork
  <2>2. CASE main' = IdleMain
    BY <2>2 DEF MainThread, IdleMain
  <2>3. CASE main' = [main EXCEPT !.pc = "adding"]
    BY <2>3 DEF TypeOK, MainThread
  <2> QED
    BY <1>m, <2>1, <2>2, <2>3
<1>1. ASSUME NEW n \in Nodes, NEW b \in BOOLEAN, AddBegins(n, b)
      PROVE  TypeInv'
  <2>1. /\ n \in fresh /\ fresh' = fresh \ {n} /\ UNCHANGED <<next, prev, freed>>
        /\ adder' = [pc |-> "next->prev", new |-> n, at |-> next[HEAD]]
        /\ main' = main \/ main' = [main EXCEPT !.pc = "adding"]
        /\ raced' \in BOOLEAN
    BY <1>1 DEF AddBegins, TypeOK
  <2>2. adder' \in Adder
    BY <2>1 DEF TypeOK, Adder
  <2>3. main' = main \/ main'.pc = "adding"
    BY <2>1 DEF TypeOK, MainThread
  <2>4. TypeOK'
    BY <1>m, <2>1, <2>2, <2>3 DEF TypeOK
  <2>5. AtWork'
    BY <1>m, <2>1, <2>3 DEF AtWork
  <2>6. \A q \in fresh' : Unknown(q)'
    <3> SUFFICES ASSUME NEW q \in fresh, q # n PROVE Unknown(q)'
      BY <2>1
    <3>1. Unknown(q) /\ q # POISON /\ q # next[HEAD]
      BY DEF TypeOK, Unknown
    <3>2. /\ adder'.new = n /\ adder'.at = next[HEAD]
          /\ q \notin {main'.ptr, main'.saved, main'.before, main'.after}
      BY <1>m, <2>1, <2>3, <3>1 DEF Unknown
    <3> QED
      BY <2>1, <3>1, <3>2 DEF Unknown
  <2> QED
    BY <2>4, <2>5, <2>6
<1>2. ASSUME NEW pc \in {"new->next", "new->prev", "prev->next"},
             adder.pc # "idle", adder' = [adder EXCEPT !.pc = pc],
             UNCHANGED <<fresh, freed, main, raced>>,
             next' \in [Places -> Links], prev' \in [Places -> Links],
             \A p \in Places : \/ next'[p] = next[p]
                              \/ next'[p] \in {adder.new, adder.at, HEAD},
             \A p \in Places : \/ prev'[p] = prev[p]
                              \/ prev'[p] \in {adder.new, adder.at, HEAD}
      PROVE  TypeInv'
  <2>1. /\ adder' \in Adder /\ adder'.new = adder.new /\ adder'.at = adder.at
    BY <1>2 DEF TypeOK, Adder
  <2>2. TypeOK'
    BY <1>2, <2>1 DEF TypeOK
  <2>3. AtWork'
    BY <1>2, <2>1 DEF AtWork
  <2>4. \A q \in fresh' : Unknown(q)'
    <3> SUFFICES ASSUME NEW q \in fresh PROVE Unknown(q)'
      BY <1>2
    <3>1. Unknown(q) /\ q # HEAD
      BY DEF TypeOK
    <3> QED
      BY <1>2, <2>1, <3>1 DEF Unknown
  <2> QED
    BY <2>2, <2>3, <2>4
<1>f. /\ adder.new \in Links /\ adder.at \in Links
      /\ adder.pc # "idle" => adder.new \in Places
  BY DEF TypeOK, Adder, AtWork, Places
<1>3. CASE LinkBehind
  <2>1. /\ prev' \in [Places -> Links] /\ next' \in [Places -> Links]
        /\ \A p \in Places : prev'[p] = prev[p] \/ prev'[p] = adder.new
    BY <1>3, <1>f DEF LinkBehind, TypeOK
  <2> QED
    BY <1>2, <1>3, <2>1 DEF LinkBehind
<1>4. CASE PointToNext
  <2>1. /\ prev' \in [Places -> Links] /\ next' \in [Places -> Links]
        /\ \A p \in Places : next'[p] = next[p] \/ next'[p] = adder.at
    BY <1>4, <1>f DEF PointToNext, TypeOK
  <2> QED
    BY <1>2, <1>4, <2>1 DEF PointToNext
<1>5. CASE PointToHead
  <2>1. /\ prev' \in [Places -> Links] /\ next' \in [Places -> Links]
        /\ \A p \in Places : prev'[p] = prev[p] \/ prev'[p] = HEAD
    BY <1>5, <1>f DEF PointToHead, TypeOK
  <2> QED
    BY <1>2, <1>5, <2>1 DEF PointToHead
<1>6. CASE LinkInFront
  <2>1. /\ adder.pc = "prev->next" /\ next' = [next EXCEPT ![HEAD] = adder.new]
        /\ adder' = NoAdder /\ UNCHANGED <<prev, fresh, freed, raced>>
        /\ main' = IdleMain \/ main' = main
    BY <1>6 DEF LinkInFront
  <2>2. /\ next' \in [Places -> Links]
        /\ \A p \in Places : next'[p] = next[p] \/ next'[p] = adder.new
    BY <1>f, <2>1 DEF TypeOK
  <2>3. adder' \in Adder /\ adder'.pc = "idle" /\ adder'.new = POISON /\ adder'.at = POISON
    BY <2>1 DEF NoAdder, Adder
  <2>4. TypeOK'
    BY <1>m, <2>1, <2>2, <2>3 DEF TypeOK
  <2>5. AtWork'
    BY <1>m, <2>1, <2>3 DEF AtWork
  <2>6. \A q \in fresh' : Unknown(q)'
    <3> SUFFICES ASSUME NEW q \in fresh PROVE Unknown(q)'
      BY <2>1
    <3>1. Unknown(q) /\ q # POISON
      BY DEF TypeOK
    <3> QED
      BY <1>m, <2>1, <2>2, <2>3, <3>1 DEF Unknown
  <2> QED
    BY <2>4, <2>5, <2>6
<1> QED
  BY <1>1, <1>3, <1>4, <1>5, <1>6

\* The main thread goes from what it knows to where its links lead, and frees a
\* node it stands on.
LEMMA MainTypes ==
    ASSUME TypeInv,
           \/ \E n \in Nodes : FindBegins(n)
           \/ Find \/ EachBegins \/ SaveNext \/ Visit
           \/ Unlink \/ UnlinkNext \/ UnlinkPrev \/ Free
    PROVE  TypeInv'
<1>0. TypeOK /\ AtWork /\ (\A n \in fresh : Unknown(n)) /\ HEAD \in Places
      /\ HEAD \in Links /\ POISON \in Links /\ Nodes \subseteq Places
      /\ Places \subseteq Links /\ HEAD \notin Nodes /\ POISON \notin Nodes
      /\ POISON \notin Places
  BY ListAssumption DEF TypeInv, Places, Links
<1> USE <1>0 DEF TypeInv
<1> DEFINE Reached == {main.ptr, main.saved, main.before, main.after, HEAD, POISON}
                      \cup {next[p] : p \in Places} \cup {prev[p] : p \in Places}
<1>r. Reached \subseteq Links /\ Reached \cap fresh = {}
  <2>1. Reached \subseteq Links
    BY DEF TypeOK, MainThread
  <2>2. ASSUME NEW q \in fresh PROVE q \notin Reached
    <3>1. Unknown(q) /\ q # HEAD /\ q # POISON
      BY DEF TypeOK
    <3> QED
      BY <3>1 DEF Unknown
  <2> QED
    BY <2>1, <2>2
<1> HIDE DEF Reached
<1>h. /\ main.ptr \in Reached /\ main.saved \in Reached /\ main.before \in Reached
      /\ main.after \in Reached /\ HEAD \in Reached /\ POISON \in Reached
      /\ \A p \in Places : next[p] \in Reached /\ prev[p] \in Reached
      /\ next[HEAD] \in Reached
  BY DEF Reached
<1>1. ASSUME UNCHANGED <<fresh, adder>>, raced' \in BOOLEAN, main' \in MainThread,
             next' \in [Places -> Links], prev' \in [Places -> Links],
             \A p \in Places : next'[p] \in Reached /\ prev'[p] \in Reached,
             main'.ptr \in Reached, main'.saved \in Reached,
             main'.before \in Reached, main'.after \in Reached,
             freed' \subseteq freed \cup ({main.ptr} \cap Nodes),
             main'.pc = "find" => main'.goal \in Nodes,
             main'.pc = "visit" => main'.ptr \in Places,
             main'.pc \in {"unlink", "next->prev", "prev->next", "free"}
               => main'.ptr \in Nodes
      PROVE  TypeInv'
  <2>1. TypeOK'
    BY <1>1, <1>r, <1>h DEF TypeOK
  <2>2. AtWork'
    BY <1>1 DEF AtWork
  <2>3. \A q \in fresh' : Unknown(q)'
    <3> SUFFICES ASSUME NEW q \in fresh PROVE Unknown(q)'
      BY <1>1
    <3>1. Unknown(q) /\ q \notin Reached
      BY <1>r
    <3> QED
      BY <1>1, <3>1 DEF Unknown
  <2> QED
    BY <2>1, <2>2, <2>3
<1>2. ASSUME UNCHANGED <<next, prev, fresh, freed, adder>>, raced' \in BOOLEAN,
             main' \in MainThread, main'.ptr \in Reached, main'.saved \in Reached,
             main'.before \in Reached, main'.after \in Reached,
             main'.pc = "find" => main'.goal \in Nodes,
             main'.pc = "visit" => main'.ptr \in Places,
             main'.pc \in {"unlink", "next->prev", "prev->next", "free"}
               => main'.ptr \in Nodes
      PROVE  TypeInv'
  <2>1. next' \in [Places -> Links] /\ prev' \in [Places -> Links]
    BY <1>2 DEF TypeOK
  <2> QED
    BY <1>1, <1>2, <1>h, <2>1
<1>i. /\ IdleMain \in MainThread /\ IdleMain.pc = "idle" /\ IdleMain.ptr = POISON
      /\ IdleMain.saved = POISON /\ IdleMain.before = POISON /\ IdleMain.after = POISON
  BY DEF IdleMain, MainThread
<1>l. ASSUME NEW x \in Reached PROVE x \in Links
  BY <1>r
<1>3. ASSUME NEW n \in Nodes, FindBegins(n) PROVE TypeInv'
  <2>1. main' = [main EXCEPT !.pc = "find", !.ptr = next[HEAD], !.goal = n]
        /\ UNCHANGED <<next, prev, fresh, freed, adder, raced>> /\ raced \in BOOLEAN
    BY <1>3 DEF FindBegins, TypeOK
  <2>2. /\ main' \in MainThread /\ main'.pc = "find" /\ main'.ptr = next[HEAD]
        /\ main'.goal = n /\ main'.saved = main.saved /\ main'.before = main.before
        /\ main'.after = main.after
    BY <1>h, <1>l, <2>1 DEF TypeOK, MainThread
  <2> QED
    BY <1>2, <1>h, <2>1, <2>2
<1>4. CASE Find
  <2>1. main.pc = "find" /\ main.ptr \in Places /\ main.goal \in Nodes
        /\ UNCHANGED <<next, prev, fresh, freed, adder, raced>> /\ raced \in BOOLEAN
        /\ \/ main' = IdleMain
           \/ main.ptr = main.goal /\ main' = [main EXCEPT !.pc = "unlink"]
           \/ main' = [main EXCEPT !.ptr = next[main.ptr]]
    BY <1>4 DEF Find, AtWork, TypeOK
  <2>2. CASE main' = IdleMain
    BY <1>2, <1>h, <1>i, <2>1, <2>2
  <2>3. CASE main.ptr = main.goal /\ main' = [main EXCEPT !.pc = "unlink"]
    <3>1. /\ main' \in MainThread /\ main'.pc = "unlink" /\ main'.ptr = main.ptr
          /\ main'.saved = main.saved /\ main'.before = main.before
          /\ main'.after = main.after
      BY <2>3 DEF TypeOK, MainThread
    <3> QED
      BY <1>2, <1>h, <2>1, <2>3, <3>1
  <2>4. CASE main' = [main EXCEPT !.ptr = next[main.ptr]]
    <3>1. /\ main' \in MainThread /\ main'.pc = "find" /\ main'.ptr = next[main.ptr]
          /\ main'.saved = main.saved /\ main'.before = main.before
          /\ main'.after = main.after /\ main'.goal = main.goal
      BY <1>h, <1>l, <2>1, <2>4 DEF TypeOK, MainThread
    <3> QED
      BY <1>2, <1>h, <2>1, <3>1
  <2> QED
    BY <2>1, <2>2, <2>3, <2>4
<1>5. CASE EachBegins
  <2>1. main' = [main EXCEPT !.pc = "save", !.ptr = next[HEAD]]
        /\ UNCHANGED <<next, prev, fresh, freed, adder, raced>> /\ raced \in BOOLEAN
    BY <1>5 DEF EachBegins, TypeOK
  <2>2. /\ main' \in MainThread /\ main'.pc = "save" /\ main'.ptr = next[HEAD]
        /\ main'.saved = main.saved /\ main'.before = main.before
        /\ main'.after = main.after
    BY <1>h, <1>l, <2>1 DEF TypeOK, MainThread
  <2> QED
    BY <1>2, <1>h, <2>1, <2>2
<1>6. CASE SaveNext
  <2>1. main' = [main EXCEPT !.pc = "visit", !.saved = next[main.ptr]]
        /\ main.ptr \in Places
        /\ UNCHANGED <<next, prev, fresh, freed, adder, raced>> /\ raced \in BOOLEAN
    BY <1>6 DEF SaveNext, TypeOK
  <2>2. /\ main' \in MainThread /\ main'.pc = "visit" /\ main'.saved = next[main.ptr]
        /\ main'.ptr = main.ptr /\ main'.before = main.before
        /\ main'.after = main.after
    BY <1>h, <1>l, <2>1 DEF TypeOK, MainThread
  <2> QED
    BY <1>2, <1>h, <2>1, <2>2
<1>7. CASE Visit
  <2>1. main.pc = "visit" /\ main.ptr \in Places
        /\ UNCHANGED <<next, prev, fresh, freed, adder, raced>> /\ raced \in BOOLEAN
        /\ \/ main' = IdleMain
           \/ main' = [main EXCEPT !.pc = "save", !.ptr = main.saved]
           \/ main.ptr # HEAD /\ main' = [main EXCEPT !.pc = "unlink"]
    BY <1>7 DEF Visit, AtWork, TypeOK
  <2>2. CASE main' = IdleMain
    BY <1>2, <1>h, <1>i, <2>1, <2>2
  <2>3. CASE main' = [main EXCEPT !.pc = "save", !.ptr = main.saved]
    <3>1. /\ main' \in MainThread /\ main'.pc = "save" /\ main'.ptr = main.saved
          /\ main'.saved = main.saved /\ main'.before = main.before
          /\ main'.after = main.after
      BY <2>3 DEF TypeOK, MainThread
    <3> QED
      BY <1>2, <1>h, <2>1, <3>1
  <2>4. CASE main.ptr # HEAD /\ main' = [main EXCEPT !.pc = "unlink"]
    <3>1. /\ main' \in MainThread /\ main'.pc = "unlink" /\ main'.ptr = main.ptr
          /\ main'.saved = main.saved /\ main'.before = main.before
          /\ main'.after = main.after
      BY <2>4 DEF TypeOK, MainThread
    <3>2. main.ptr \in Nodes
      BY <2>1, <2>4 DEF Places
    <3> QED
      BY <1>2, <1>h, <2>1, <3>1, <3>2
  <2> QED
    BY <2>1, <2>2, <2>3, <2>4
<1>8. CASE Unlink
  <2>1. main' = [main EXCEPT !.pc = "next->prev", !.before = prev[main.ptr],
                             !.after = next[main.ptr]]
        /\ main.ptr \in Nodes
        /\ UNCHANGED <<next, prev, fresh, freed, adder>> /\ raced' \in BOOLEAN
    BY <1>8 DEF Unlink, AtWork, TypeOK
  <2>2. /\ main' \in MainThread /\ main'.pc = "next->prev" /\ main'.ptr = main.ptr
        /\ main'.saved = main.saved /\ main'.before = prev[main.ptr]
        /\ main'.after = next[main.ptr]
    BY <1>h, <1>l, <2>1 DEF TypeOK, MainThread
  <2> QED
    BY <1>2, <1>h, <2>1, <2>2
<1>m. ASSUME NEW pc \in {"prev->next", "free"}, main' = [main EXCEPT !.pc = pc]
      PROVE  /\ main' \in MainThread /\ main'.pc = pc /\ main'.ptr = main.ptr
             /\ main'.saved = main.saved /\ main'.before = main.before
             /\ main'.after = main.after
  BY <1>m DEF TypeOK, MainThread
<1>9. CASE UnlinkNext
  <2>1. /\ main.pc = "next->prev" /\ main.ptr \in Nodes /\ raced' \in BOOLEAN
        /\ prev' = [prev EXCEPT ![main.after] = main.before]
        /\ main' = [main EXCEPT !.pc = "prev->next"]
        /\ UNCHANGED <<next, fresh, freed, adder>>
    BY <1>9 DEF UnlinkNext, AtWork, TypeOK
  <2>2. /\ next' \in [Places -> Links] /\ prev' \in [Places -> Links]
        /\ \A p \in Places : prev'[p] = prev[p] \/ prev'[p] = main.before
    BY <1>h, <1>l, <2>1 DEF TypeOK
  <2> QED
    BY <1>1, <1>h, <1>m, <2>1, <2>2
<1>10. CASE UnlinkPrev
  <2>1. /\ main.pc = "prev->next" /\ main.ptr \in Nodes /\ raced' \in BOOLEAN
        /\ next' = [next EXCEPT ![main.before] = main.after]
        /\ main' = [main EXCEPT !.pc = "free"]
        /\ UNCHANGED <<prev, fresh, freed, adder>>
    BY <1>10 DEF UnlinkPrev, AtWork, TypeOK
  <2>2. /\ next' \in [Places -> Links] /\ prev' \in [Places -> Links]
        /\ \A p \in Places : next'[p] = next[p] \/ next'[p] = main.after
    BY <1>h, <1>l, <2>1 DEF TypeOK
  <2> QED
    BY <1>1, <1>h, <1>m, <2>1, <2>2
<1>11. CASE Free
  <2>1. /\ main.pc = "free" /\ main.ptr \in Nodes /\ raced' \in BOOLEAN
        /\ next' = [next EXCEPT ![main.ptr] = POISON]
        /\ prev' = [prev EXCEPT ![main.ptr] = POISON]
        /\ freed' = freed \cup {main.ptr} /\ UNCHANGED <<fresh, adder>>
        /\ \/ main' = IdleMain
           \/ main' = [main EXCEPT !.pc = "save", !.ptr = main.saved]
    BY <1>11 DEF Free, AtWork, TypeOK
  <2>2. /\ next' \in [Places -> Links] /\ prev' \in [Places -> Links]
        /\ \A p \in Places : next'[p] = next[p] \/ next'[p] = POISON
        /\ \A p \in Places : prev'[p] = prev[p] \/ prev'[p] = POISON
    BY <2>1 DEF TypeOK
  <2>3. /\ main' \in MainThread /\ main'.pc \in {"idle", "save"}
        /\ main'.ptr \in Reached /\ main'.saved \in Reached
        /\ main'.before \in Reached /\ main'.after \in Reached
    <3>1. CASE main' = IdleMain
      BY <1>h, <1>i, <3>1
    <3>2. CASE main' = [main EXCEPT !.pc = "save", !.ptr = main.saved]
      <4>1. /\ main' \in MainThread /\ main'.pc = "save" /\ main'.ptr = main.saved
            /\ main'.saved = main.saved /\ main'.before = main.before
            /\ main'.after = main.after
        BY <3>2 DEF TypeOK, MainThread
      <4> QED
        BY <1>h, <4>1
    <3> QED
      BY <2>1, <3>1, <3>2
  <2> QED
    BY <1>1, <1>h, <2>1, <2>2, <2>3
<1> QED
  BY <1>3, <1>4, <1>5, <1>6, <1>7, <1>8, <1>9, <1>10, <1>11

(***************************************************************************)
(* Steps that leave the circle alone                                       *)
(***************************************************************************)
LEMMA InitRing == Init => RingInv(<<>>)
<1> SUFFICES ASSUME Init PROVE RingInv(<<>>)
  OBVIOUS
<1> USE DEF Init, HeadAlone
<1>2. Len(<<>>) = 0 /\ \A k : k \notin 1 .. 0 /\ 1 .. 0 = {}
  OBVIOUS
<1>3. \A k : At(<<>>, k) = HEAD
  BY <1>2 DEF At
<1>4. OnRing(<<>>) = {HEAD}
  BY <1>2 DEF OnRing
<1>5. HEAD \in Places /\ next[HEAD] = HEAD /\ prev[HEAD] = HEAD
  BY DEF Places
<1>6. adder.pc = "idle" /\ main.pc = "idle" /\ main.goal = POISON
  BY DEF NoAdder, IdleMain
<1>7. Distinct(<<>>)
  BY <1>2 DEF Distinct
<1>8. NextRing(<<>>)
  BY <1>3, <1>5 DEF NextRing
<1>9. PrevRing(<<>>)
  BY <1>3, <1>5, <1>6 DEF PrevRing, PrevOf, LinkedBehind
<1>10. Population(<<>>)
  BY <1>4, <1>6, ListAssumption DEF Population, InAdd, InFree
<1>11. AdderStands(<<>>) /\ MainStands(<<>>)
  BY <1>6, ListAssumption DEF AdderStands, MainStands
<1> QED
  BY <1>7, <1>8, <1>9, <1>10, <1>11 DEF RingInv

\* Only the main thread's own variable changes, and nothing is being relinked.
LEMMA RingStays ==
    ASSUME NEW s, RingInv(s), UNCHANGED <<next, prev, fresh, freed, adder>>,
           main.pc \notin {"prev->next", "free"},
           main'.pc \notin {"prev->next", "free"},
           AdderStands(s)', MainStands(s)'
    PROVE  RingInv(s)'
<1>1. Distinct(s)'
  BY DEF RingInv, Distinct
<1>2. NextRing(s)'
  BY DEF RingInv, NextRing, At
<1>3. PrevRing(s)'
  BY DEF RingInv, PrevRing, PrevOf, LinkedBehind, At
<1>4. Population(s)'
  BY DEF RingInv, Population, OnRing, InAdd, InFree
<1> QED
  BY <1>1, <1>2, <1>3, <1>4 DEF RingInv

LEMMA FindBeginsStep ==
    ASSUME TypeOK, NEW s \in Seq(Nodes), RingInv(s), NEW n \in Nodes, FindBegins(n)
    PROVE  RingInv(s)'
<1> USE DEF FindBegins
<1>1. /\ main'.pc = "find" /\ main'.ptr = next[HEAD] /\ main'.goal = n
      /\ main'.saved = main.saved /\ main'.before = main.before
      /\ main'.after = main.after
  BY DEF TypeOK, MainThread
<1>2. HEAD \in OnRing(s) /\ next[HEAD] \in OnRing(s)
  BY Neighbours DEF OnRing
<1>3. n \in Links /\ next[HEAD] \in Links
  BY <1>2, Positions DEF RingInv, Links, Places
<1>5. AdderStands(s)'
  BY <1>1 DEF RingInv, AdderStands, At
<1>6. MainStands(s)'
  BY <1>1, <1>2, ListAssumption DEF RingInv, MainStands, OnRing
<1> QED
  BY <1>1, <1>5, <1>6, RingStays

LEMMA FindStep ==
    ASSUME TypeOK, NEW s \in Seq(Nodes), RingInv(s), Find
    PROVE  RingInv(s)'
<1> USE DEF Find
<1>1. /\ main.pc = "find" /\ main.ptr \in OnRing(s) /\ main.goal # HEAD
      /\ UNCHANGED <<next, prev, fresh, freed, adder>>
  BY DEF RingInv, MainStands
<1>2. next[main.ptr] \in OnRing(s) /\ next[main.ptr] \in Links
  BY <1>1, Neighbours, Positions DEF RingInv, Links
<1>3. CASE main.ptr = HEAD
  <2>1. main' = IdleMain /\ main'.pc = "idle" /\ main'.goal = POISON
    BY <1>1, <1>3 DEF IdleMain
  <2>3. AdderStands(s)'
    BY <1>1, <2>1 DEF RingInv, AdderStands, At
  <2>4. MainStands(s)'
    BY <2>1, ListAssumption DEF RingInv, MainStands, OnRing
  <2> QED
    BY <1>1, <2>1, <2>3, <2>4, RingStays
<1>4. CASE main.ptr # HEAD /\ main.ptr = main.goal
  <2>1. main' = [main EXCEPT !.pc = "unlink"]
    BY <1>4
  <2>2. /\ main'.pc = "unlink" /\ main'.ptr = main.ptr /\ main'.goal = main.goal
    BY <2>1 DEF TypeOK, MainThread
  <2>3. main.goal # POISON
    BY <1>1, <1>4, Neighbours
  <2>5. AdderStands(s)'
    BY <1>1, <2>2 DEF RingInv, AdderStands, At
  <2>6. MainStands(s)'
    BY <1>1, <1>4, <2>2, <2>3, ListAssumption DEF RingInv, MainStands, OnRing
  <2> QED
    BY <1>1, <2>2, <2>5, <2>6, RingStays
<1>5. CASE main.ptr # HEAD /\ main.ptr # main.goal
  <2>1. main' = [main EXCEPT !.ptr = next[main.ptr]]
    BY <1>5
  <2>2. main'.pc = "find" /\ main'.ptr = next[main.ptr] /\ main'.goal = main.goal
    BY <1>1, <2>1 DEF TypeOK, MainThread
  <2>4. AdderStands(s)'
    BY <1>1, <2>2 DEF RingInv, AdderStands, At
  <2>5. MainStands(s)'
    BY <1>1, <1>2, <2>2, ListAssumption DEF RingInv, MainStands, OnRing
  <2> QED
    BY <1>1, <2>2, <2>4, <2>5, RingStays
<1> QED
  BY <1>3, <1>4, <1>5

LEMMA EachBeginsStep ==
    ASSUME TypeOK, NEW s \in Seq(Nodes), RingInv(s), EachBegins
    PROVE  RingInv(s)'
<1> USE DEF EachBegins
<1>1. main'.pc = "save" /\ main'.ptr = next[HEAD] /\ main'.goal = main.goal
  BY DEF TypeOK, MainThread
<1>2. next[HEAD] \in OnRing(s) /\ next[HEAD] \in Links
  BY Neighbours, Positions DEF OnRing, RingInv, Links
<1>3. main.goal = POISON
  BY DEF RingInv, MainStands
<1>5. AdderStands(s)'
  BY <1>1 DEF RingInv, AdderStands, At
<1>6. MainStands(s)'
  BY <1>1, <1>2, <1>3, ListAssumption DEF RingInv, MainStands, OnRing
<1> QED
  BY <1>1, <1>5, <1>6, RingStays

LEMMA SaveNextStep ==
    ASSUME TypeOK, NEW s \in Seq(Nodes), RingInv(s), SaveNext
    PROVE  RingInv(s)'
<1> USE DEF SaveNext
<1>1. /\ main'.pc = "visit" /\ main'.ptr = main.ptr /\ main'.goal = main.goal
      /\ main'.saved = next[main.ptr]
  BY DEF TypeOK, MainThread
<1>2. main.ptr \in OnRing(s) /\ main.goal = POISON
  BY DEF RingInv, MainStands
<1>3. next[main.ptr] \in Links
  BY <1>2, Neighbours, Positions DEF RingInv, Links
<1>5. AdderStands(s)'
  BY <1>1 DEF RingInv, AdderStands, At
<1>6. MainStands(s)'
  BY <1>1, <1>2, ListAssumption DEF RingInv, MainStands, OnRing
<1> QED
  BY <1>1, <1>5, <1>6, RingStays

LEMMA VisitStep ==
    ASSUME TypeOK, NEW s \in Seq(Nodes), RingInv(s), Visit
    PROVE  RingInv(s)'
<1> USE DEF Visit
<1>1. /\ main.pc = "visit" /\ main.ptr \in OnRing(s) /\ main.goal = POISON
      /\ main.ptr # HEAD => main.saved = next[main.ptr]
      /\ UNCHANGED <<next, prev, fresh, freed, adder>>
  BY DEF RingInv, MainStands
<1>2. next[main.ptr] \in OnRing(s)
  BY <1>1, Neighbours
<1>3. CASE main' = IdleMain
  <2>1. main'.pc = "idle" /\ main'.goal = POISON
    BY <1>3 DEF IdleMain
  <2>3. AdderStands(s)'
    BY <1>1, <2>1 DEF RingInv, AdderStands, At
  <2>4. MainStands(s)'
    BY <2>1, ListAssumption DEF RingInv, MainStands, OnRing
  <2> QED
    BY <1>1, <2>1, <2>3, <2>4, RingStays
<1>4. CASE main.ptr # HEAD /\ main' = [main EXCEPT !.pc = "save", !.ptr = main.saved]
  <2>1. main'.pc = "save" /\ main'.ptr = main.saved /\ main'.goal = main.goal
    BY <1>4 DEF TypeOK, MainThread
  <2>3. AdderStands(s)'
    BY <1>1, <2>1 DEF RingInv, AdderStands, At
  <2>4. MainStands(s)'
    BY <1>1, <1>2, <1>4, <2>1, ListAssumption DEF RingInv, MainStands, OnRing
  <2> QED
    BY <1>1, <2>1, <2>3, <2>4, RingStays
<1>5. CASE main.ptr # HEAD /\ main' = [main EXCEPT !.pc = "unlink"]
  <2>1. /\ main'.pc = "unlink" /\ main'.ptr = main.ptr /\ main'.goal = main.goal
        /\ main'.saved = main.saved
    BY <1>5 DEF TypeOK, MainThread
  <2>3. AdderStands(s)'
    BY <1>1, <2>1 DEF RingInv, AdderStands, At
  <2>4. MainStands(s)'
    BY <1>1, <1>5, <2>1, ListAssumption DEF RingInv, MainStands, OnRing
  <2> QED
    BY <1>1, <2>1, <2>3, <2>4, RingStays
<1> QED
  BY <1>3, <1>4, <1>5

LEMMA UnlinkStep ==
    ASSUME TypeOK, ~ raced', NEW s \in Seq(Nodes), RingInv(s), Unlink
    PROVE  RingInv(s)'
<1> USE DEF Unlink
<1>1. /\ main.pc = "unlink" /\ main.ptr \in OnRing(s) \ {HEAD}
      /\ main.goal = POISON => main.saved = next[main.ptr]
      /\ UNCHANGED <<next, prev, fresh, freed, adder>>
  BY DEF RingInv, MainStands
<1>2. /\ main'.pc = "next->prev" /\ main'.ptr = main.ptr /\ main'.goal = main.goal
      /\ main'.saved = main.saved
      /\ main'.before = prev[main.ptr] /\ main'.after = next[main.ptr]
  BY DEF TypeOK, MainThread
<1>3. adder.pc # "idle" => main.ptr # adder.at
  BY DEF LeavesTaken
<1>4. Distinct(s) /\ NextRing(s) /\ Len(s) \in Nat
  BY Positions DEF RingInv
<1>5. PICK k \in 1 .. Len(s) :
         main.ptr = At(s, k) /\ next[main.ptr] = At(s, k + 1)
           /\ prev[main.ptr] = PrevOf(s, k - 1)
  BY <1>1, Neighbours
<1>6. k - 1 \in 0 .. Len(s) /\ (k - 1) + 1 = k /\ k + 1 \in 0 .. Len(s) + 1
         /\ k - 1 \in 0 .. Len(s) + 1
  BY <1>4
<1>7. prev[main.ptr] = At(s, k - 1)
  <2>1. CASE k = 1
    <3>1. At(s, 1) = main.ptr
      BY <1>5, <2>1
    <3>2. adder.pc = "idle"
      BY <1>3, <3>1 DEF RingInv, AdderStands
    <3> QED
      BY <1>1, <1>5, <3>2 DEF PrevOf, LinkedBehind
  <2>2. CASE k # 1
    BY <1>1, <1>5, <1>6, <2>2 DEF PrevOf
  <2> QED
    BY <2>1, <2>2
<1>8. /\ prev[main.ptr] \in OnRing(s) /\ next[prev[main.ptr]] = main.ptr
      /\ next[main.ptr] \in OnRing(s)
  BY <1>4, <1>5, <1>6, <1>7, Positions DEF NextRing
<1>9. OnRing(s) \subseteq Links
  BY <1>4, Positions DEF Links
<1>11. AdderStands(s)'
  BY <1>1, <1>2, <1>3 DEF RingInv, AdderStands, At
<1>12. MainStands(s)'
  BY <1>1, <1>2, <1>8, ListAssumption DEF RingInv, MainStands, OnRing
<1> QED
  BY <1>1, <1>2, <1>11, <1>12, RingStays

(***************************************************************************)
(* list_add: the circle is the old one until the head points to the node   *)
(***************************************************************************)
LEMMA AddBeginsStep ==
    ASSUME TypeOK, ~ raced', NEW s \in Seq(Nodes), RingInv(s),
           NEW n \in Nodes, NEW b \in BOOLEAN, AddBegins(n, b)
    PROVE  RingInv(s)'
<1> USE DEF AddBegins
<1>1. /\ adder.pc = "idle" /\ n \in fresh /\ fresh' = fresh \ {n}
      /\ adder'.pc = "next->prev" /\ adder'.new = n /\ adder'.at = next[HEAD]
      /\ UNCHANGED <<next, prev, freed>>
  OBVIOUS
<1>2. Distinct(s) /\ NextRing(s) /\ Len(s) \in Nat
  BY Positions DEF RingInv
<1>3. /\ OnRing(s) \subseteq Links /\ HEAD \in OnRing(s) /\ next[HEAD] = At(s, 1)
      /\ At(s, 1) \in OnRing(s)
  <2>1. 0 \in 0 .. Len(s) /\ 1 \in 0 .. Len(s) + 1
    BY <1>2
  <2> QED
    BY <1>2, <2>1, Positions DEF NextRing, OnRing, Links
<1>4. main.pc \in {"next->prev", "prev->next"} => main.ptr # next[HEAD]
  BY DEF TakesLeaving, Unlinking
<1>5. \/ main' = main
      \/ main.pc = "idle" /\ main' = [main EXCEPT !.pc = "adding"]
  OBVIOUS
<1>6. /\ main.pc \in {"next->prev", "prev->next", "free", "find", "save", "visit", "unlink"}
            \/ main'.pc \in {"next->prev", "prev->next", "free", "find", "save", "visit", "unlink"}
            => main' = main
      /\ main'.goal = main.goal
  BY <1>5 DEF TypeOK, MainThread
<1>8. Distinct(s)'
  BY <1>2 DEF Distinct
<1>9. NextRing(s)'
  BY <1>1, <1>2 DEF NextRing, At
<1>10. PrevRing(s)'
  BY <1>1, <1>6 DEF RingInv, PrevRing, PrevOf, LinkedBehind, At
<1>11. Population(s)'
  <2>1. OnRing(s)' = OnRing(s) /\ InAdd' = {n} /\ InAdd = {} /\ InFree' = InFree
    BY <1>1, <1>6 DEF OnRing, InAdd, InFree
  <2>2. Population(s) /\ fresh \cap freed = {}
    BY DEF RingInv, TypeOK
  <2> QED
    BY <1>1, <2>1, <2>2 DEF Population
<1>12. AdderStands(s)'
  BY <1>1, <1>3, <1>4, <1>6 DEF AdderStands, At
<1>13. MainStands(s)'
  <2>1. MainStands(s)
    BY DEF RingInv
  <2>2. CASE main' = main
    BY <1>1, <2>1, <2>2 DEF MainStands, OnRing
  <2>3. CASE main' # main
    <3>1. main.pc = "idle" /\ main'.pc = "adding"
      BY <1>5, <2>3 DEF TypeOK, MainThread
    <3> QED
      BY <1>6, <2>1, <3>1 DEF MainStands
  <2> QED
    BY <2>2, <2>3
<1> QED
  BY <1>8, <1>9, <1>10, <1>11, <1>12, <1>13 DEF RingInv

\* the fields of adder when it moves on
LEMMA AdderMoves ==
    ASSUME TypeOK, NEW pc \in {"new->next", "new->prev", "prev->next"},
           adder' = [adder EXCEPT !.pc = pc]
    PROVE  /\ adder'.pc = pc /\ adder'.new = adder.new /\ adder'.at = adder.at
           /\ adder' \in Adder
  BY DEF TypeOK, Adder

\* Population looks at who is where, not at the links.
LEMMA PopulationStays ==
    ASSUME NEW s, Population(s), UNCHANGED <<fresh, freed>>,
           InAdd' = InAdd, InFree' = InFree
    PROVE  Population(s)'
  BY DEF Population, OnRing

LEMMA LinkBehindStep ==
    ASSUME TypeOK, NEW s \in Seq(Nodes), RingInv(s), LinkBehind
    PROVE  RingInv(s)'
<1> USE DEF LinkBehind
<1>1. /\ adder.pc = "next->prev" /\ adder.new \in Nodes /\ adder.at = At(s, 1)
      /\ main.pc \in {"next->prev", "prev->next"} => main.ptr # adder.at
      /\ UNCHANGED <<next, fresh, freed, main>>
  BY DEF RingInv, AdderStands
<1>2. /\ adder'.pc = "new->next" /\ adder'.new = adder.new /\ adder'.at = adder.at
      /\ adder' \in Adder
  BY AdderMoves
<1>3. Distinct(s) /\ NextRing(s) /\ Len(s) \in Nat /\ PrevRing(s)
  BY Positions DEF RingInv
<1>4. OnRing(s) \subseteq Places /\ At(s, 1) \in Places
  <2>1. 1 \in 0 .. Len(s) + 1
    BY <1>3
  <2> QED
    BY <1>3, <2>1, Positions
<1>5. prev' = [prev EXCEPT ![At(s, 1)] = adder.new]
  BY <1>1
<1>7. Distinct(s)' /\ NextRing(s)'
  BY <1>1, <1>3 DEF Distinct, NextRing, At
<1>8. PrevRing(s)'
  <2>1. ASSUME NEW k \in 0 .. Len(s)
        PROVE  prev'[At(s, k + 1)] = PrevOf(s, k)'
    <3>1. k + 1 \in 1 .. Len(s) + 1 /\ 1 \in 1 .. Len(s) + 1 /\ k + 1 \in 0 .. Len(s) + 1
      BY <1>3
    <3>2. At(s, k + 1) \in Places /\ (At(s, k + 1) = At(s, 1) => k = 0)
      <4>1. At(s, k + 1) = At(s, 1) => k + 1 = 1
        BY <1>3, <3>1, Positions
      <4> QED
        BY <1>3, <1>4, <3>1, <4>1, Positions
    <3>3. prev[At(s, k + 1)] = PrevOf(s, k)
      BY <1>3 DEF PrevRing
    <3>4. CASE k = 0
      BY <1>1, <1>2, <1>4, <1>5, <3>4 DEF TypeOK, PrevOf, LinkedBehind, At
    <3>5. CASE k # 0
      <4>1. prev'[At(s, k + 1)] = prev[At(s, k + 1)]
        BY <1>4, <1>5, <3>2, <3>5 DEF TypeOK
      <4> QED
        BY <1>1, <3>3, <3>5, <4>1 DEF PrevOf, At
    <3> QED
      BY <3>4, <3>5
  <2> QED
    BY <2>1 DEF PrevRing, At
<1>9. Population(s)'
  BY <1>1, <1>2, PopulationStays DEF RingInv, InAdd, InFree
<1>10. AdderStands(s)'
  BY <1>1, <1>2 DEF AdderStands, At
<1>11. MainStands(s)'
  BY <1>1 DEF RingInv, MainStands, OnRing
<1> QED
  BY <1>7, <1>8, <1>9, <1>10, <1>11 DEF RingInv

LEMMA PointToNextStep ==
    ASSUME TypeOK, NEW s \in Seq(Nodes), RingInv(s), PointToNext
    PROVE  RingInv(s)'
<1> USE DEF PointToNext
<1>1. /\ adder.pc = "new->next" /\ adder.new \in Nodes /\ adder.at = At(s, 1)
      /\ main.pc \in {"next->prev", "prev->next"} => main.ptr # adder.at
      /\ UNCHANGED <<prev, fresh, freed, main>>
  BY DEF RingInv, AdderStands
<1>2. /\ adder'.pc = "new->prev" /\ adder'.new = adder.new /\ adder'.at = adder.at
      /\ adder' \in Adder
  BY AdderMoves
<1>3. Distinct(s) /\ NextRing(s) /\ Len(s) \in Nat /\ PrevRing(s)
  BY Positions DEF RingInv
<1>4. adder.new \notin OnRing(s) /\ adder.new \in Places /\ adder.at \in Links
  BY <1>1 DEF RingInv, Population, InAdd, Places, TypeOK, Adder
<1>5. /\ next' = [next EXCEPT ![adder.new] = adder.at]
      /\ next'[adder.new] = adder.at
      /\ \A p \in OnRing(s) : next'[p] = next[p]
  BY <1>4, <1>3, Positions DEF TypeOK
<1>7. Distinct(s)'
  BY <1>3 DEF Distinct
<1>8. NextRing(s)'
  <2>1. \A k \in 0 .. Len(s) : At(s, k) \in OnRing(s)
    BY <1>3, Positions
  <2> QED
    BY <1>3, <1>5, <2>1 DEF NextRing, At
<1>9. PrevRing(s)'
  BY <1>1, <1>2, <1>3 DEF PrevRing, PrevOf, LinkedBehind, At
<1>10. Population(s)'
  BY <1>1, <1>2, PopulationStays DEF RingInv, InAdd, InFree
<1>11. AdderStands(s)'
  BY <1>1, <1>2, <1>5 DEF AdderStands, At
<1>12. MainStands(s)'
  BY <1>1, <1>5 DEF RingInv, MainStands, OnRing
<1> QED
  BY <1>7, <1>8, <1>9, <1>10, <1>11, <1>12 DEF RingInv

LEMMA PointToHeadStep ==
    ASSUME TypeOK, NEW s \in Seq(Nodes), RingInv(s), PointToHead
    PROVE  RingInv(s)'
<1> USE DEF PointToHead
<1>1. /\ adder.pc = "new->prev" /\ adder.new \in Nodes /\ adder.at = At(s, 1)
      /\ next[adder.new] = adder.at
      /\ main.pc \in {"next->prev", "prev->next"} => main.ptr # adder.at
      /\ UNCHANGED <<next, fresh, freed, main>>
  BY DEF RingInv, AdderStands
<1>2. /\ adder'.pc = "prev->next" /\ adder'.new = adder.new /\ adder'.at = adder.at
      /\ adder' \in Adder
  BY AdderMoves
<1>3. Distinct(s) /\ NextRing(s) /\ Len(s) \in Nat /\ PrevRing(s)
  BY Positions DEF RingInv
<1>4. adder.new \notin OnRing(s) /\ adder.new \in Places /\ HEAD \in Links
  BY <1>1 DEF RingInv, Population, InAdd, Places, Links
<1>5. /\ prev' = [prev EXCEPT ![adder.new] = HEAD]
      /\ prev'[adder.new] = HEAD
      /\ \A p \in OnRing(s) : prev'[p] = prev[p]
  BY <1>4, <1>3, Positions DEF TypeOK
<1>7. Distinct(s)' /\ NextRing(s)'
  BY <1>1, <1>3 DEF Distinct, NextRing, At
<1>8. PrevRing(s)'
  <2>1. \A k \in 0 .. Len(s) : At(s, k + 1) \in OnRing(s)
    <3>1. \A k \in 0 .. Len(s) : k + 1 \in 0 .. Len(s) + 1
      BY <1>3
    <3> QED
      BY <1>3, <3>1, Positions
  <2> QED
    BY <1>1, <1>2, <1>3, <1>5, <2>1 DEF PrevRing, PrevOf, LinkedBehind, At
<1>9. Population(s)'
  BY <1>1, <1>2, PopulationStays DEF RingInv, InAdd, InFree
<1>10. AdderStands(s)'
  BY <1>1, <1>2, <1>5 DEF AdderStands, At
<1>11. MainStands(s)'
  BY <1>1 DEF RingInv, MainStands, OnRing
<1> QED
  BY <1>7, <1>8, <1>9, <1>10, <1>11 DEF RingInv

\* A node in front moves every position by one.
LEMMA InFront ==
    ASSUME NEW s \in Seq(Nodes), NEW n \in Nodes, Distinct(s), n \notin OnRing(s)
    PROVE  LET t == <<n>> \o s
           IN  /\ t \in Seq(Nodes) /\ Len(t) = Len(s) + 1 /\ Distinct(t)
               /\ At(t, 0) = HEAD /\ At(t, 1) = n
               /\ \A k \in 1 .. Len(s) + 1 : At(t, k + 1) = At(s, k)
               /\ OnRing(t) = OnRing(s) \cup {n}
<1> DEFINE t == <<n>> \o s
<1>1. Len(s) \in Nat /\ \A k \in 1 .. Len(s) : s[k] \in Nodes
  BY ElementOfSeq
<1>2. /\ t \in Seq(Nodes) /\ Len(t) = Len(s) + 1 /\ t[1] = n
      /\ \A k \in 1 .. Len(s) : t[k + 1] = s[k]
  OBVIOUS
<1> HIDE DEF t
<1>3. \A k \in 1 .. Len(t) : k = 1 \/ (k - 1 \in 1 .. Len(s) /\ (k - 1) + 1 = k)
  BY <1>1, <1>2
<1>4. \A k \in 1 .. Len(s) : k + 1 \in 1 .. Len(t) /\ k + 1 # 1
  BY <1>1, <1>2
<1>11. \A k \in 1 .. Len(t) : k = 1 \/ (k - 1 \in 1 .. Len(s) /\ t[k] = s[k - 1])
  <2>1. ASSUME NEW k \in 1 .. Len(t), k # 1 PROVE k - 1 \in 1 .. Len(s) /\ t[k] = s[k - 1]
    <3>1. k - 1 \in 1 .. Len(s) /\ (k - 1) + 1 = k
      BY <1>3, <2>1
    <3>2. t[(k - 1) + 1] = s[k - 1]
      BY <1>2, <3>1
    <3> QED
      BY <3>1, <3>2
  <2> QED
    BY <2>1
<1>5. \A k \in 1 .. Len(s) : s[k] # n
  BY DEF OnRing
<1>6. Distinct(t)
  <2>1. SUFFICES ASSUME NEW j \in 1 .. Len(t), NEW k \in 1 .. Len(t), t[j] = t[k]
                 PROVE  j = k
    BY DEF Distinct
  <2>2. CASE j = 1 \/ k = 1
    BY <1>2, <1>5, <1>11, <2>1, <2>2
  <2>3. CASE j # 1 /\ k # 1
    <3>1. s[j - 1] = s[k - 1] /\ j - 1 \in 1 .. Len(s) /\ k - 1 \in 1 .. Len(s)
      BY <1>11, <2>1, <2>3
    <3>2. j - 1 = k - 1
      BY <3>1 DEF Distinct
    <3> QED
      BY <1>2, <3>2
  <2> QED
    BY <2>2, <2>3
<1>7. 1 \in 1 .. Len(t) /\ 0 \notin 1 .. Len(t)
  BY <1>1, <1>2
<1>8. At(t, 0) = HEAD /\ At(t, 1) = n
  BY <1>2, <1>7 DEF At
<1>9. ASSUME NEW k \in 1 .. Len(s) + 1
      PROVE  At(t, k + 1) = At(s, k)
  <2>1. CASE k \in 1 .. Len(s)
    BY <1>2, <1>4, <2>1 DEF At
  <2>2. CASE k = Len(s) + 1
    <3>1. k \notin 1 .. Len(s) /\ k + 1 \notin 1 .. Len(t)
      BY <1>1, <1>2, <2>2
    <3> QED
      BY <3>1 DEF At
  <2> QED
    BY <1>1, <2>1, <2>2
<1>10. OnRing(t) = OnRing(s) \cup {n}
  <2>1. ASSUME NEW p \in OnRing(t) PROVE p \in OnRing(s) \cup {n}
    <3>1. CASE p = HEAD
      BY <3>1 DEF OnRing
    <3>2. CASE p # HEAD
      <4>1. PICK k \in 1 .. Len(t) : p = t[k]
        BY <2>1, <3>2 DEF OnRing
      <4> QED
        BY <1>2, <1>11, <4>1 DEF OnRing
    <3> QED
      BY <3>1, <3>2
  <2>2. ASSUME NEW p \in OnRing(s) PROVE p \in OnRing(t)
    BY <1>2, <1>4, <2>2 DEF OnRing
  <2>3. n \in OnRing(t)
    BY <1>2, <1>7 DEF OnRing
  <2> QED
    BY <2>1, <2>2, <2>3
<1> QED
  BY <1>2, <1>6, <1>8, <1>9, <1>10 DEF t

LEMMA LinkInFrontStep ==
    ASSUME TypeOK, NEW s \in Seq(Nodes), RingInv(s), LinkInFront,
           NEW n, n = adder.new, NEW t, t = <<n>> \o s
    PROVE  /\ n \in Nodes /\ n \notin OnRing(s)
           /\ t \in Seq(Nodes) /\ RingInv(t)'
<1> USE DEF LinkInFront
<1>1. /\ adder.pc = "prev->next" /\ n \in Nodes /\ adder.at = At(s, 1)
      /\ next[n] = adder.at /\ prev[n] = HEAD
      /\ main.pc \in {"next->prev", "prev->next"} => main.ptr # adder.at
      /\ UNCHANGED <<prev, fresh, freed>>
      /\ adder' = NoAdder
      /\ next' = [next EXCEPT ![HEAD] = n]
  BY DEF RingInv, AdderStands
<1>2. /\ Distinct(s) /\ NextRing(s) /\ PrevRing(s) /\ MainStands(s) /\ Population(s)
      /\ Len(s) \in Nat
  BY Positions DEF RingInv
<1>3. n \notin OnRing(s) /\ n \notin fresh \cup freed \cup InFree /\ InAdd = {n}
  BY <1>1, <1>2 DEF Population, InAdd
<1>4. /\ t \in Seq(Nodes) /\ Len(t) = Len(s) + 1 /\ Distinct(t)
      /\ At(t, 0) = HEAD /\ At(t, 1) = n
      /\ \A k \in 1 .. Len(s) + 1 : At(t, k + 1) = At(s, k)
      /\ OnRing(t) = OnRing(s) \cup {n}
  BY <1>1, <1>2, <1>3, InFront
<1>5. /\ HEAD \in Places /\ n \in Places /\ n # HEAD /\ next'[HEAD] = n
      /\ \A p \in Places \ {HEAD} : next'[p] = next[p]
      /\ OnRing(s) \subseteq Places
  BY <1>1, <1>2, ListAssumption, Positions DEF TypeOK, Places
<1>6. \/ main' = main
      \/ main.pc = "adding" /\ main' = IdleMain
  BY <1>1
<1>7. adder'.pc = "idle" /\ adder' \in Adder
  BY <1>1 DEF NoAdder, Adder, Links
\* every position of t
<1>9. \A k \in 0 .. Len(t) : k = 0 \/ k = 1 \/
         (k - 1 \in 1 .. Len(s) /\ (k - 1) + 1 = k /\ k - 1 \in 1 .. Len(s) + 1
            /\ k \in 1 .. Len(s) + 1 /\ k - 1 \in 0 .. Len(s) /\ k - 1 # 0)
  BY <1>2, <1>4
<1>10. NextRing(t)'
  <2>1. ASSUME NEW k \in 0 .. Len(t)
        PROVE  next'[At(t, k)] = At(t, k + 1)
    <3>1. CASE k = 0
      BY <1>4, <1>5, <3>1
    <3>2. CASE k = 1
      <4>1. At(t, 1 + 1) = At(s, 1)
        BY <1>2, <1>4
      <4> QED
        BY <1>1, <1>4, <1>5, <3>2, <4>1
    <3>3. CASE k # 0 /\ k # 1
      <4>1. /\ k - 1 \in 1 .. Len(s) /\ (k - 1) + 1 = k /\ k - 1 \in 1 .. Len(s) + 1
            /\ k \in 1 .. Len(s) + 1 /\ k - 1 \in 0 .. Len(s)
        BY <1>9, <3>3
      <4>2. At(t, (k - 1) + 1) = At(s, k - 1) /\ At(t, k + 1) = At(s, k)
        BY <1>4, <4>1
      <4>3. At(s, k - 1) \in Places \ {HEAD}
        BY <1>2, <4>1, Positions DEF Places
      <4>4. next[At(s, k - 1)] = At(s, (k - 1) + 1)
        BY <1>2, <4>1 DEF NextRing
      <4> QED
        BY <1>5, <4>1, <4>2, <4>3, <4>4
    <3> QED
      BY <3>1, <3>2, <3>3
  <2> QED
    BY <2>1 DEF NextRing, At
<1>11. main'.pc = "prev->next" <=> main.pc = "prev->next"
  BY <1>6 DEF IdleMain
<1>12. main.pc = "prev->next" => main' = main /\ main.ptr \in OnRing(s)
  BY <1>2, <1>6 DEF MainStands
<1>13. PrevRing(t)'
  <2>1. ASSUME NEW k \in 0 .. Len(t)
        PROVE  prev[At(t, k + 1)] = PrevOf(t, k)'
    <3>1. CASE k = 0
      BY <1>1, <1>4, <1>7, <3>1 DEF PrevOf, LinkedBehind, At
    <3>2. CASE k = 1
      <4>1. At(t, 1 + 1) = At(s, 1)
        BY <1>2, <1>4
      <4>2. prev[At(s, 0 + 1)] = n
        <5>1. prev[At(s, 0 + 1)] = PrevOf(s, 0)
          BY <1>2 DEF PrevRing
        <5> QED
          BY <1>1, <5>1 DEF PrevOf, LinkedBehind
      <4>3. PrevOf(t, 1)' = At(t, 1)
        <5>1. ~ (main'.pc = "prev->next" /\ main'.ptr = At(t, 1))
          BY <1>3, <1>4, <1>11, <1>12
        <5> QED
          BY <5>1 DEF PrevOf, At
      <4> QED
        BY <1>4, <3>2, <4>1, <4>2, <4>3
    <3>3. CASE k # 0 /\ k # 1
      <4>1. /\ k - 1 \in 1 .. Len(s) /\ (k - 1) + 1 = k /\ k - 1 \in 1 .. Len(s) + 1
            /\ k \in 1 .. Len(s) + 1 /\ k - 1 \in 0 .. Len(s) /\ k - 1 # 0
        BY <1>9, <3>3
      <4>2. At(t, k + 1) = At(s, k) /\ At(t, k) = At(s, k - 1)
        BY <1>4, <4>1
      <4>3. prev[At(s, (k - 1) + 1)] = PrevOf(s, k - 1)
        BY <1>2, <4>1 DEF PrevRing
      <4>4. PrevOf(t, k)' = PrevOf(s, k - 1)
        BY <1>11, <1>12, <3>3, <4>1, <4>2 DEF PrevOf, At
      <4> QED
        BY <4>1, <4>2, <4>3, <4>4
    <3> QED
      BY <3>1, <3>2, <3>3
  <2> QED
    BY <1>1, <2>1 DEF PrevRing, At
<1>14. Population(t)'
  <2>1. InAdd' = {} /\ InFree' = InFree /\ OnRing(t)' = OnRing(t)
    BY <1>6, <1>7 DEF InAdd, InFree, OnRing, IdleMain
  <2> QED
    BY <1>1, <1>2, <1>3, <1>4, <2>1 DEF Population
<1>15. AdderStands(t)'
  <2>1. main'.pc # "adding"
    BY <1>6 DEF IdleMain
  <2> QED
    BY <1>7, <2>1 DEF AdderStands
<1>16. MainStands(t)'
  <2>1. CASE main' = IdleMain
    BY <2>1, ListAssumption DEF MainStands, IdleMain
  <2>2. CASE main' = main
    <3>1. OnRing(t)' = OnRing(s) \cup {n}
      BY <1>4 DEF OnRing
    <3>2. main.pc \in {"visit", "unlink", "next->prev", "prev->next"} /\ main.ptr # HEAD
             => main.ptr \in Places \ {HEAD}
      BY <1>2, <1>5 DEF MainStands
    <3>3. main.pc \in {"next->prev", "prev->next"} => main.before \in Places \ {HEAD}
      <4>1. next[HEAD] = At(s, 1)
        <5>1. 0 \in 0 .. Len(s) /\ 0 + 1 = 1
          BY <1>2
        <5> QED
          BY <1>2, <5>1, Positions DEF NextRing
      <4> QED
        BY <1>1, <1>2, <1>5, <4>1 DEF MainStands
    <3> QED
      BY <1>2, <1>5, <2>2, <3>1, <3>2, <3>3 DEF MainStands
  <2> QED
    BY <1>6, <2>1, <2>2
<1> QED
  BY <1>1, <1>3, <1>4, <1>10, <1>13, <1>14, <1>15, <1>16 DEF RingInv, Distinct

(***************************************************************************)
(* list_del: the node is off the circle when its predecessor's next skips  *)
(* it                                                                      *)
(***************************************************************************)
\* The position of the node that is being unlinked.
LEMMA Victim ==
    ASSUME NEW s \in Seq(Nodes), RingInv(s), main.pc \in {"next->prev", "prev->next"}
    PROVE  \E i \in 1 .. Len(s) :
              /\ main.ptr = s[i] /\ main.ptr = At(s, i)
              /\ main.before = At(s, i - 1) /\ main.after = At(s, i + 1)
              /\ adder.pc # "idle" => i # 1
<1>1. /\ Distinct(s) /\ NextRing(s) /\ MainStands(s) /\ AdderStands(s)
      /\ Len(s) \in Nat
  BY Positions DEF RingInv
<1>2. /\ main.ptr \in OnRing(s) \ {HEAD} /\ main.before \in OnRing(s)
      /\ next[main.before] = main.ptr /\ main.after = next[main.ptr]
  BY <1>1 DEF MainStands
<1>3. PICK i \in 1 .. Len(s) : main.ptr = At(s, i) /\ next[main.ptr] = At(s, i + 1)
  BY <1>2, Neighbours
<1>4. PICK j \in 0 .. Len(s) : At(s, j) = main.before
  BY <1>1, <1>2, Positions
<1>5. At(s, j + 1) = At(s, i) /\ j + 1 \in 1 .. Len(s) + 1 /\ i \in 1 .. Len(s) + 1
  BY <1>1, <1>2, <1>3, <1>4 DEF NextRing
<1>6. j + 1 = i
  BY <1>1, <1>5, Positions
<1>7. j = i - 1
  BY <1>6
<1>8. At(s, i) = s[i]
  BY <1>1, Positions
<1>9. adder.pc # "idle" => main.ptr # At(s, 1)
  BY <1>1 DEF AdderStands
<1> QED
  BY <1>2, <1>3, <1>4, <1>7, <1>8, <1>9

\* the fields of main when it moves on
LEMMA MainMoves ==
    ASSUME TypeOK, NEW pc \in {"prev->next", "free"},
           main' = [main EXCEPT !.pc = pc]
    PROVE  /\ main'.pc = pc /\ main'.ptr = main.ptr /\ main'.saved = main.saved
           /\ main'.before = main.before /\ main'.after = main.after
           /\ main'.goal = main.goal /\ main' \in MainThread
  BY DEF TypeOK, MainThread

LEMMA UnlinkNextStep ==
    ASSUME TypeOK, NEW s \in Seq(Nodes), RingInv(s), UnlinkNext
    PROVE  RingInv(s)'
<1> USE DEF UnlinkNext
<1>1. /\ main.pc = "next->prev" /\ prev' = [prev EXCEPT ![main.after] = main.before]
      /\ UNCHANGED <<next, fresh, freed, adder>>
  OBVIOUS
<1>2. /\ main'.pc = "prev->next" /\ main'.ptr = main.ptr /\ main'.saved = main.saved
      /\ main'.before = main.before /\ main'.after = main.after
      /\ main'.goal = main.goal /\ main' \in MainThread
  BY MainMoves
<1>3. /\ Distinct(s) /\ NextRing(s) /\ PrevRing(s) /\ MainStands(s) /\ AdderStands(s)
      /\ Len(s) \in Nat
  BY Positions DEF RingInv
<1>4. PICK i \in 1 .. Len(s) :
         /\ main.ptr = At(s, i) /\ main.before = At(s, i - 1)
         /\ main.after = At(s, i + 1)
         /\ adder.pc # "idle" => i # 1
  BY <1>1, Victim
<1>5. i \in 0 .. Len(s) /\ i # 0 /\ i + 1 \in 0 .. Len(s) + 1 /\ i - 1 \in 0 .. Len(s) + 1
         /\ i + 1 \in 1 .. Len(s) + 1
  BY <1>3
<1>6. /\ main.after \in OnRing(s) /\ main.before \in OnRing(s)
      /\ OnRing(s) \subseteq Places
  BY <1>3, <1>4, <1>5, Positions
<1>7. /\ prev'[main.after] = main.before
      /\ \A p \in Places \ {main.after} : prev'[p] = prev[p]
  BY <1>1, <1>6 DEF TypeOK
<1>9. Distinct(s)' /\ NextRing(s)'
  BY <1>1, <1>3 DEF Distinct, NextRing, At
<1>10. PrevRing(s)'
  <2>1. ASSUME NEW k \in 0 .. Len(s)
        PROVE  prev'[At(s, k + 1)] = PrevOf(s, k)'
    <3>1. k + 1 \in 1 .. Len(s) + 1 /\ k + 1 \in 0 .. Len(s) + 1
      BY <1>3
    <3>2. CASE k = i
      <4>1. PrevOf(s, i)' = main.before
        BY <1>2, <1>4, <1>5 DEF PrevOf, At
      <4> QED
        BY <1>4, <1>7, <3>2, <4>1
    <3>3. CASE k # i
      <4>1. At(s, k + 1) # At(s, i + 1)
        <5>1. At(s, k + 1) = At(s, i + 1) => k + 1 = i + 1
          BY <1>3, <1>5, <3>1, Positions
        <5> QED
          BY <3>3, <5>1
      <4>2. At(s, k + 1) \in Places
        BY <1>3, <1>6, <3>1, Positions
      <4>3. prev'[At(s, k + 1)] = PrevOf(s, k)
        BY <1>3, <1>4, <1>7, <4>1, <4>2 DEF PrevRing
      <4>4. main.ptr # At(s, k)
        BY <1>3, <1>4, <1>5, <3>3, Positions
      <4>5. PrevOf(s, k)' = PrevOf(s, k)
        BY <1>1, <1>2, <4>4 DEF PrevOf, LinkedBehind, At
      <4> QED
        BY <4>3, <4>5
    <3> QED
      BY <3>2, <3>3
  <2> QED
    BY <2>1 DEF PrevRing, At
<1>11. Population(s)'
  BY <1>1, <1>2, PopulationStays DEF RingInv, InAdd, InFree
<1>12. AdderStands(s)'
  <2>1. adder.pc = "prev->next" => adder.new \notin OnRing(s) /\ adder.new \in Places
    BY <1>3 DEF RingInv, Population, InAdd, AdderStands, Places
  <2>2. adder.pc = "prev->next" => prev'[adder.new] = HEAD
    BY <1>3, <1>6, <1>7, <2>1 DEF AdderStands
  <2> QED
    BY <1>1, <1>2, <1>3, <2>2 DEF AdderStands, At
<1>13. MainStands(s)'
  BY <1>1, <1>2, <1>3 DEF MainStands, OnRing
<1> QED
  BY <1>9, <1>10, <1>11, <1>12, <1>13 DEF RingInv

\* Without its i-th node the circle is as before in front of it and one
\* position shorter behind it.
LEMMA TakenOut ==
    ASSUME NEW s \in Seq(Nodes), Distinct(s), NEW i \in 1 .. Len(s)
    PROVE  LET t == RemoveAt(s, i)
           IN  /\ t \in Seq(Nodes) /\ Len(t) = Len(s) - 1 /\ Distinct(t)
               /\ \A k \in 0 .. i - 1 : At(t, k) = At(s, k)
               /\ \A k \in i .. Len(s) : At(t, k) = At(s, k + 1)
               /\ OnRing(t) = OnRing(s) \ {s[i]}
<1> DEFINE t == RemoveAt(s, i)
<1>1. Len(s) \in Nat /\ (\A k \in 1 .. Len(s) : s[k] \in Nodes) /\ i \in Nat
  BY ElementOfSeq
<1>2. /\ t \in Seq(Nodes) /\ Len(t) = Len(s) - 1
      /\ \A k \in 1 .. Len(t) : t[k] = IF k < i THEN s[k] ELSE s[k + 1]
  <2> DEFINE a == SubSeq(s, 1, i - 1)
             c == SubSeq(s, i + 1, Len(s))
  <2>1. /\ a \in Seq(Nodes) /\ Len(a) = i - 1
        /\ \A k \in 1 .. i - 1 : a[k] = s[k]
    BY <1>1, SubSeqProperties
  <2>2. /\ c \in Seq(Nodes) /\ Len(c) = Len(s) - i
        /\ \A k \in 1 .. Len(s) - i : c[k] = s[k + i]
    BY <1>1, SubSeqProperties
  <2>3. t = a \o c
    BY DEF RemoveAt
  <2> HIDE DEF a, c, t
  <2>4. a \in Seq(Nodes) /\ c \in Seq(Nodes)
    BY <2>1, <2>2
  <2>8. t \in Seq(Nodes) /\ Len(t) = Len(a) + Len(c)
    BY <2>3, <2>4, ConcatProperties
  <2>5. \A k \in 1 .. Len(a) + Len(c) : t[k] = IF k <= Len(a) THEN a[k] ELSE c[k - Len(a)]
    BY <2>3, <2>4, ConcatProperties
  <2>6. Len(t) = Len(s) - 1
    BY <1>1, <2>1, <2>2, <2>8
  <2>7. ASSUME NEW k \in 1 .. Len(t)
        PROVE  t[k] = IF k < i THEN s[k] ELSE s[k + 1]
    <3>1. CASE k < i
      <4>1. k <= Len(a) /\ k \in 1 .. i - 1
        BY <1>1, <2>1, <2>6, <3>1
      <4> QED
        BY <2>1, <2>8, <2>5, <3>1, <4>1
    <3>2. CASE ~ (k < i)
      <4>1. /\ ~ (k <= Len(a)) /\ k - Len(a) \in 1 .. Len(s) - i
            /\ (k - Len(a)) + i = k + 1
        BY <1>1, <2>1, <2>6, <3>2
      <4> QED
        BY <2>2, <2>8, <2>5, <3>2, <4>1
    <3> QED
      BY <3>1, <3>2
  <2> QED
    BY <2>8, <2>6, <2>7
<1> HIDE DEF t
<1>3. \A k \in 1 .. Len(t) :
         /\ k < i => k \in 1 .. Len(s) /\ t[k] = s[k] /\ k # i
         /\ ~ (k < i) => k + 1 \in 1 .. Len(s) /\ t[k] = s[k + 1] /\ k + 1 # i
  BY <1>1, <1>2
<1>4. Distinct(t)
  <2>1. SUFFICES ASSUME NEW j \in 1 .. Len(t), NEW k \in 1 .. Len(t), t[j] = t[k]
                 PROVE  j = k
    BY DEF Distinct
  <2>2. CASE j < i /\ k < i
    BY <1>3, <2>1, <2>2 DEF Distinct
  <2>3. CASE j < i /\ ~ (k < i)
    <3>1. j = k + 1
      BY <1>3, <2>1, <2>3 DEF Distinct
    <3> QED
      BY <1>1, <1>2, <2>3, <3>1
  <2>4. CASE ~ (j < i) /\ k < i
    <3>1. j + 1 = k
      BY <1>3, <2>1, <2>4 DEF Distinct
    <3> QED
      BY <1>1, <1>2, <2>4, <3>1
  <2>5. CASE ~ (j < i) /\ ~ (k < i)
    <3>1. j + 1 = k + 1
      BY <1>3, <2>1, <2>5 DEF Distinct
    <3> QED
      BY <1>1, <1>2, <3>1
  <2> QED
    BY <2>2, <2>3, <2>4, <2>5
<1>5. ASSUME NEW k \in 0 .. i - 1
      PROVE  At(t, k) = At(s, k)
  <2>1. CASE k = 0
    <3>1. k \notin 1 .. Len(t) /\ k \notin 1 .. Len(s)
      BY <1>1, <1>2, <2>1
    <3> QED
      BY <3>1 DEF At
  <2>2. CASE k # 0
    <3>1. k \in 1 .. Len(t) /\ k \in 1 .. Len(s) /\ k < i
      BY <1>1, <1>2, <2>2
    <3> QED
      BY <1>3, <3>1 DEF At
  <2> QED
    BY <2>1, <2>2
<1>6. ASSUME NEW k \in i .. Len(s)
      PROVE  At(t, k) = At(s, k + 1)
  <2>1. CASE k = Len(s)
    <3>1. k \notin 1 .. Len(t) /\ k + 1 \notin 1 .. Len(s)
      BY <1>1, <1>2, <2>1
    <3> QED
      BY <3>1 DEF At
  <2>2. CASE k # Len(s)
    <3>1. k \in 1 .. Len(t) /\ k + 1 \in 1 .. Len(s) /\ ~ (k < i)
      BY <1>1, <1>2, <2>2
    <3> QED
      BY <1>3, <3>1 DEF At
  <2> QED
    BY <2>1, <2>2
<1>7. OnRing(t) = OnRing(s) \ {s[i]}
  <2>1. s[i] # HEAD
    BY <1>1, ListAssumption
  <2>2. ASSUME NEW p \in OnRing(t) PROVE p \in OnRing(s) \ {s[i]}
    <3>1. CASE p = HEAD
      BY <2>1, <3>1 DEF OnRing
    <3>2. CASE p # HEAD
      <4>1. PICK k \in 1 .. Len(t) : p = t[k]
        BY <2>2, <3>2 DEF OnRing
      <4>2. \E j \in 1 .. Len(s) : p = s[j] /\ j # i
        BY <1>3, <4>1
      <4> QED
        BY <4>2 DEF OnRing, Distinct
    <3> QED
      BY <3>1, <3>2
  <2>3. ASSUME NEW p \in OnRing(s) \ {s[i]} PROVE p \in OnRing(t)
    <3>1. CASE p = HEAD
      BY <3>1 DEF OnRing
    <3>2. CASE p # HEAD
      <4>1. PICK j \in 1 .. Len(s) : p = s[j] /\ j # i
        BY <2>3, <3>2 DEF OnRing
      <4>2. CASE j < i
        <5>1. j \in 1 .. Len(t) /\ t[j] = s[j]
          <6>1. j \in 1 .. Len(t)
            BY <1>1, <1>2, <4>2
          <6> QED
            BY <1>3, <4>2, <6>1
        <5> QED
          BY <4>1, <5>1 DEF OnRing
      <4>3. CASE ~ (j < i)
        <5>1. j - 1 \in 1 .. Len(t) /\ ~ (j - 1 < i) /\ (j - 1) + 1 = j
          BY <1>1, <1>2, <4>1, <4>3
        <5>2. t[j - 1] = s[(j - 1) + 1]
          BY <1>3, <5>1
        <5>3. t[j - 1] = p
          BY <4>1, <5>1, <5>2
        <5> QED
          BY <5>1, <5>3 DEF OnRing
      <4> QED
        BY <4>2, <4>3
    <3> QED
      BY <3>1, <3>2
  <2> QED
    BY <2>2, <2>3
<1> QED
  BY <1>2, <1>4, <1>5, <1>6, <1>7 DEF t

LEMMA UnlinkPrevStep ==
    ASSUME TypeOK, NEW s \in Seq(Nodes), RingInv(s), UnlinkPrev
    PROVE  \E i \in 1 .. Len(s) :
              /\ s[i] = main.ptr /\ RemoveAt(s, i) \in Seq(Nodes)
              /\ RingInv(RemoveAt(s, i))'
<1> USE DEF UnlinkPrev
<1>1. /\ main.pc = "prev->next" /\ next' = [next EXCEPT ![main.before] = main.after]
      /\ UNCHANGED <<prev, fresh, freed, adder>>
  OBVIOUS
<1>2. /\ main'.pc = "free" /\ main'.ptr = main.ptr /\ main'.saved = main.saved
      /\ main'.before = main.before /\ main'.after = main.after
      /\ main'.goal = main.goal /\ main' \in MainThread
  BY MainMoves
<1>3. /\ Distinct(s) /\ NextRing(s) /\ PrevRing(s) /\ MainStands(s) /\ AdderStands(s)
      /\ Population(s) /\ Len(s) \in Nat
  BY Positions DEF RingInv
<1>4. PICK i \in 1 .. Len(s) :
         /\ main.ptr = s[i] /\ main.ptr = At(s, i)
         /\ main.before = At(s, i - 1) /\ main.after = At(s, i + 1)
         /\ adder.pc # "idle" => i # 1
  BY <1>1, Victim
<1>5. PICK t : t = RemoveAt(s, i)
  OBVIOUS
<1>6. /\ t \in Seq(Nodes) /\ Len(t) = Len(s) - 1 /\ Distinct(t)
      /\ \A k \in 0 .. i - 1 : At(t, k) = At(s, k)
      /\ \A k \in i .. Len(s) : At(t, k) = At(s, k + 1)
      /\ OnRing(t) = OnRing(s) \ {main.ptr}
  BY <1>3, <1>4, <1>5, TakenOut
<1>7. /\ i \in 0 .. Len(s) /\ i # 0 /\ i - 1 \in 0 .. Len(s) /\ i - 1 # i
      /\ i + 1 \in 0 .. Len(s) + 1 /\ i + 1 \in 1 .. Len(s) + 1 /\ i \in 1 .. Len(s) + 1
      /\ i - 1 \in 0 .. Len(s) + 1 /\ (i - 1) + 1 = i /\ i + 1 # i
      /\ i - 1 \in 0 .. i - 1 /\ i \in i .. Len(s)
  BY <1>3
<1>8. /\ main.after \in OnRing(s) /\ main.before \in OnRing(s) /\ main.ptr \in Nodes
      /\ main.after # main.ptr
      /\ OnRing(s) \subseteq Places
  BY <1>3, <1>4, <1>7, Positions
<1>9. /\ next'[main.before] = main.after
      /\ \A p \in Places \ {main.before} : next'[p] = next[p]
  BY <1>1, <1>8 DEF TypeOK
\* every position of t is one of s, in front of the node or behind it
<1>11. \A k \in 0 .. Len(t) :
          /\ k < i - 1 => /\ k \in 0 .. i - 1 /\ k + 1 \in 0 .. i - 1 /\ k \in 0 .. Len(s)
                          /\ k # i - 1 /\ k # i
          /\ k > i - 1 => /\ k \in i .. Len(s) /\ k + 1 \in i .. Len(s)
                          /\ k + 1 \in 0 .. Len(s)
                          /\ k + 1 # i - 1 /\ k + 1 # i /\ k # 0 /\ k + 1 # 0
          /\ k < i - 1 \/ k = i - 1 \/ k > i - 1
  BY <1>3, <1>6
<1>12. NextRing(t)'
  <2>1. ASSUME NEW k \in 0 .. Len(t)
        PROVE  next'[At(t, k)] = At(t, k + 1)
    <3>1. CASE k < i - 1
      <4>1. At(t, k) = At(s, k) /\ At(t, k + 1) = At(s, k + 1)
        BY <1>6, <1>11, <3>1
      <4>2. At(s, k) \in Places \ {main.before}
        <5>1. k \in 0 .. Len(s) + 1
          BY <1>3, <1>11, <3>1
        <5> QED
          BY <1>3, <1>4, <1>7, <1>8, <1>11, <3>1, <5>1, Positions
      <4>3. next[At(s, k)] = At(s, k + 1)
        BY <1>3, <1>11, <3>1 DEF NextRing
      <4> QED
        BY <1>9, <4>1, <4>2, <4>3
    <3>2. CASE k = i - 1
      BY <1>4, <1>6, <1>7, <1>9, <3>2
    <3>3. CASE k > i - 1
      <4>1. At(t, k) = At(s, k + 1) /\ At(t, k + 1) = At(s, (k + 1) + 1)
        BY <1>6, <1>11, <3>3
      <4>2. At(s, k + 1) \in Places \ {main.before}
        <5>1. k + 1 \in 0 .. Len(s) + 1
          BY <1>3, <1>11, <3>3
        <5> QED
          BY <1>3, <1>4, <1>7, <1>8, <1>11, <3>3, <5>1, Positions
      <4>3. next[At(s, k + 1)] = At(s, (k + 1) + 1)
        BY <1>3, <1>11, <3>3 DEF NextRing
      <4> QED
        BY <1>9, <4>1, <4>2, <4>3
    <3> QED
      BY <1>11, <3>1, <3>2, <3>3
  <2> QED
    BY <2>1 DEF NextRing, At
<1>13. PrevRing(t)'
  <2>1. ASSUME NEW k \in 0 .. Len(t)
        PROVE  prev[At(t, k + 1)] = PrevOf(t, k)'
    <3>1. CASE k < i - 1
      <4>1. At(t, k) = At(s, k) /\ At(t, k + 1) = At(s, k + 1)
        BY <1>6, <1>11, <3>1
      <4>2. prev[At(s, k + 1)] = PrevOf(s, k)
        BY <1>3, <1>11, <3>1 DEF PrevRing
      <4>3. main.ptr # At(s, k)
        BY <1>3, <1>4, <1>7, <1>11, <3>1, Positions
      <4> QED
        BY <1>1, <1>2, <4>1, <4>2, <4>3 DEF PrevOf, LinkedBehind, At
    <3>2. CASE k = i - 1
      <4>1. At(t, k) = At(s, i - 1) /\ At(t, k + 1) = At(s, i + 1)
        BY <1>6, <1>7, <3>2
      <4>2. prev[At(s, i + 1)] = PrevOf(s, i)
        BY <1>3, <1>7 DEF PrevRing
      <4>3. PrevOf(s, i) = At(s, i - 1)
        BY <1>1, <1>4, <1>7 DEF PrevOf
      <4>4. k = 0 => ~ LinkedBehind'
        BY <1>1, <1>4, <3>2 DEF LinkedBehind
      <4>5. PrevOf(t, k)' = At(t, k)
        BY <1>2, <4>4 DEF PrevOf, At
      <4> QED
        BY <4>1, <4>2, <4>3, <4>5
    <3>3. CASE k > i - 1
      <4>1. At(t, k) = At(s, k + 1) /\ At(t, k + 1) = At(s, (k + 1) + 1)
        BY <1>6, <1>11, <3>3
      <4>2. prev[At(s, (k + 1) + 1)] = PrevOf(s, k + 1)
        BY <1>3, <1>11, <3>3 DEF PrevRing
      <4>3. main.ptr # At(s, k + 1)
        BY <1>3, <1>4, <1>7, <1>11, <3>3, Positions
      <4>4. PrevOf(s, k + 1) = At(s, k + 1)
        BY <1>11, <3>3, <4>3 DEF PrevOf
      <4>5. PrevOf(t, k)' = At(t, k)
        BY <1>2, <1>11, <3>3 DEF PrevOf, At
      <4> QED
        BY <4>1, <4>2, <4>4, <4>5
    <3> QED
      BY <1>11, <3>1, <3>2, <3>3
  <2> QED
    BY <1>1, <2>1 DEF PrevRing, At
<1>14. Population(t)'
  <2>1. /\ OnRing(t)' = OnRing(s) \ {main.ptr} /\ InFree' = {main.ptr} /\ InFree = {}
        /\ InAdd' = InAdd
    BY <1>1, <1>2, <1>6 DEF OnRing, InFree, InAdd
  <2>2. main.ptr \in OnRing(s)
    BY <1>3, <1>4, <1>7, Positions
  <2> QED
    BY <1>1, <1>3, <2>1, <2>2 DEF Population
<1>15. AdderStands(t)'
  <2>1. CASE adder.pc = "idle"
    BY <1>1, <1>2, <2>1 DEF AdderStands
  <2>2. CASE adder.pc # "idle"
    <3>1. 1 \in 0 .. i - 1
      BY <1>3, <1>4, <2>2
    <3>2. At(t, 1) = At(s, 1)
      BY <1>6, <3>1
    <3>3. adder.new \in Places \ {main.before}
      BY <1>3, <1>8, <2>2 DEF AdderStands, Population, InAdd, Places
    <3>4. next'[adder.new] = next[adder.new]
      BY <1>9, <3>3
    <3> QED
      BY <1>1, <1>2, <1>3, <2>2, <3>2, <3>4 DEF AdderStands, At
  <2> QED
    BY <2>1, <2>2
<1>16. MainStands(t)'
  <2>1. main.goal = POISON => main.saved \in OnRing(t)
    <3>1. main.goal = POISON => main.saved = next[main.ptr]
      BY <1>1, <1>3 DEF MainStands
    <3>2. next[main.ptr] = main.after
      BY <1>1, <1>3 DEF MainStands
    <3> QED
      BY <1>6, <1>8, <3>1, <3>2
  <2>2. OnRing(t)' = OnRing(t)
    BY DEF OnRing
  <2> QED
    BY <1>2, <1>3, <1>8, <2>1, <2>2 DEF MainStands
<1>17. RingInv(t)'
  BY <1>6, <1>12, <1>13, <1>14, <1>15, <1>16 DEF RingInv, Distinct
<1> QED
  BY <1>4, <1>5, <1>6, <1>17

LEMMA FreeStep ==
    ASSUME TypeOK, NEW s \in Seq(Nodes), RingInv(s), Free
    PROVE  RingInv(s)'
<1> USE DEF Free
<1>1. /\ main.pc = "free" /\ UNCHANGED <<fresh, adder>>
      /\ freed' = freed \cup {main.ptr}
      /\ next' = [next EXCEPT ![main.ptr] = POISON]
      /\ prev' = [prev EXCEPT ![main.ptr] = POISON]
  OBVIOUS
<1>2. /\ Distinct(s) /\ NextRing(s) /\ PrevRing(s) /\ MainStands(s) /\ AdderStands(s)
      /\ Population(s) /\ Len(s) \in Nat
  BY Positions DEF RingInv
<1>3. /\ main.ptr \in Nodes /\ main.goal # HEAD
      /\ main.goal = POISON => main.saved \in OnRing(s)
  BY <1>1, <1>2 DEF MainStands
<1>4. main.ptr \notin OnRing(s) /\ main.ptr \notin fresh \cup freed \cup InAdd
  BY <1>1, <1>2 DEF Population, InFree
<1>5. /\ \A p \in Places \ {main.ptr} : next'[p] = next[p] /\ prev'[p] = prev[p]
      /\ OnRing(s) \subseteq Places \ {main.ptr} /\ main.ptr \in Places
  BY <1>1, <1>2, <1>3, <1>4, Positions DEF TypeOK, Places
<1>6. \/ main'.pc = "idle" /\ main'.goal = POISON /\ main' \in MainThread
      \/ /\ main'.pc = "save" /\ main'.ptr = main.saved /\ main'.goal = main.goal
         /\ main.goal = POISON /\ main' \in MainThread
  BY <1>1 DEF TypeOK, MainThread, IdleMain, Links
<1>8. Distinct(s)'
  BY <1>2 DEF Distinct
<1>9. NextRing(s)'
  <2>1. \A k \in 0 .. Len(s) : At(s, k) \in OnRing(s)
    BY <1>2, Positions
  <2> QED
    BY <1>2, <1>5, <2>1 DEF NextRing, At
<1>10. PrevRing(s)'
  <2>1. \A k \in 0 .. Len(s) : At(s, k + 1) \in OnRing(s)
    <3>1. \A k \in 0 .. Len(s) : k + 1 \in 0 .. Len(s) + 1
      BY <1>2
    <3> QED
      BY <1>2, <3>1, Positions
  <2>2. \A k \in 0 .. Len(s) : PrevOf(s, k)' = PrevOf(s, k)
    BY <1>1, <1>6 DEF PrevOf, LinkedBehind, At
  <2> QED
    BY <1>2, <1>5, <2>1, <2>2 DEF PrevRing, At
<1>11. Population(s)'
  <2>1. InFree' = {} /\ InFree = {main.ptr} /\ InAdd' = InAdd /\ OnRing(s)' = OnRing(s)
    BY <1>1, <1>6 DEF InFree, InAdd, OnRing
  <2> QED
    BY <1>1, <1>2, <1>4, <2>1 DEF Population
<1>12. AdderStands(s)'
  <2>1. adder.pc # "idle" => adder.new \in Places \ {main.ptr}
    BY <1>2, <1>4 DEF AdderStands, InAdd, Places
  <2> QED
    BY <1>1, <1>2, <1>5, <1>6, <2>1 DEF AdderStands, At
<1>13. MainStands(s)'
  BY <1>3, <1>6, ListAssumption DEF MainStands, OnRing
<1> QED
  BY <1>8, <1>9, <1>10, <1>11, <1>12, <1>13 DEF RingInv

(***************************************************************************)
(* Forward, the list as it is seen from the head, is that sequence         *)
(***************************************************************************)
\* Induction over the naturals, for a set of numbers instead of a predicate: a
\* set of them that is not empty has a smallest member.
LEMMA Induct ==
    ASSUME NEW S \in SUBSET Nat, 0 \in S, \A n \in S : n + 1 \in S
    PROVE  S = Nat
<1> SUFFICES ASSUME Nat \ S # {} PROVE FALSE
  OBVIOUS
<1> DEFINE R == {p \in Nat \X Nat : p[1] < p[2]}
           U == Nat \ S
<1>1. \A x, y \in Nat : y < x => <<y, x>> \in R
  OBVIOUS
<1>2. OpToRel(<, Nat) = R
  BY DEF OpToRel
<1>3. IsWellFoundedOn(R, Nat)
  BY <1>2, NatLessThanWellFounded
<1>4. U \in SUBSET Nat /\ U # {}
  OBVIOUS
<1> HIDE DEF R, U
<1>5. PICK m \in U : \A k \in U : ~ (<<k, m>> \in R)
  BY <1>3, <1>4, WFMin
<1>6. m \in Nat /\ m \notin S
  BY <1>5 DEF U
<1>7. m - 1 \in Nat /\ m - 1 \notin S
  BY <1>6
<1>8. m - 1 \in U /\ <<m - 1, m>> \in R
  BY <1>1, <1>6, <1>7 DEF U
<1> QED
  BY <1>5, <1>8

\* No more nodes than there are fit on the circle.
LEMMA NotLonger ==
    ASSUME NEW s \in Seq(Nodes), Distinct(s)
    PROVE  /\ Len(s) \in Nat /\ Cardinality(Nodes) \in Nat
           /\ Len(s) <= Cardinality(Nodes)
<1>1. Len(s) \in Nat /\ s \in [1 .. Len(s) -> Nodes]
  OBVIOUS
<1>2. s \in Injection(1 .. Len(s), Nodes)
  BY <1>1 DEF Distinct, Injection, IsInjective
<1>3. Cardinality(1 .. Len(s)) <= Cardinality(Nodes)
  BY <1>2, FS_Injection, ListAssumption
<1>4. Cardinality(1 .. Len(s)) = Len(s)
  BY <1>1, FS_Interval
<1>5. Cardinality(Nodes) \in Nat
  BY FS_CardinalityType, ListAssumption
<1> QED
  BY <1>1, <1>3, <1>4, <1>5

\* The recursive definition of Step follows the circle and then stays at the head.
LEMMA StepFollows ==
    ASSUME NEW s \in Seq(Nodes), Distinct(s), NextRing(s)
    PROVE  \A k \in 0 .. Cardinality(Nodes) :
              Step[k] = IF k <= Len(s) THEN At(s, k + 1) ELSE HEAD
<1> DEFINE C == Cardinality(Nodes)
           follow(f, k) == IF k = 0 THEN next[HEAD]
                           ELSE IF f[k - 1] \in Nodes THEN next[f[k - 1]] ELSE f[k - 1]
           Rule(f) == f = [k \in 0 .. C |-> follow(f, k)]
           place(k) == IF k <= Len(s) THEN At(s, k + 1) ELSE HEAD
           g == [k \in 0 .. C |-> place(k)]
<1>1. C \in Nat /\ Len(s) \in Nat /\ Len(s) <= C
  BY NotLonger
<1>2. Step = CHOOSE f : Rule(f)
  BY DEF Step
<1> HIDE DEF C
<1>3. next[HEAD] = place(0)
  <2>1. 0 \in 0 .. Len(s) /\ 0 + 1 = 1 /\ At(s, 0) = HEAD
    BY <1>1, Positions
  <2> QED
    BY <1>1, <2>1 DEF NextRing
<1>4. ASSUME NEW k \in 1 .. C
      PROVE  place(k) = IF place(k - 1) \in Nodes THEN next[place(k - 1)] ELSE place(k - 1)
  <2>1. /\ k - 1 \in 0 .. C /\ (k - 1) + 1 = k
        /\ k <= Len(s) => k - 1 <= Len(s) /\ k \in 1 .. Len(s) /\ k \in 0 .. Len(s)
        /\ ~ (k <= Len(s)) /\ k - 1 <= Len(s) => k = Len(s) + 1
    BY <1>1
  <2>2. CASE k <= Len(s)
    BY <2>1, <2>2, Positions DEF NextRing
  <2>3. CASE ~ (k <= Len(s))
    BY <2>1, <2>3, Positions, ListAssumption
  <2> QED
    BY <2>2, <2>3
<1> HIDE DEF place
<1>5. Rule(g)
  <2>1. ASSUME NEW k \in 0 .. C PROVE place(k) = follow(g, k)
    <3>1. CASE k = 0
      BY <1>3, <3>1
    <3>2. CASE k # 0
      <4>1. k \in 1 .. C /\ k - 1 \in 0 .. C
        BY <1>1, <3>2
      <4>2. g[k - 1] = place(k - 1)
        BY <4>1
      <4> HIDE DEF g
      <4> QED
        BY <1>4, <3>2, <4>1, <4>2
    <3> QED
      BY <3>1, <3>2
  <2> QED
    BY <2>1
<1>6. Rule(Step)
  <2> HIDE DEF Rule
  <2> QED
    BY <1>2, <1>5
<1>7. \A k \in 0 .. C : Step[k] = follow(Step, k)
  <2> DEFINE r == [k \in 0 .. C |-> follow(Step, k)]
  <2>1. \A k \in 0 .. C : r[k] = follow(Step, k)
    OBVIOUS
  <2>2. Step = r
    BY <1>6
  <2> HIDE DEF r, follow
  <2> QED
    BY <2>1, <2>2
<1> DEFINE Same == {k \in Nat : k <= C => Step[k] = place(k)}
<1>8. 0 \in Same
  <2>1. Step[0] = next[HEAD]
    BY <1>1, <1>7
  <2> QED
    BY <1>3, <2>1
<1>9. ASSUME NEW k \in Same PROVE k + 1 \in Same
  <2> SUFFICES ASSUME k + 1 <= C PROVE Step[k + 1] = place(k + 1)
    OBVIOUS
  <2>1. /\ k \in Nat /\ k <= C /\ k + 1 \in 1 .. C /\ k + 1 \in 0 .. C /\ k + 1 # 0
        /\ (k + 1) - 1 = k
    BY <1>1
  <2>2. Step[k] = place(k)
    BY <1>9, <2>1
  <2>3. Step[k + 1] = IF Step[k] \in Nodes THEN next[Step[k]] ELSE Step[k]
    BY <1>7, <2>1
  <2>4. place(k + 1) = IF place(k) \in Nodes THEN next[place(k)] ELSE place(k)
    BY <1>4, <2>1
  <2> QED
    BY <2>2, <2>3, <2>4
<1>10. Same = Nat
  <2>1. Same \in SUBSET Nat
    OBVIOUS
  <2> HIDE DEF Same
  <2> QED
    BY <1>8, <1>9, <2>1, Induct
<1>11. \A k \in 0 .. C : k \in Nat /\ k <= C
  BY <1>1
<1> QED
  BY <1>10, <1>11 DEF place, C

LEMMA ForwardIs ==
    ASSUME NEW s \in Seq(Nodes), Distinct(s), NextRing(s)
    PROVE  Forward = s
<1> DEFINE C == Cardinality(Nodes)
           ends == {k \in 0 .. C : Step[k] \in Nodes => k = C}
<1>1. C \in Nat /\ Len(s) \in Nat /\ Len(s) <= C
  BY NotLonger
<1>2. \A k \in 0 .. C : Step[k] = IF k <= Len(s) THEN At(s, k + 1) ELSE HEAD
  BY StepFollows
<1>3. Forward = [k \in 1 .. Min(ends) |-> Step[k - 1]]
  BY DEF Forward
<1> HIDE DEF C
<1>4. Len(s) \in ends
  BY <1>1, <1>2, Positions, ListAssumption
<1>5. ASSUME NEW k \in ends PROVE Len(s) <= k
  <2> SUFFICES ASSUME k < Len(s) PROVE FALSE
    BY <1>1
  <2>1. k + 1 \in 1 .. Len(s) /\ k <= Len(s) /\ k # C
    BY <1>1
  <2> QED
    BY <1>2, <2>1, Positions
<1>6. Min(ends) = Len(s)
  <2>1. ends \subseteq Int
    OBVIOUS
  <2> HIDE DEF ends
  <2>2. \A k \in ends : (\A j \in ends : k <= j) => k = Len(s)
    BY <1>1, <1>4, <1>5, <2>1
  <2> QED
    BY <1>4, <1>5, <2>2 DEF Min
<1>7. \A k \in 1 .. Len(s) : Step[k - 1] = s[k]
  <2>1. ASSUME NEW k \in 1 .. Len(s) PROVE Step[k - 1] = s[k]
    <3>1. k - 1 \in 0 .. C /\ k - 1 <= Len(s) /\ (k - 1) + 1 = k
      BY <1>1
    <3> QED
      BY <1>2, <3>1, Positions
  <2> QED
    BY <2>1
<1>8. Forward = [k \in 1 .. Len(s) |-> s[k]]
  <2> HIDE DEF ends
  <2> QED
    BY <1>3, <1>6, <1>7
<1>9. s = [k \in 1 .. Len(s) |-> s[k]]
  OBVIOUS
<1> QED
  BY <1>8, <1>9

\* The same as a formula, which a step may be asked for before and after.
SeenForward == \A s \in Seq(Nodes) : Distinct(s) /\ NextRing(s) => Forward = s

LEMMA Seen == SeenForward
  BY ForwardIs DEF SeenForward

(***************************************************************************)
(* Every step leaves the sequence, puts a node in front or takes one out   *)
(***************************************************************************)
InFrontOf(s, t) == \E n \in Nodes : n \notin OnRing(s) /\ t = <<n>> \o s
OneTakenOut(s, t) == \E i \in 1 .. Len(s) : t = RemoveAt(s, i)

\* On an untorn circle both threads stand on nodes that are not freed.
LEMMA RingSafe ==
    ASSUME TypeOK, NEW s \in Seq(Nodes), RingInv(s)
    PROVE  Dereferenced \cap (freed \cup {POISON}) = {}
<1>1. /\ Distinct(s) /\ NextRing(s) /\ AdderStands(s) /\ MainStands(s) /\ Population(s)
      /\ Len(s) \in Nat
  BY Positions DEF RingInv
<1>2. At(s, 1) \in OnRing(s)
  <2>1. 1 \in 0 .. Len(s) + 1
    BY <1>1
  <2> QED
    BY <1>1, <2>1, Positions
<1>3. main.pc = "next->prev" => main.after \in OnRing(s)
  BY <1>1, Neighbours DEF MainStands
<1>4. Dereferenced \subseteq OnRing(s) \cup InFree
  <2>1. adder.pc = "next->prev" => adder.at \in OnRing(s)
    BY <1>1, <1>2 DEF AdderStands
  <2> QED
    BY <1>1, <1>3, <2>1 DEF Dereferenced, MainStands, InFree
<1>5. OnRing(s) \cap (freed \cup {POISON}) = {}
  BY <1>1, Positions, ListAssumption DEF Population, Places
<1>6. InFree \cap (freed \cup {POISON}) = {}
  BY <1>1, ListAssumption DEF Population, InFree, MainStands
<1> QED
  BY <1>4, <1>5, <1>6

LEMMA RingStep ==
    ASSUME ~ raced', TypeOK, NEW s \in Seq(Nodes), RingInv(s), [Next]_vars
    PROVE  \E t \in Seq(Nodes) :
              RingInv(t)' /\ (t = s \/ InFrontOf(s, t) \/ OneTakenOut(s, t))
<1>1. CASE \E n \in Nodes : AddBegins(n, TRUE) \/ AddBegins(n, FALSE)
  BY <1>1, AddBeginsStep
<1>2. CASE LinkBehind
  BY <1>2, LinkBehindStep
<1>3. CASE PointToNext
  BY <1>3, PointToNextStep
<1>4. CASE PointToHead
  BY <1>4, PointToHeadStep
<1>5. CASE LinkInFront
  <2>1. PICK n, t : n = adder.new /\ t = <<n>> \o s
    OBVIOUS
  <2>2. n \in Nodes /\ n \notin OnRing(s) /\ t \in Seq(Nodes) /\ RingInv(t)'
    BY <1>5, <2>1, LinkInFrontStep
  <2> QED
    BY <2>1, <2>2 DEF InFrontOf
<1>6. CASE \E n \in Nodes : FindBegins(n)
  BY <1>6, FindBeginsStep
<1>7. CASE Find
  BY <1>7, FindStep
<1>8. CASE EachBegins
  BY <1>8, EachBeginsStep
<1>9. CASE SaveNext
  BY <1>9, SaveNextStep
<1>10. CASE Visit
  BY <1>10, VisitStep
<1>11. CASE Unlink
  BY <1>11, UnlinkStep
<1>12. CASE UnlinkNext
  BY <1>12, UnlinkNextStep
<1>13. CASE UnlinkPrev
  <2>1. PICK i \in 1 .. Len(s) :
           RemoveAt(s, i) \in Seq(Nodes) /\ RingInv(RemoveAt(s, i))'
    BY <1>13, UnlinkPrevStep
  <2> QED
    BY <2>1 DEF OneTakenOut
<1>14. CASE Free
  BY <1>14, FreeStep
<1>15. CASE UNCHANGED vars
  <2>1. UNCHANGED <<next, prev, fresh, freed, adder, main>>
    BY <1>15 DEF vars
  <2>2. RingInv(s)'
    BY <2>1 DEF RingInv, Distinct, NextRing, PrevRing, PrevOf, LinkedBehind, Population,
                InAdd, InFree, OnRing, At, AdderStands, MainStands
  <2> QED
    BY <2>2
<1>16. CASE Fault
  BY <1>16, RingSafe DEF Fault
<1> QED
  BY <1>1, <1>2, <1>3, <1>4, <1>5, <1>6, <1>7, <1>8, <1>9, <1>10, <1>11, <1>12,
     <1>13, <1>14, <1>15, <1>16 DEF Next

\* A start, and also the one after a fault, finds the list empty.
StartsWell == Init => TypeInv /\ ~ raced /\ RingInv(<<>>)

LEMMA Starts == StartsWell
  BY InitTypes, InitRing DEF StartsWell, Init

LEMMA FaultStarts == Fault => Init'
  BY DEF Fault, Init, HeadAlone, NoAdder, IdleMain, Places

LEMMA TypeStep == StartsWell' /\ TypeInv /\ [Next]_vars => TypeInv'
<1> SUFFICES ASSUME StartsWell', TypeInv, [Next]_vars PROVE TypeInv'
  OBVIOUS
<1>1. CASE \/ \E n \in Nodes : AddBegins(n, TRUE) \/ AddBegins(n, FALSE)
           \/ LinkBehind \/ PointToNext \/ PointToHead \/ LinkInFront
  BY <1>1, AdderTypes
<1>2. CASE \/ \E n \in Nodes : FindBegins(n)
           \/ Find \/ EachBegins \/ SaveNext \/ Visit
           \/ Unlink \/ UnlinkNext \/ UnlinkPrev \/ Free
  BY <1>2, MainTypes
<1>3. CASE Fault
  BY <1>3, FaultStarts DEF StartsWell
<1>4. CASE UNCHANGED vars
  BY <1>4 DEF vars, TypeInv, TypeOK, AtWork, Unknown
<1> QED
  BY <1>1, <1>2, <1>3, <1>4 DEF Next

\* Once torn, the list becomes sound again by a restart alone.
LEMMA OnlyFaultMends == [Next]_vars /\ raced /\ ~ raced' => Fault
  BY DEF Next, vars, AddBegins, LinkBehind, PointToNext, PointToHead, LinkInFront,
         FindBegins, Find, EachBegins, SaveNext, Visit, Unlink, UnlinkNext, UnlinkPrev,
         Free

LEMMA ListInit == Init => ListInv
<1>1. <<>> \in Seq(Nodes)
  OBVIOUS
<1> QED
  BY <1>1, Starts DEF StartsWell, ListInv

LEMMA ListStep == StartsWell' /\ ListInv /\ [Next]_vars => ListInv'
<1> SUFFICES ASSUME StartsWell', ListInv, [Next]_vars
             PROVE  ListInv'
  OBVIOUS
<1>1. TypeInv'
  BY TypeStep DEF ListInv
<1>2. ASSUME ~ raced', ~ raced
      PROVE  \E t \in Seq(Nodes) : RingInv(t)'
  <2>1. PICK s \in Seq(Nodes) : RingInv(s)
    BY <1>2 DEF ListInv
  <2> QED
    BY <1>2, <2>1, RingStep DEF ListInv, TypeInv
<1>3. ASSUME ~ raced', raced
      PROVE  \E t \in Seq(Nodes) : RingInv(t)'
  <2>1. RingInv(<<>>)' /\ <<>> \in Seq(Nodes)
    BY <1>3, OnlyFaultMends, FaultStarts DEF StartsWell
  <2> QED
    BY <2>1
<1> QED
  BY <1>1, <1>2, <1>3 DEF ListInv

LEMMA ListAlways == Spec => []ListInv
  BY Starts, ListInit, ListStep, PTL DEF Spec

(***************************************************************************)
(* What follows                                                            *)
(***************************************************************************)
\* Whatever the two threads do to the links, also when they have torn the list,
\* links lead to nodes, to the head or to the poison, and no node is both fresh
\* and freed: the main thread only ever unlinks and frees what was allocated
\* (uart_resend.c:63, uart_resend.c:95).
THEOREM TypeCorrect == Spec => []TypeOK
<1>1. ListInv => TypeOK
  BY DEF ListInv, TypeInv
<1> QED
  BY <1>1, ListAlways, PTL

\* A thread inside list_add (list.h:53), resend_list_each or
\* resend_list_del_by_id (uart_resend.c:43, uart_resend.c:78) goes through a
\* freed node or a poisoned link, or frees a node twice, only after the first
\* node was unlinked during a list_add in the same run of the process.
THEOREM NothingDangles == Spec => []NoDangling
<1>1. ListInv => NoDangling
  BY RingSafe DEF ListInv, TypeInv, NoDangling
<1> QED
  BY <1>1, ListAlways, PTL

\* When no thread is inside list_add or list_del the list is a circle in both
\* directions of exactly the nodes that were added and not freed, unless the
\* first node was unlinked during a list_add (list.h:53, list.h:106) since the
\* process started.
THEOREM ListCorrect == Spec => []WellLinked
<1>1. ListInv => WellLinked
  <2> SUFFICES ASSUME NEW s \in Seq(Nodes), RingInv(s),
                      adder.pc = "idle", ~ Unlinking
               PROVE  /\ ToSet(Forward) = Nodes \ (fresh \cup freed)
                      /\ \A p \in ToSet(Forward) \cup {HEAD} :
                            prev[next[p]] = p /\ next[prev[p]] = p
    BY DEF ListInv, WellLinked
  <2>1. /\ Distinct(s) /\ NextRing(s) /\ PrevRing(s) /\ Population(s)
        /\ Len(s) \in Nat
    BY Positions DEF RingInv
  <2>2. Forward = s
    BY <2>1, ForwardIs
  <2>3. ToSet(Forward) \cup {HEAD} = OnRing(s) /\ ToSet(Forward) = OnRing(s) \ {HEAD}
    <3>1. DOMAIN s = 1 .. Len(s) /\ HEAD \notin ToSet(s)
      BY ElementOfSeq, ListAssumption DEF ToSet
    <3> QED
      BY <2>2, <3>1 DEF ToSet, OnRing
  <2>4. ToSet(Forward) = Nodes \ (fresh \cup freed)
    <3>1. InAdd = {} /\ InFree = {}
      BY DEF InAdd, InFree, Unlinking
    <3>2. OnRing(s) \subseteq Places
      BY <2>1, Positions
    <3> QED
      BY <2>1, <2>3, <3>1, <3>2, ListAssumption DEF Population, Places
  <2>5. \A k \in 0 .. Len(s) : /\ next[At(s, k)] = At(s, k + 1)
                               /\ prev[At(s, k + 1)] = At(s, k)
    BY <2>1 DEF NextRing, PrevRing, PrevOf, LinkedBehind, Unlinking
  <2>6. ASSUME NEW p \in OnRing(s)
        PROVE  prev[next[p]] = p /\ next[prev[p]] = p
    <3>1. PICK k \in 0 .. Len(s) : At(s, k) = p
      BY <2>1, Positions
    <3>2. \E j \in 0 .. Len(s) : At(s, j + 1) = p
      <4>1. CASE k = 0
        BY <2>1, <3>1, <4>1, Positions
      <4>2. CASE k # 0
        <5>1. k - 1 \in 0 .. Len(s) /\ (k - 1) + 1 = k
          BY <2>1, <4>2
        <5> QED
          BY <3>1, <5>1
      <4> QED
        BY <4>1, <4>2
    <3> QED
      BY <2>5, <3>1, <3>2
  <2> QED
    BY <2>3, <2>4, <2>6
<1> QED
  BY <1>1, ListAlways, PTL

\* Pointer by pointer and with the steps of the two threads mixed, the list
\* that is seen from the head only changes as StackList says: an added entry
\* comes in front and a deleted one goes, the others staying in their order;
\* until the first node is unlinked during a list_add, and from the next start.
THEOREM ListIsStack == Spec => ImplementsStack
<1>1. SeenForward /\ StartsWell /\ Init => Stack!Init
  <2> SUFFICES ASSUME SeenForward, StartsWell, Init PROVE Forward = <<>> /\ ~ raced
    BY DEF Stack!Init, Init
  <2>1. RingInv(<<>>) /\ ~ raced /\ <<>> \in Seq(Nodes)
    BY DEF StartsWell
  <2> QED
    BY <2>1 DEF SeenForward, RingInv
<1>2. SeenForward /\ SeenForward' /\ StartsWell' /\ ListInv /\ [Next]_vars
        => [Stack!Next]_<<Forward, ~ raced>>
  <2> SUFFICES ASSUME SeenForward, SeenForward', StartsWell', ListInv, [Next]_vars
               PROVE  Stack!Next \/ UNCHANGED <<Forward, ~ raced>>
    OBVIOUS
  <2>1. CASE raced'
    BY <2>1 DEF Stack!Next, Stack!Race
  <2>2. CASE ~ raced' /\ raced
    <3>1. RingInv(<<>>)' /\ <<>> \in Seq(Nodes)
      BY <2>2, OnlyFaultMends, FaultStarts DEF StartsWell
    <3>2. Distinct(<<>>)' /\ NextRing(<<>>)'
      BY <3>1 DEF RingInv
    <3>3. Forward' = <<>>
      BY <3>1, <3>2 DEF SeenForward
    <3> QED
      BY <2>2, <3>3 DEF Stack!Next, Stack!Renew
  <2>3. CASE ~ raced' /\ ~ raced
    <3>1. PICK s \in Seq(Nodes) : RingInv(s)
      BY <2>3 DEF ListInv
    <3>2. PICK t \in Seq(Nodes) :
             RingInv(t)' /\ (t = s \/ InFrontOf(s, t) \/ OneTakenOut(s, t))
      BY <2>3, <3>1, RingStep DEF ListInv, TypeInv
    <3>3. Forward = s
      BY <3>1 DEF SeenForward, RingInv
    <3>4. Forward' = t
      <4>1. Distinct(t)' /\ NextRing(t)'
        BY <3>2 DEF RingInv
      <4> QED
        BY <4>1 DEF SeenForward
    <3>5. CASE t = s
      BY <2>3, <3>3, <3>4, <3>5
    <3>6. CASE InFrontOf(s, t)
      <4>1. PICK n \in Nodes : n \notin OnRing(s) /\ t = <<n>> \o s
        BY <3>6 DEF InFrontOf
      <4>2. ~ Stack!Contains(s, n)
        BY <4>1 DEF Stack!Contains, OnRing
      <4>3. Stack!Push(n)
        BY <3>3, <3>4, <4>1, <4>2 DEF Stack!Push
      <4> QED
        BY <2>3, <4>3 DEF Stack!Next, Stack!Change
    <3>7. CASE OneTakenOut(s, t)
      <4>1. PICK i \in 1 .. Len(s) : t = RemoveAt(s, i)
        BY <3>7 DEF OneTakenOut
      <4>2. i \in DOMAIN s /\ s[i] \in Nodes
        BY ElementOfSeq
      <4>3. t = Stack!RemoveAt(s, i)
        BY <4>1 DEF RemoveAt, Stack!RemoveAt
      <4>4. Stack!Delete(s[i])
        BY <3>3, <3>4, <4>2, <4>3 DEF Stack!Delete
      <4> QED
        BY <2>3, <4>2, <4>4 DEF Stack!Next, Stack!Change
    <3> QED
      BY <3>2, <3>5, <3>6, <3>7
  <2> QED
    BY <2>1, <2>2, <2>3
<1> QED
  BY <1>1, <1>2, ListAlways, Starts, Seen, PTL DEF Spec, ImplementsStack, Stack!Spec
=============================================================================
