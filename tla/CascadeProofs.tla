------------------------------ MODULE CascadeProofs -------------------------------
(***************************************************************************)
(* Proofs about Cascade, for any processes, orders, items and bodies: the  *)
(* type invariant, that a refused request has written nothing, that no     *)
(* request edits an item out of the scope of its order, and that a request *)
(* leaves what its body says if nobody else has written.                   *)
(***************************************************************************)
EXTENDS Cascade, FiniteSetTheorems, TLAPS

(* What holds of each process: its type, ... *)
Typed(p) ==
    /\ p \in Process
    /\ p.relating \cup p.editing \subseteq DOMAIN p.collection
    /\ \A k, l \in DOMAIN p.collection :
         p.collection[k].uid = p.collection[l].uid /\ p.collection[k].uid # New => k = l

(* ... that what it collects and edits is in its scope, ... *)
Collects(p) ==
    \A k \in DOMAIN p.collection :
        LET i == p.collection[k].uid
        IN  \/ i = New /\ p.collection[k].quantity \in Quantities
            \/ Related(p.body, i)
            \/ i \in p.related /\ p.method = "PATCH"

Edits(p) ==
    \A i \in Items : p.memory[i] # p.loaded[i] =>
        i \in p.related /\ p.method = "PATCH" /\ p.memory[i] \in Quantities

Plans(p) ==
    /\ p.removed \subseteq p.related
    /\ \A k \in p.editing :
         /\ p.collection[k].uid \in p.related /\ p.method = "PATCH"
         /\ p.memory[p.collection[k].uid] \in Quantities

(* ... that what it knows are items that are stored (S), for no item is ever
   deleted, ... *)
Knows(p, S) ==
    /\ p.related \subseteq S
    /\ \A k \in DOMAIN p.collection : p.collection[k].uid # New => p.collection[k].uid \in S
    /\ p.fresh # New => p.fresh \in S
    /\ \A i \in Items : p.loaded[i] # NotLoaded => i \in S

(* ... and that it writes nothing before persistAll. *)
Clean(p) ==
    /\ p.pc \in {"idle", "read"} => ~p.wrote
    /\ p.answer = "refused" => ~p.wrote
    /\ p.pc # "answered" => p.answer = "none"

Good(p, S) == Typed(p) /\ Collects(p) /\ Edits(p) /\ Plans(p) /\ Knows(p, S) /\ Clean(p)

Stored == {i \in Items : items[i].stored}

TablesOK ==
    /\ annotated \in BOOLEAN
    /\ received \in 0 .. MaxRequests
    /\ InitialOrders \subseteq orders /\ orders \subseteq Orders
    /\ items \in [Items -> {Unused} \cup Item]

Inv ==
    /\ TablesOK
    /\ process = [w \in Workers |-> process[w]]
    /\ \A w \in Workers : Good(process[w], Stored)

LEMMA InvTyped == Inv => TypeOK
  BY DEF Inv, TablesOK, Good, Typed, TypeOK

-----------------------------------------------------------------------------
(* Records of processes *)

LEMMA IdleGood == ASSUME NEW S PROVE Good(Idle, S)
<1>1. NoBody \in Bodies \cup {NoBody}
  OBVIOUS
<1>2. Idle \in Process
  BY <1>1 DEF Idle, Process
<1>3. /\ Idle.collection = <<>> /\ Idle.relating = {} /\ Idle.editing = {} /\ Idle.removed = {}
      /\ Idle.related = {} /\ Idle.fresh = New
      /\ Idle.loaded = [i \in Items |-> NotLoaded] /\ Idle.memory = Idle.loaded
      /\ ~Idle.wrote /\ Idle.answer = "none"
  BY DEF Idle
<1>4. Typed(Idle)
  BY <1>2, <1>3 DEF Typed
<1>5. Collects(Idle) /\ Plans(Idle) /\ Edits(Idle) /\ Knows(Idle, S) /\ Clean(Idle)
  BY <1>3 DEF Collects, Plans, Edits, Knows, Clean
<1> QED
  BY <1>4, <1>5 DEF Good

(* What only the history and the end of a request change. *)
LEMMA DisturbedGood ==
    ASSUME NEW S, NEW p, Good(p, S)
    PROVE  Good([p EXCEPT !.disturbed = TRUE], S)
  BY DEF Good, Typed, Process, Collects, Edits, Plans, Knows, Clean

LEMMA WroteGood ==
    ASSUME NEW S, NEW p, Good(p, S), p.pc = "persist"
    PROVE  Good([p EXCEPT !.wrote = TRUE], S)
  BY DEF Good, Typed, Process, Collects, Edits, Plans, Knows, Clean

LEMMA AnsweredGood ==
    ASSUME NEW S, NEW p, Good(p, S), NEW answer \in {"refused", "failed", "done"},
           answer = "refused" => ~p.wrote
    PROVE  Good([p EXCEPT !.pc = "answered", !.answer = answer], S)
<1> DEFINE q == [p EXCEPT !.pc = "answered", !.answer = answer]
<1>1. p \in Process
  BY DEF Good, Typed
<1>2. q \in Process
  BY <1>1 DEF Process
<1>3. /\ q.related = p.related /\ q.method = p.method /\ q.body = p.body
      /\ q.loaded = p.loaded /\ q.memory = p.memory /\ q.removed = p.removed
      /\ q.collection = p.collection /\ q.fresh = p.fresh
      /\ q.relating = p.relating /\ q.editing = p.editing
      /\ q.wrote = p.wrote /\ q.answer = answer /\ q.pc = "answered"
  BY <1>1 DEF Process
<1> HIDE DEF q
<1>4. Typed(q) /\ Collects(q) /\ Edits(q) /\ Plans(q)
  BY <1>2, <1>3 DEF Good, Typed, Collects, Edits, Plans
<1>5. Knows(q, S) /\ Clean(q)
  BY <1>3 DEF Good, Knows, Clean
<1>6. Good(q, S)
  BY <1>4, <1>5 DEF Good
<1> QED
  BY <1>6 DEF q

(* An item that is stored stays so. *)
LEMMA KnowsMore ==
    ASSUME NEW S, NEW T, S \subseteq T, NEW p, Good(p, S)
    PROVE  Good(p, T)
  BY DEF Good, Knows

LEMMA BecomeInv ==
    ASSUME Inv, NEW w \in Workers, NEW p, Good(p, Stored'), Become(w, p), TablesOK',
           Stored \subseteq Stored'
    PROVE  Inv'
<1>1. \A v \in Workers : Good(process[v], Stored')
  BY KnowsMore DEF Inv
<1>2. process' = [process EXCEPT ![w] = p]
  BY DEF Become
<1>3. \A v \in Workers : process'[v] = IF v = w THEN p ELSE process[v]
  BY <1>2 DEF Inv
<1>4. process' = [v \in Workers |-> process'[v]]
  BY <1>2 DEF Inv
<1>5. \A v \in Workers : Good(process'[v], Stored')
  BY <1>1, <1>3
<1> QED
  BY <1>4, <1>5 DEF Inv

LEMMA BecomeSame ==
    ASSUME Inv, NEW w \in Workers, NEW p, Good(p, Stored), Become(w, p), TablesOK',
           UNCHANGED items
    PROVE  Inv'
<1>1. Stored' = Stored
  BY DEF Stored
<1>2. Good(p, Stored')
  BY <1>1
<1> QED
  BY <1>1, <1>2, BecomeInv

LEMMA WroteInv ==
    ASSUME Inv, NEW w \in Workers, NEW p, Good(p, Stored'), p.pc = "persist", Wrote(w, p),
           TablesOK', Stored \subseteq Stored'
    PROVE  Inv'
<1>1. Good([p EXCEPT !.wrote = TRUE], Stored')
  BY WroteGood
<1>2. \A v \in Workers : Good(process[v], Stored')
  BY KnowsMore DEF Inv
<1>3. \A v \in Workers : Good([process[v] EXCEPT !.disturbed = TRUE], Stored')
  BY <1>2, DisturbedGood
<1>4. \A v \in Workers : \/ process'[v] = [p EXCEPT !.wrote = TRUE]
                         \/ process'[v] = process[v]
                         \/ process'[v] = [process[v] EXCEPT !.disturbed = TRUE]
  BY DEF Wrote
<1>5. \A v \in Workers : Good(process'[v], Stored')
  BY <1>1, <1>2, <1>3, <1>4
<1>6. process' = [v \in Workers |-> process'[v]]
  BY DEF Wrote
<1> QED
  BY <1>5, <1>6 DEF Inv

-----------------------------------------------------------------------------
(* Reading the entries *)

LEMMA ReadGood ==
    ASSUME NEW S, NEW p, Good(p, S)
    PROVE  Good([p EXCEPT !.read = @ + 1], S)
<1> DEFINE q == [p EXCEPT !.read = @ + 1]
<1>1. p \in Process
  BY DEF Good, Typed
<1>2. /\ q.related = p.related /\ q.method = p.method /\ q.body = p.body /\ q.pc = p.pc
      /\ q.loaded = p.loaded /\ q.memory = p.memory /\ q.removed = p.removed
      /\ q.collection = p.collection /\ q.fresh = p.fresh
      /\ q.relating = p.relating /\ q.editing = p.editing
      /\ q.wrote = p.wrote /\ q.answer = p.answer
  BY <1>1 DEF Process
<1>3. p.read + 1 \in Nat
  BY <1>1 DEF Process
<1>4. q \in Process
  BY <1>1, <1>3 DEF Process
<1> QED
  BY <1>2, <1>4 DEF Good, Typed, Collects, Edits, Plans, Knows, Clean

LEMMA FetchedGood ==
    ASSUME TablesOK, NEW S, NEW p, Good(p, S), Stored \subseteq S, NEW i \in Items, Found(p, i)
    PROVE  /\ Good(Fetched(p, i), S)
           /\ Fetched(p, i).related = p.related
           /\ Fetched(p, i).method = p.method
           /\ Fetched(p, i).body = p.body
           /\ i \in S
<1> DEFINE q == [p EXCEPT !.loaded[i] = items[i].quantity, !.memory[i] = items[i].quantity]
<1>1. CASE p.loaded[i] # NotLoaded
  BY <1>1 DEF Fetched, Good, Knows
<1>2. CASE p.loaded[i] = NotLoaded
  <2>1. items[i].quantity \in Quantities
    <3>1. items[i] \in {Unused} \cup Item /\ items[i].stored
      BY <1>2 DEF Found, TablesOK
    <3>2. items[i] # Unused
      BY <3>1 DEF Unused
    <3> QED
      BY <3>1, <3>2 DEF Item
  <2>2. p \in Process
    BY DEF Good, Typed
  <2>3. /\ q.related = p.related /\ q.method = p.method /\ q.body = p.body /\ q.pc = p.pc
        /\ q.collection = p.collection /\ q.relating = p.relating /\ q.editing = p.editing
        /\ q.removed = p.removed /\ q.wrote = p.wrote /\ q.answer = p.answer
    BY <2>2 DEF Process
  <2>4. q \in Process
    BY <2>1, <2>2 DEF Process
  <2>5. /\ q.fresh = p.fresh
        /\ \A l \in Items :
             /\ q.loaded[l] = IF l = i THEN items[i].quantity ELSE p.loaded[l]
             /\ q.memory[l] = IF l = i THEN items[i].quantity ELSE p.memory[l]
    BY <2>2 DEF Process
  <2>6. i \in S
    BY <1>2 DEF Found, Stored
  <2> HIDE DEF q
  <2>7. Edits(q) /\ Typed(q) /\ Collects(q) /\ Clean(q)
    BY <2>3, <2>4, <2>5 DEF Good, Edits, Typed, Collects, Clean
  <2>8. Knows(q, S)
    BY <2>3, <2>5, <2>6 DEF Good, Knows
  <2>9. Plans(q)
    <3>1. p.related \subseteq Items
      BY <2>2 DEF Process
    <3> QED
      BY <2>1, <2>3, <2>5, <3>1 DEF Good, Plans
  <2> QED
    BY <1>2, <2>3, <2>6, <2>7, <2>8, <2>9 DEF Fetched, Good, q
<1> QED
  BY <1>1, <1>2

(* An object joins the collection at its end. *)
LEMMA AppendGood ==
    ASSUME NEW S, NEW p, Good(p, S),
           NEW c \in [uid : Items \cup {New}, quantity : Quantities \cup {NotLoaded}],
           c.uid # New => /\ c.uid \in S
                          /\ \A k \in DOMAIN p.collection : p.collection[k].uid # c.uid,
           \/ c.uid = New /\ c.quantity \in Quantities
           \/ Related(p.body, c.uid)
           \/ c.uid \in p.related /\ p.method = "PATCH"
    PROVE  Good([p EXCEPT !.collection = Append(@, c)], S)
<1> DEFINE q == [p EXCEPT !.collection = Append(@, c)]
<1>1. p \in Process
  BY DEF Good, Typed
<1>2. /\ q.related = p.related /\ q.method = p.method /\ q.body = p.body /\ q.pc = p.pc
      /\ q.loaded = p.loaded /\ q.memory = p.memory /\ q.removed = p.removed
      /\ q.relating = p.relating /\ q.editing = p.editing /\ q.fresh = p.fresh
      /\ q.wrote = p.wrote /\ q.answer = p.answer
  BY <1>1 DEF Process
<1>3. /\ q.collection = Append(p.collection, c)
      /\ p.collection \in Seq([uid : Items \cup {New}, quantity : Quantities \cup {NotLoaded}])
  BY <1>1 DEF Process
<1>4. q \in Process
  <2>1. Append(p.collection, c)
          \in Seq([uid : Items \cup {New}, quantity : Quantities \cup {NotLoaded}])
    BY <1>3
  <2>2. \A d \in Seq([uid : Items \cup {New}, quantity : Quantities \cup {NotLoaded}]) :
          [p EXCEPT !.collection = d] \in Process
    BY <1>1 DEF Process
  <2> QED
    BY <2>1, <2>2
<1>5. /\ DOMAIN q.collection = DOMAIN p.collection \cup {Len(p.collection) + 1}
      /\ Len(p.collection) + 1 \notin DOMAIN p.collection
      /\ \A k \in DOMAIN p.collection : q.collection[k] = p.collection[k]
      /\ q.collection[Len(p.collection) + 1] = c
  <2> HIDE DEF q
  <2> QED
    BY <1>3
<1>6. Typed(q)
  BY <1>2, <1>4, <1>5 DEF Good, Typed
<1>7. Collects(q)
  BY <1>2, <1>5 DEF Good, Collects
<1>8. Edits(q) /\ Clean(q)
  BY <1>2 DEF Good, Edits, Clean
<1>9. Plans(q) /\ Knows(q, S)
  BY <1>2, <1>5 DEF Good, Typed, Plans, Knows
<1> QED
  BY <1>6, <1>7, <1>8, <1>9 DEF Good

LEMMA AttachGood ==
    ASSUME NEW S, NEW p, Good(p, S), NEW i \in Items, i \in S,
           Related(p.body, i) \/ (i \in p.related /\ p.method = "PATCH")
    PROVE  /\ Good(attach(p, i), S)
           /\ attach(p, i).related = p.related
           /\ attach(p, i).method = p.method
<1>1. CASE \E k \in DOMAIN p.collection : p.collection[k].uid = i
  BY <1>1 DEF attach
<1>2. CASE ~\E k \in DOMAIN p.collection : p.collection[k].uid = i
  <2> DEFINE c == [uid |-> i, quantity |-> NotLoaded]
  <2>1. attach(p, i) = [p EXCEPT !.collection = Append(@, c)]
    BY <1>2 DEF attach
  <2>2. c \in [uid : Items \cup {New}, quantity : Quantities \cup {NotLoaded}] /\ c.uid = i
    OBVIOUS
  <2>3. Good([p EXCEPT !.collection = Append(@, c)], S)
    BY <1>2, <2>2, AppendGood
  <2>4. p \in Process
    BY DEF Good, Typed
  <2>5. /\ attach(p, i).related = p.related
        /\ attach(p, i).method = p.method
    BY <2>1, <2>4 DEF Process
  <2> QED
    BY <2>1, <2>3, <2>5
<1> QED
  BY <1>1, <1>2

(* An object in scope is edited. *)
LEMMA EditedGood ==
    ASSUME NEW S, NEW p, Good(p, S), NEW i \in Items, NEW quantity \in Quantities,
           i \in p.related, p.method = "PATCH"
    PROVE  Good([p EXCEPT !.memory[i] = quantity], S)
<1> DEFINE q == [p EXCEPT !.memory[i] = quantity]
<1>1. p \in Process
  BY DEF Good, Typed
<1>2. q \in Process
  BY <1>1 DEF Process
<1>3. /\ q.related = p.related /\ q.method = p.method /\ q.body = p.body /\ q.pc = p.pc
      /\ q.loaded = p.loaded /\ q.removed = p.removed
      /\ q.collection = p.collection /\ q.fresh = p.fresh
      /\ q.relating = p.relating /\ q.editing = p.editing
      /\ q.wrote = p.wrote /\ q.answer = p.answer
      /\ \A l \in Items : q.memory[l] = IF l = i THEN quantity ELSE p.memory[l]
      /\ p.related \subseteq Items
  BY <1>1 DEF Process
<1> HIDE DEF q
<1>4. Typed(q) /\ Collects(q) /\ Knows(q, S) /\ Clean(q)
  BY <1>2, <1>3 DEF Good, Typed, Collects, Knows, Clean
<1>5. Edits(q) /\ Plans(q)
  BY <1>3 DEF Good, Edits, Plans
<1>6. Good(q, S)
  BY <1>4, <1>5 DEF Good
<1> QED
  BY <1>6 DEF q

LEMMA RelateInv ==
    ASSUME Inv, NEW w \in Workers, NEW p, NEW entry, Good(p, Stored), TablesOK',
           entry.uid \in Items, Related(p.body, entry.uid), Relate(w, p, entry)
    PROVE  Inv'
<1>1. Good(Fetched(p, entry.uid), Stored) /\ Fetched(p, entry.uid).body = p.body
      /\ entry.uid \in Stored
  BY FetchedGood DEF Relate, Inv
<1>2. Good(attach(Fetched(p, entry.uid), entry.uid), Stored)
  BY <1>1, AttachGood
<1> QED
  BY <1>2, BecomeSame DEF Relate

LEMMA CascadeInsertInv ==
    ASSUME Inv, NEW w \in Workers, NEW p, NEW entry, Good(p, Stored), TablesOK',
           entry.quantity \in Quantities, processCascadeInsert(w, p, entry)
    PROVE  Inv'
<1> DEFINE c == [uid |-> New, quantity |-> entry.quantity]
<1>1. c \in [uid : Items \cup {New}, quantity : Quantities \cup {NotLoaded}] /\ c.uid = New
  OBVIOUS
<1>2. Good([p EXCEPT !.collection = Append(@, c)], Stored)
  BY <1>1, AppendGood
<1> QED
  BY <1>2, BecomeSame DEF processCascadeInsert

LEMMA CascadeUpdateInv ==
    ASSUME Inv, NEW w \in Workers, NEW p, NEW entry, Good(p, Stored), TablesOK',
           entry.uid \in Items, entry.quantity \in Quantities,
           processCascadeUpdate(w, p, entry)
    PROVE  Inv'
<1> DEFINE f == Fetched(p, entry.uid)
           a == attach(f, entry.uid)
<1>1. entry.uid \in p.related /\ p.method = "PATCH"
  BY DEF processCascadeUpdate, Scope
<1>2. Good(f, Stored) /\ f.related = p.related /\ f.method = p.method
      /\ entry.uid \in Stored
  BY FetchedGood DEF processCascadeUpdate, Inv
<1>3. Good(a, Stored) /\ a.related = p.related /\ a.method = p.method
  <2> HIDE DEF f
  <2> QED
    BY <1>1, <1>2, AttachGood
<1>4. Good([a EXCEPT !.memory[entry.uid] = entry.quantity], Stored)
  <2> HIDE DEF a
  <2> QED
    BY <1>1, <1>3, EditedGood
<1> QED
  BY <1>4, BecomeSame DEF processCascadeUpdate

LEMMA RefuseInv ==
    ASSUME Inv, NEW w \in Workers, process[w].pc = "read", Refuse(w), TablesOK'
    PROVE  Inv'
<1>1. Good(process[w], Stored) /\ ~process[w].wrote
  BY DEF Inv, Good, Clean
<1>2. Good([process[w] EXCEPT !.pc = "answered", !.answer = "refused"], Stored)
  BY <1>1, AnsweredGood
<1> QED
  BY <1>2, BecomeSame DEF Refuse

LEMMA ReadEntryInv ==
    ASSUME Inv, NEW w \in Workers, ReadEntry(w)
    PROVE  Inv'
<1> DEFINE p == [process[w] EXCEPT !.read = @ + 1]
           entry == p.body.entries[p.read]
<1>1. Good(process[w], Stored) /\ Good(p, Stored) /\ TablesOK
  BY ReadGood DEF Inv
<1>2. process[w] \in Process
  BY <1>1 DEF Good, Typed
<1>3. /\ process[w].pc = "read" /\ p.read <= Len(p.body.entries)
      /\ \/ entry.kind = "relate" /\ Relate(w, p, entry)
         \/ entry.kind = "insert" /\ processCascadeInsert(w, p, entry)
         \/ entry.kind = "update" /\ processCascadeUpdate(w, p, entry)
         \/ Refuse(w)
      /\ UNCHANGED <<annotated, received>>
  BY <1>2 DEF ReadEntry, Process
<1>4. TablesOK'
  <2>1. UNCHANGED <<orders, items>>
    BY <1>3 DEF Relate, processCascadeInsert, processCascadeUpdate, Refuse
  <2> QED
    BY <1>1, <1>3, <2>1 DEF TablesOK
<1>5. CASE Refuse(w)
  BY <1>3, <1>4, <1>5, RefuseInv
<1>6. p.read \in Nat \ {0} /\ p.body \in Bodies \cup {NoBody}
  BY <1>2 DEF Process
<1> HIDE DEF p
<1>7. p.body \in Bodies /\ p.read \in DOMAIN p.body.entries
  <2>1. NoBody.entries = <<>>
    BY DEF NoBody
  <2>2. \A b \in Bodies : b.entries \in Seq(Entry)
    BY BodyAssumption
  <2>3. p.body \in Bodies
    BY <1>3, <1>6, <2>1
  <2> QED
    BY <1>3, <1>6, <2>2, <2>3
<1>8. /\ entry.kind = "insert" => entry.quantity \in Quantities
      /\ entry.kind # "insert" => entry.uid \in Items
      /\ entry.kind = "update" => entry.quantity \in Quantities
  BY <1>7, BodyAssumption
<1>9. entry.kind = "relate" /\ entry.uid \in Items => Related(p.body, entry.uid)
  BY <1>7 DEF Related
<1> HIDE DEF entry
<1> QED
  BY <1>1, <1>3, <1>4, <1>5, <1>8, <1>9, RelateInv, CascadeInsertInv, CascadeUpdateInv

-----------------------------------------------------------------------------
(* The other steps *)

LEMMA InitInv == Init => Inv
<1> SUFFICES ASSUME Init PROVE Inv
  OBVIOUS
<1>1. TablesOK
  <2>1. 0 \in 0 .. MaxRequests
    BY TableAssumption
  <2>2. items \in [Items -> {Unused} \cup Item]
    BY ItemAssumption DEF Init
  <2> QED
    BY <2>1, <2>2, TableAssumption DEF Init, TablesOK
<1>2. process = [w \in Workers |-> Idle]
  BY DEF Init
<1> QED
  BY <1>1, <1>2, IdleGood DEF Inv

(* The process that has loaded the order of its request. *)
LEMMA LoadedGood ==
    ASSUME NEW S, NEW m \in {"POST", "PUT", "PATCH"}, NEW b \in Bodies, NEW o \in Orders \cup {NoOrder},
           NEW related \in SUBSET Items, related \subseteq S,
           NEW values \in [Items -> Quantities \cup {NotLoaded}],
           \A i \in Items \ S : values[i] = NotLoaded
    PROVE  Good([Idle EXCEPT !.pc = "read", !.method = m, !.body = b, !.order = o,
                             !.related = related, !.loaded = values, !.memory = values], S)
<1> DEFINE q == [Idle EXCEPT !.pc = "read", !.method = m, !.body = b, !.order = o,
                             !.related = related, !.loaded = values, !.memory = values]
<1>1. Idle \in Process
  BY IdleGood DEF Good, Typed
<1>2. q \in Process
  BY <1>1 DEF Process
<1>3. /\ q.collection = <<>> /\ q.removed = {} /\ q.relating = {} /\ q.editing = {}
      /\ q.loaded = values /\ q.memory = values /\ q.pc = "read"
      /\ q.related = related /\ q.fresh = New
      /\ ~q.wrote /\ q.answer = "none"
  BY DEF Idle
<1> HIDE DEF q
<1>4. Typed(q)
  BY <1>2, <1>3 DEF Typed
<1>5. Collects(q) /\ Plans(q) /\ Edits(q) /\ Knows(q, S) /\ Clean(q)
  BY <1>3 DEF Collects, Plans, Edits, Knows, Clean
<1>6. Good(q, S)
  BY <1>4, <1>5 DEF Good
<1> QED
  BY <1>6 DEF q

LEMMA ReceiveInv ==
    ASSUME Inv, NEW w \in Workers, Receive(w)
    PROVE  Inv'
<1>1. PICK m \in {"POST", "PUT", "PATCH"}, b \in Bodies, o \in orders \cup {NoOrder} :
        LET related == {i \in Items : o # NoOrder /\ items[i].order = o}
            values == [i \in Items |-> IF i \in related THEN items[i].quantity
                                                        ELSE NotLoaded]
        IN  Become(w, [Idle EXCEPT !.pc = "read", !.method = m, !.body = b,
                                   !.order = o, !.related = related,
                                   !.loaded = values, !.memory = values])
  BY DEF Receive
<1> DEFINE related == {i \in Items : o # NoOrder /\ items[i].order = o}
           values == [i \in Items |-> IF i \in related THEN items[i].quantity
                                                       ELSE NotLoaded]
<1>2. TablesOK'
  BY TableAssumption DEF Inv, TablesOK, Receive
<1>3. o \in Orders \cup {NoOrder}
  BY DEF Inv, TablesOK
<1>4. related \in SUBSET Items /\ related \subseteq Stored
  <2>1. \A i \in Items : items[i] \in {Unused} \cup Item
    BY DEF Inv, TablesOK
  <2>2. Unused.order = NoOrder /\ \A r \in Item : r.stored
    BY DEF Item, Unused
  <2> QED
    BY <2>1, <2>2 DEF Stored
<1>5. values \in [Items -> Quantities \cup {NotLoaded}]
  <2>1. \A i \in Items : items[i].quantity \in Quantities \cup {NotLoaded}
    <3>1. \A i \in Items : items[i] \in {Unused} \cup Item
      BY DEF Inv, TablesOK
    <3>2. Unused.quantity = NotLoaded /\ \A r \in Item : r.quantity \in Quantities
      BY DEF Item, Unused
    <3> QED
      BY <3>1, <3>2
  <2> QED
    BY <2>1
<1> HIDE DEF related
<1>6. \A i \in Items \ Stored : values[i] = NotLoaded
  BY <1>4
<1> HIDE DEF values
<1>7. Good([Idle EXCEPT !.pc = "read", !.method = m, !.body = b, !.order = o,
                        !.related = related, !.loaded = values, !.memory = values], Stored)
  BY <1>3, <1>4, <1>5, <1>6, LoadedGood
<1>8. Become(w, [Idle EXCEPT !.pc = "read", !.method = m, !.body = b, !.order = o,
                             !.related = related, !.loaded = values, !.memory = values])
  BY <1>1 DEF related, values
<1>9. UNCHANGED items
  BY DEF Receive
<1> QED
  BY <1>2, <1>7, <1>8, <1>9, BecomeSame

LEMMA PlannedGood ==
    ASSUME NEW S, NEW p, Good(p, S), p.pc = "read",
           NEW removed \in SUBSET p.related,
           NEW relating \in SUBSET DOMAIN p.collection,
           NEW editing \in SUBSET DOMAIN p.collection,
           \A k \in editing : /\ p.collection[k].uid # New
                              /\ p.memory[p.collection[k].uid] # p.loaded[p.collection[k].uid]
    PROVE  Good([p EXCEPT !.pc = "persist", !.removed = removed, !.relating = relating,
                          !.editing = editing], S)
<1> DEFINE q == [p EXCEPT !.pc = "persist", !.removed = removed, !.relating = relating,
                          !.editing = editing]
<1>1. p \in Process
  BY DEF Good, Typed
<1>2. /\ DOMAIN p.collection \subseteq Nat
      /\ \A k \in DOMAIN p.collection : p.collection[k].uid \in Items \cup {New}
  <2> DEFINE R == [uid : Items \cup {New}, quantity : Quantities \cup {NotLoaded}]
  <2>1. p.collection \in Seq(R)
    BY <1>1 DEF Process
  <2>2. \A r \in R : r.uid \in Items \cup {New}
    OBVIOUS
  <2> HIDE DEF R
  <2>3. DOMAIN p.collection \subseteq Nat /\ \A k \in DOMAIN p.collection : p.collection[k] \in R
    BY <2>1
  <2> QED
    BY <2>2, <2>3
<1>3. q \in Process
  <2>1. removed \in SUBSET Items /\ relating \in SUBSET Nat /\ editing \in SUBSET Nat
    BY <1>1, <1>2 DEF Process
  <2> QED
    BY <1>1, <2>1 DEF Process
<1>4. /\ q.related = p.related /\ q.method = p.method /\ q.body = p.body
      /\ q.loaded = p.loaded /\ q.memory = p.memory /\ q.removed = removed
      /\ q.collection = p.collection /\ q.pc = "persist" /\ q.fresh = p.fresh
      /\ q.relating = relating /\ q.editing = editing
      /\ q.wrote = p.wrote /\ q.answer = p.answer
  BY <1>1 DEF Process
<1> HIDE DEF q
<1>5. Typed(q) /\ Collects(q) /\ Edits(q) /\ Knows(q, S) /\ Clean(q)
  BY <1>3, <1>4 DEF Good, Typed, Collects, Edits, Knows, Clean
<1>6. Plans(q)
  BY <1>2, <1>4 DEF Good, Edits, Plans
<1>7. Good(q, S)
  BY <1>5, <1>6 DEF Good
<1> QED
  BY <1>7 DEF q

LEMMA ValidateInv ==
    ASSUME Inv, NEW w \in Workers, Validate(w)
    PROVE  Inv'
<1> DEFINE p == process[w]
           relating == {k \in DOMAIN p.collection : p.collection[k].uid \notin p.related}
           editing == {k \in DOMAIN p.collection :
                         /\ p.collection[k].uid # New
                         /\ p.memory[p.collection[k].uid] # p.loaded[p.collection[k].uid]}
           q == [p EXCEPT !.pc = "persist", !.removed = Removed(p), !.relating = relating,
                          !.editing = editing]
<1>1. TablesOK'
  BY DEF Inv, TablesOK, Validate, Refuse
<1>2. p.pc = "read" /\ (Refuse(w) \/ Become(w, q))
  BY DEF Validate
<1>3. CASE Refuse(w)
  BY <1>1, <1>2, <1>3, RefuseInv
<1>4. CASE Become(w, q)
  <2>1. UNCHANGED items
    BY DEF Validate, Refuse
  <2>2. Removed(p) \in SUBSET p.related
    BY DEF Removed
  <2>3. Good(p, Stored)
    BY DEF Inv
  <2>4. Good(q, Stored)
    <3> HIDE DEF p
    <3> QED
      BY <1>2, <2>2, <2>3, PlannedGood
  <2> HIDE DEF q
  <2> QED
    BY <1>1, <1>4, <2>4, <2>1, BecomeSame
<1> QED
  BY <1>2, <1>3, <1>4

(* A process that has done a part of its plan. *)
Advanced(q, p) ==
    /\ q \in Process
    /\ q.pc = p.pc /\ q.method = p.method /\ q.body = p.body /\ q.related = p.related
    /\ q.loaded = p.loaded /\ q.memory = p.memory /\ q.collection = p.collection
    /\ q.wrote = p.wrote /\ q.answer = p.answer
    /\ q.removed \subseteq p.removed /\ q.relating \subseteq p.relating
    /\ q.editing \subseteq p.editing

LEMMA AdvancedGood ==
    ASSUME NEW S, NEW p, Good(p, S), NEW q, Advanced(q, p), q.fresh # New => q.fresh \in S
    PROVE  Good(q, S) /\ q.pc = p.pc
<1>1. Typed(q) /\ Collects(q) /\ Edits(q) /\ Knows(q, S) /\ Clean(q)
  BY DEF Advanced, Good, Typed, Collects, Edits, Knows, Clean
<1>2. Plans(q)
  BY DEF Advanced, Good, Plans
<1> QED
  BY <1>1, <1>2 DEF Good, Advanced

(* What the statements leave of the items. *)
LEMMA ItemsTyped ==
    ASSUME TablesOK, NEW i \in Items,
           \/ /\ items[i].stored
              /\ \E o \in Orders \cup {NoOrder} : items' = [items EXCEPT ![i].order = o]
           \/ /\ items[i].stored
              /\ \E q \in Quantities : items' = [items EXCEPT ![i].quantity = q]
           \/ \E q \in Quantities :
                 items' = [items EXCEPT ![i] = [stored |-> TRUE, order |-> NoOrder,
                                                quantity |-> q]]
    PROVE  /\ items' \in [Items -> {Unused} \cup Item]
           /\ Stored \subseteq Stored'
           /\ i \in Stored'
<1>1. items \in [Items -> {Unused} \cup Item]
  BY DEF TablesOK
<1>2. PICK r \in Item : items' = [items EXCEPT ![i] = r]
  <2>1. \A q \in Quantities : [stored |-> TRUE, order |-> NoOrder, quantity |-> q] \in Item
    BY DEF Item
  <2>2. items[i].stored => items[i] \in Item
    BY <1>1 DEF Unused
  <2>3. \A o \in Orders \cup {NoOrder} :
          items[i] \in Item => [items[i] EXCEPT !.order = o] \in Item
    BY DEF Item
  <2>4. \A q \in Quantities : items[i] \in Item => [items[i] EXCEPT !.quantity = q] \in Item
    BY DEF Item
  <2> QED
    BY <2>1, <2>2, <2>3, <2>4
<1>3. r.stored
  BY DEF Item
<1> QED
  BY <1>1, <1>2, <1>3 DEF Stored

(* A body relates items only. *)
LEMMA RelatedItem ==
    ASSUME NEW b \in Bodies \cup {NoBody}
    PROVE  ~Related(b, New)
<1>1. CASE b = NoBody
  BY <1>1 DEF NoBody, Related
<1>2. CASE b \in Bodies
  BY <1>2, BodyAssumption, TableAssumption DEF Related
<1> QED
  BY <1>1, <1>2

-----------------------------------------------------------------------------
(* persistAll *)

(* A statement, of which "q" is what remains to be done. *)
LEMMA StatementInv ==
    ASSUME Inv, NEW w \in Workers, NEW p, p = process[w], p.pc = "persist",
           NEW q, Wrote(w, q), Good(q, Stored'), q.pc = "persist",
           InitialOrders \subseteq orders', orders' \subseteq Orders,
           items' \in [Items -> {Unused} \cup Item], Stored \subseteq Stored',
           UNCHANGED <<annotated, received>>
    PROVE  Inv'
<1>1. TablesOK'
  BY DEF Inv, TablesOK
<1> QED
  BY <1>1, WroteInv

(* What the statements have in common. *)
LEMMA PlanInv ==
    ASSUME Inv, NEW w \in Workers, process[w].pc = "persist",
           NEW q, Wrote(w, q), Advanced(q, process[w]), q.fresh # New => q.fresh \in Stored',
           InitialOrders \subseteq orders', orders' \subseteq Orders,
           items' \in [Items -> {Unused} \cup Item], Stored \subseteq Stored',
           UNCHANGED <<annotated, received>>
    PROVE  Inv'
<1>1. Good(process[w], Stored')
  BY KnowsMore DEF Inv
<1>2. Good(q, Stored') /\ q.pc = "persist"
  BY <1>1, AdvancedGood
<1> QED
  BY <1>2, StatementInv

LEMMA InsertOrderInv ==
    ASSUME Inv, NEW w \in Workers, NEW p, p = process[w], p.pc = "persist",
           InsertOrder(w, p), UNCHANGED <<annotated, received>>
    PROVE  Inv'
<1>1. PICK o \in Orders \ orders :
        orders' = orders \cup {o} /\ Wrote(w, [p EXCEPT !.order = o])
  BY DEF InsertOrder
<1>2. Good(p, Stored) /\ Stored' = Stored /\ TablesOK /\ p \in Process
  BY DEF Inv, InsertOrder, Stored, Good, Typed
<1> DEFINE q == [p EXCEPT !.order = o]
<1>3. Advanced(q, p) /\ q.fresh = p.fresh
  BY <1>2 DEF Advanced, Process
<1> HIDE DEF q
<1>4. q.fresh # New => q.fresh \in Stored'
  BY <1>2, <1>3 DEF Good, Knows
<1>5. Wrote(w, q)
  BY <1>1 DEF q
<1>6. /\ InitialOrders \subseteq orders' /\ orders' \subseteq Orders
      /\ items' \in [Items -> {Unused} \cup Item]
  BY <1>1, <1>2 DEF TablesOK, InsertOrder
<1> QED
  BY <1>2, <1>3, <1>4, <1>5, <1>6, PlanInv

LEMMA DetachInv ==
    ASSUME Inv, NEW w \in Workers, NEW p, p = process[w], p.pc = "persist",
           Detach(w, p), UNCHANGED <<annotated, received>>
    PROVE  Inv'
<1>1. PICK i \in p.removed :
        /\ items' = [items EXCEPT ![i].order = NoOrder]
        /\ Wrote(w, [p EXCEPT !.removed = @ \ {i}])
  BY DEF Detach
<1>2. Good(p, Stored) /\ TablesOK /\ p \in Process
  BY DEF Inv, Good, Typed
<1>3. i \in Items /\ items[i].stored
  BY <1>2 DEF Good, Plans, Knows, Stored
<1>4. items' \in [Items -> {Unused} \cup Item] /\ Stored \subseteq Stored'
  BY <1>1, <1>2, <1>3, ItemsTyped
<1> DEFINE q == [p EXCEPT !.removed = @ \ {i}]
<1>5. Advanced(q, p) /\ q.fresh = p.fresh
  BY <1>2 DEF Advanced, Process
<1> HIDE DEF q
<1>6. q.fresh # New => q.fresh \in Stored'
  BY <1>2, <1>4, <1>5 DEF Good, Knows
<1>7. Wrote(w, q)
  BY <1>1 DEF q
<1>8. /\ InitialOrders \subseteq orders' /\ orders' \subseteq Orders
  BY <1>2 DEF TablesOK, Detach
<1> QED
  BY <1>4, <1>5, <1>6, <1>7, <1>8, PlanInv

LEMMA InsertItemInv ==
    ASSUME Inv, NEW w \in Workers, NEW p, p = process[w], p.pc = "persist",
           InsertItem(w, p), UNCHANGED <<annotated, received>>
    PROVE  Inv'
<1>1. PICK k \in p.relating, i \in Items :
        /\ p.collection[k].uid = New
        /\ items' = [items EXCEPT ![i] = [stored |-> TRUE, order |-> NoOrder,
                                          quantity |-> p.collection[k].quantity]]
        /\ Wrote(w, [p EXCEPT !.fresh = i])
  BY DEF InsertItem
<1>2. Good(p, Stored) /\ TablesOK /\ p \in Process
  BY DEF Inv, Good, Typed
<1>3. p.collection[k].quantity \in Quantities
  <2>1. k \in DOMAIN p.collection
    BY <1>2 DEF Good, Typed
  <2>2. New \notin p.related
    BY <1>2, TableAssumption DEF Process
  <2>3. ~Related(p.body, New)
    BY <1>2, RelatedItem DEF Process
  <2> QED
    BY <1>1, <1>2, <2>1, <2>2, <2>3 DEF Good, Collects
<1>4. items' \in [Items -> {Unused} \cup Item] /\ Stored \subseteq Stored' /\ i \in Stored'
  BY <1>1, <1>2, <1>3, ItemsTyped
<1> DEFINE q == [p EXCEPT !.fresh = i]
<1>5. Advanced(q, p) /\ q.fresh = i
  BY <1>2 DEF Advanced, Process
<1> HIDE DEF q
<1>6. q.fresh # New => q.fresh \in Stored'
  BY <1>4, <1>5
<1>7. Wrote(w, q)
  BY <1>1 DEF q
<1>8. /\ InitialOrders \subseteq orders' /\ orders' \subseteq Orders
  BY <1>2 DEF TablesOK, InsertItem
<1> QED
  BY <1>4, <1>5, <1>6, <1>7, <1>8, PlanInv

LEMMA AttachInv ==
    ASSUME Inv, NEW w \in Workers, NEW p, p = process[w], p.pc = "persist",
           Attach(w, p), UNCHANGED <<annotated, received>>
    PROVE  Inv'
<1>1. PICK k \in p.relating, i \in Items :
        /\ i = IF p.collection[k].uid = New THEN p.fresh ELSE p.collection[k].uid
        /\ items' = [items EXCEPT ![i].order = p.order]
        /\ Wrote(w, [p EXCEPT !.relating = @ \ {k}, !.fresh = New])
  BY DEF Attach
<1>2. Good(p, Stored) /\ TablesOK /\ p \in Process
  BY DEF Inv, Good, Typed
<1>3. items[i].stored /\ p.order \in Orders \cup {NoOrder}
  <2>1. k \in DOMAIN p.collection
    BY <1>2 DEF Good, Typed
  <2>2. i \in Stored
    BY <1>1, <1>2, <2>1, TableAssumption DEF Good, Knows
  <2> QED
    BY <1>2, <2>2 DEF Stored, Process
<1>4. items' \in [Items -> {Unused} \cup Item] /\ Stored \subseteq Stored'
  BY <1>1, <1>2, <1>3, ItemsTyped
<1> DEFINE q == [p EXCEPT !.relating = @ \ {k}, !.fresh = New]
<1>5. Advanced(q, p) /\ q.fresh = New
  BY <1>2 DEF Advanced, Process
<1> HIDE DEF q
<1>6. Wrote(w, q)
  BY <1>1 DEF q
<1>7. /\ InitialOrders \subseteq orders' /\ orders' \subseteq Orders
  BY <1>2 DEF TablesOK, Attach
<1> QED
  BY <1>4, <1>5, <1>6, <1>7, PlanInv

LEMMA EditInv ==
    ASSUME Inv, NEW w \in Workers, NEW p, p = process[w], p.pc = "persist",
           Edit(w, p), UNCHANGED <<annotated, received>>
    PROVE  Inv'
<1>1. PICK k \in p.editing :
        LET i == p.collection[k].uid
        IN  /\ items' = [items EXCEPT ![i].quantity = p.memory[i]]
            /\ Wrote(w, [p EXCEPT !.editing = @ \ {k}])
  BY DEF Edit
<1> DEFINE i == p.collection[k].uid
<1>2. Good(p, Stored) /\ TablesOK /\ p \in Process
  BY DEF Inv, Good, Typed
<1>3. i \in Items /\ items[i].stored /\ p.memory[i] \in Quantities
  BY <1>2 DEF Good, Plans, Knows, Stored
<1>4. items' \in [Items -> {Unused} \cup Item] /\ Stored \subseteq Stored'
  BY <1>1, <1>2, <1>3, ItemsTyped
<1> DEFINE q == [p EXCEPT !.editing = @ \ {k}]
<1>5. Advanced(q, p) /\ q.fresh = p.fresh
  BY <1>2 DEF Advanced, Process
<1> HIDE DEF q
<1>6. q.fresh # New => q.fresh \in Stored'
  BY <1>2, <1>4, <1>5 DEF Good, Knows
<1>7. Wrote(w, q)
  BY <1>1 DEF q
<1>8. /\ InitialOrders \subseteq orders' /\ orders' \subseteq Orders
  BY <1>2 DEF TablesOK, Edit
<1> QED
  BY <1>4, <1>5, <1>6, <1>7, <1>8, PlanInv
LEMMA PersistInv ==
    ASSUME Inv, NEW w \in Workers, Persist(w)
    PROVE  Inv'
<1> DEFINE p == process[w]
<1>1. /\ p.pc = "persist" /\ UNCHANGED <<annotated, received>>
      /\ \/ InsertOrder(w, p) \/ Detach(w, p) \/ InsertItem(w, p)
         \/ Attach(w, p) \/ Edit(w, p)
         \/ /\ Become(w, [p EXCEPT !.pc = "answered", !.answer = "failed"])
            /\ UNCHANGED <<orders, items>>
  BY DEF Persist
<1>2. CASE Become(w, [p EXCEPT !.pc = "answered", !.answer = "failed"])
           /\ UNCHANGED <<orders, items>>
  <2>1. Good(p, Stored)
    BY DEF Inv
  <2>2. Good([p EXCEPT !.pc = "answered", !.answer = "failed"], Stored)
    BY <2>1, AnsweredGood
  <2>3. TablesOK'
    BY <1>1, <1>2 DEF Inv, TablesOK
  <2> QED
    BY <1>2, <2>2, <2>3, BecomeSame
<1> QED
  BY <1>1, <1>2, InsertOrderInv, DetachInv, InsertItemInv, AttachInv, EditInv

LEMMA AnswerInv ==
    ASSUME Inv, NEW w \in Workers, Answer(w)
    PROVE  Inv'
<1>1. Good(process[w], Stored)
  BY DEF Inv
<1>2. Good([process[w] EXCEPT !.pc = "answered", !.answer = "done"], Stored)
  BY <1>1, AnsweredGood
<1>3. TablesOK'
  BY DEF Inv, TablesOK, Answer
<1> QED
  BY <1>2, <1>3, BecomeSame DEF Answer

LEMMA LeaveInv ==
    ASSUME Inv, NEW w \in Workers, Leave(w)
    PROVE  Inv'
<1>1. TablesOK'
  BY DEF Inv, TablesOK, Leave
<1> QED
  BY <1>1, IdleGood, BecomeSame DEF Leave

LEMMA NextInv == Inv /\ [Next]_vars => Inv'
<1> SUFFICES ASSUME Inv, [Next]_vars PROVE Inv'
  OBVIOUS
<1>1. CASE UNCHANGED vars
  BY <1>1 DEF vars, Inv, TablesOK, Stored
<1>2. ASSUME NEW w \in Workers,
             Receive(w) \/ ReadEntry(w) \/ Validate(w) \/ Persist(w) \/ Answer(w) \/ Leave(w)
      PROVE  Inv'
  BY <1>2, ReceiveInv, ReadEntryInv, ValidateInv, PersistInv, AnswerInv, LeaveInv
<1> QED
  BY <1>1, <1>2 DEF Next

-----------------------------------------------------------------------------
(* The theorems *)

(* Every variable keeps its type, and a collection holds an item once. *)
THEOREM TypeCorrect == Spec => []TypeOK
<1>1. Spec => []Inv
  BY InitInv, NextInv, PTL DEF Spec
<1> QED
  BY <1>1, InvTyped, PTL

(* A request that is refused has written nothing, however many of its entries
   had been read. *)
THEOREM RefusedIsClean == Spec => []RefusedWritesNothing
<1>1. Spec => []Inv
  BY InitInv, NextInv, PTL DEF Spec
<1>2. Inv => RefusedWritesNothing
  BY DEF Inv, Good, Clean, RefusedWritesNothing
<1> QED
  BY <1>1, <1>2, PTL

(* What a request in progress may do to the items, as EditsStayInScope. *)
InScope ==
    \A i \in Items :
        items[i].stored /\ items'[i] # items[i] =>
          \E w \in Workers :
              LET p == process[w]
              IN  /\ p.pc = "persist"
                  /\ \/ i \in p.related /\ p.method = "PATCH"
                     \/ /\ items'[i].quantity = items[i].quantity
                        /\ i \in p.related \/ Related(p.body, i) \/ p.fresh = i

LEMMA PersistInScope ==
    ASSUME Inv, NEW w \in Workers, Persist(w)
    PROVE  InScope
<1> DEFINE p == process[w]
<1> SUFFICES ASSUME NEW i \in Items, items[i].stored, items'[i] # items[i]
             PROVE  /\ p.pc = "persist"
                    /\ \/ i \in p.related /\ p.method = "PATCH"
                       \/ /\ items'[i].quantity = items[i].quantity
                          /\ i \in p.related \/ Related(p.body, i) \/ p.fresh = i
  BY DEF InScope
<1>1. Good(p, Stored) /\ p.pc = "persist" /\ p \in Process
  BY DEF Inv, Good, Typed, Persist
<1>2. items[i] \in Item /\ \A j \in Items : items[j] \in {Unused} \cup Item
  BY DEF Inv, TablesOK, Unused
<1>3. items \in [Items -> {Unused} \cup Item]
  BY DEF Inv, TablesOK
<1> HIDE DEF p
<1>4. CASE Detach(w, p)
  <2>1. PICK j \in p.removed : items' = [items EXCEPT ![j].order = NoOrder]
    BY <1>4 DEF Detach
  <2>2. i = j /\ items'[i].quantity = items[i].quantity
    BY <1>2, <1>3, <2>1 DEF Item
  <2> QED
    BY <1>1, <2>1, <2>2 DEF Good, Plans
<1>5. CASE InsertItem(w, p)
  BY <1>2, <1>3, <1>5 DEF InsertItem
<1>6. CASE Attach(w, p)
  <2>1. PICK k \in p.relating, j \in Items :
          /\ j = IF p.collection[k].uid = New THEN p.fresh ELSE p.collection[k].uid
          /\ items' = [items EXCEPT ![j].order = p.order]
    BY <1>6 DEF Attach
  <2>2. i = j /\ items'[i].quantity = items[i].quantity
    BY <1>2, <1>3, <2>1 DEF Item
  <2>3. k \in DOMAIN p.collection
    BY <1>1 DEF Good, Typed
  <2> QED
    BY <1>1, <2>1, <2>2, <2>3 DEF Good, Collects
<1>7. CASE Edit(w, p)
  <2>1. PICK k \in p.editing : items' = [items EXCEPT ![p.collection[k].uid].quantity
                                                    = p.memory[p.collection[k].uid]]
    BY <1>7 DEF Edit
  <2>2. i = p.collection[k].uid
    BY <1>3, <2>1
  <2> QED
    BY <1>1, <2>1, <2>2 DEF Good, Plans
<1>8. CASE InsertOrder(w, p) \/ UNCHANGED items
  BY <1>8 DEF InsertOrder
<1> QED
  BY <1>4, <1>5, <1>6, <1>7, <1>8 DEF Persist, p

LEMMA NextInScope == Inv /\ [Next]_vars => InScope
<1> SUFFICES ASSUME Inv, [Next]_vars PROVE InScope
  OBVIOUS
<1>1. CASE UNCHANGED items
  BY <1>1 DEF InScope
<1>2. ASSUME NEW w \in Workers, Persist(w) PROVE InScope
  BY <1>2, PersistInScope
<1>3. ASSUME NEW w \in Workers,
             Receive(w) \/ ReadEntry(w) \/ Validate(w) \/ Answer(w) \/ Leave(w)
      PROVE  UNCHANGED items
  BY <1>3 DEF Receive, ReadEntry, Relate, processCascadeInsert, processCascadeUpdate, Validate,
              Refuse, Answer, Leave
<1> QED
  BY <1>1, <1>2, <1>3 DEF Next, vars

(* No request edits an item out of the scope of its order, and none takes an
   item it does not name. *)
THEOREM NestedEditsInScope == Spec => EditsStayInScope
<1>1. Spec => []Inv
  BY InitInv, NextInv, PTL DEF Spec
<1>2. Inv /\ [Next]_vars => InScope
  BY NextInScope
<1> QED
  BY <1>1, <1>2, PTL DEF Spec, EditsStayInScope, InScope

-----------------------------------------------------------------------------
(* What a successful request leaves *)

(* What has been read of a body: the edits of an item, the uids that are kept,
   the objects without uid of a quantity, and what the collection has of those. *)
EditsOf(p, i) == {k \in 1 .. p.read : p.body.entries[k].kind = "update"
                                      /\ p.body.entries[k].uid = i}

KeptSoFar(p) == {p.body.entries[k].uid :
                    k \in {k \in 1 .. p.read : p.body.entries[k].kind # "insert"}}

InsertsSoFar(p, q) == {k \in 1 .. p.read : p.body.entries[k].kind = "insert"
                                           /\ p.body.entries[k].quantity = q}

NewOnes(p, q) == {k \in DOMAIN p.collection : p.collection[k].uid = New
                                              /\ p.collection[k].quantity = q}

(* A process has collected and edited what it has read. *)
Reads(p) ==
    /\ p.read \in 0 .. Len(p.body.entries)
    /\ p.pc = "persist" => p.read = Len(p.body.entries)
    /\ Collected(p) \ {New} = KeptSoFar(p)
    /\ \A i \in Items : p.memory[i] = IF EditsOf(p, i) = {} THEN p.loaded[i]
                                        ELSE p.body.entries[Max(EditsOf(p, i))].quantity
    /\ \A i \in KeptSoFar(p) \cup p.related : p.loaded[i] # NotLoaded
    /\ \A q \in Quantities : Cardinality(NewOnes(p, q)) = Cardinality(InsertsSoFar(p, q))

(* The items a process has known before persistAll. *)
Known(p) == p.related \cup KeptSoFar(p)

(* As long as nobody else writes, the rows are as a process that reads its body
   has loaded them. *)
Unwritten(p, rows) ==
    /\ p.fresh = New
    /\ p.method = "POST" <=> p.order = NoOrder
    /\ p.order = NoOrder => p.related = {}
    /\ p.order # NoOrder => p.related = {i \in Items : rows[i].order = p.order}
    /\ \A i \in Items : p.loaded[i] # NotLoaded => rows[i].quantity = p.loaded[i]

(* The items that have been inserted for the order, of a quantity. *)
Extra(p, rows, q) ==
    {i \in Items \ Known(p) : rows[i].order = p.order /\ rows[i].quantity = q}

(* What persistAll has done so far: of the order, ... *)
Begun(p, rows) ==
    /\ p.removed \subseteq Removed(p)
    /\ \A k \in p.relating : p.collection[k].uid \notin p.related
    /\ \A i \in p.related : rows[i].order = p.order <=> i \notin Removed(p) \/ i \in p.removed
    /\ \A k \in DOMAIN p.collection :
         LET i == p.collection[k].uid
         IN  i # New /\ i \notin p.related /\ k \notin p.relating => rows[i].order = p.order
    /\ \A q \in Quantities :
         /\ IsFiniteSet(Extra(p, rows, q))
         /\ Cardinality(Extra(p, rows, q)) = Cardinality(NewOnes(p, q) \ p.relating)
    /\ p.fresh # New =>
         /\ p.fresh \notin Known(p) /\ rows[p.fresh].order = NoOrder
         /\ \E k \in p.relating : /\ First(p.relating, k)
                                  /\ p.collection[k].uid = New
                                  /\ rows[p.fresh].quantity = p.collection[k].quantity

(* ... of a new order, which has to be inserted first, ... *)
Unbegun(p) ==
    /\ p.method = "POST" /\ p.related = {} /\ p.removed = {} /\ p.fresh = New
    /\ p.relating = DOMAIN p.collection

(* ... and of the items. *)
Edited(p, rows) ==
    \A i \in Known(p) :
        rows[i].quantity = IF \E k \in p.editing : p.collection[k].uid = i
                             THEN p.loaded[i] ELSE p.memory[i]

(* What AppliedAsDocumented says of a process. *)
Applied(p, rows) ==
    LET mine == {i \in Items : rows[i].stored /\ rows[i].order = p.order}
        kept == IF p.method = "PATCH" /\ ~p.body.named THEN p.related ELSE Kept(p.body)
        new(q) == {k \in DOMAIN p.body.entries :
                      p.body.entries[k].kind = "insert" /\ p.body.entries[k].quantity = q}
    IN  /\ kept \subseteq mine
        /\ \A i \in kept : rows[i].quantity = Given(p, i)
        /\ \A q \in Quantities :
             Cardinality({i \in mine \ kept : rows[i].quantity = q}) = Cardinality(new(q))

(* What a process may count on as long as nobody else writes. *)
Fits(p, rows) ==
    /\ p.pc = "read" => Unwritten(p, rows)
    /\ p.pc = "persist" =>
         /\ Edited(p, rows)
         /\ p.order = NoOrder => Unbegun(p)
         /\ p.order # NoOrder => Begun(p, rows)
    /\ p.answer = "done" => Applied(p, rows)

Whole(p, rows, os) ==
    /\ Reads(p)
    /\ p.order \in os \cup {NoOrder}
    /\ ~p.disturbed => Fits(p, rows)

Owned ==
    /\ \A i \in Items : items[i].order \in orders \cup {NoOrder}
    /\ \A w \in Workers : Whole(process[w], items, orders)

(* Bodies and collections are lists of entries and objects. *)
LEMMA BodyShape ==
    ASSUME NEW b \in Bodies \cup {NoBody}
    PROVE  /\ Len(b.entries) \in Nat /\ DOMAIN b.entries = 1 .. Len(b.entries)
           /\ \A k \in DOMAIN b.entries :
                /\ b.entries[k].kind \in {"relate", "insert", "update"}
                /\ b.entries[k].kind = "insert" => b.entries[k].quantity \in Quantities
                /\ b.entries[k].kind # "insert" => b.entries[k].uid \in Items
                /\ b.entries[k].kind = "update" => b.entries[k].quantity \in Quantities
           /\ ~b.named => Len(b.entries) = 0
<1>1. CASE b = NoBody
  BY <1>1 DEF NoBody
<1>2. CASE b \in Bodies
  <2>1. b.entries \in Seq(Entry)
    BY <1>2, BodyAssumption
  <2>2. \A r \in Entry : r.kind \in {"relate", "insert", "update"}
    BY DEF Entry
  <2>3. Len(b.entries) \in Nat /\ DOMAIN b.entries = 1 .. Len(b.entries)
    BY <2>1
  <2>4. \A k \in DOMAIN b.entries : b.entries[k] \in Entry
    BY <2>1
  <2>5. ~b.named => Len(b.entries) = 0
    BY <1>2, BodyAssumption
  <2> QED
    BY <1>2, <2>2, <2>3, <2>4, <2>5, BodyAssumption
<1> QED
  BY <1>1, <1>2

LEMMA CollectionShape ==
    ASSUME NEW p \in Process
    PROVE  /\ Len(p.collection) \in Nat /\ DOMAIN p.collection = 1 .. Len(p.collection)
           /\ \A k \in DOMAIN p.collection : p.collection[k].uid \in Items \cup {New}
<1> DEFINE R == [uid : Items \cup {New}, quantity : Quantities \cup {NotLoaded}]
<1>1. p.collection \in Seq(R)
  BY DEF Process
<1>2. \A r \in R : r.uid \in Items \cup {New}
  OBVIOUS
<1> HIDE DEF R
<1>3. /\ Len(p.collection) \in Nat /\ DOMAIN p.collection = 1 .. Len(p.collection)
      /\ \A k \in DOMAIN p.collection : p.collection[k] \in R
  BY <1>1
<1> QED
  BY <1>2, <1>3

LEMMA NewOnesFinite ==
    ASSUME NEW p \in Process, NEW q
    PROVE  IsFiniteSet(NewOnes(p, q))
<1>1. IsFiniteSet(1 .. Len(p.collection))
  BY CollectionShape, FS_Interval
<1>2. NewOnes(p, q) \subseteq 1 .. Len(p.collection)
  BY CollectionShape DEF NewOnes
<1> QED
  BY <1>1, <1>2, FS_Subset

LEMMA InsertsFinite ==
    ASSUME NEW p \in Process, NEW q
    PROVE  IsFiniteSet(InsertsSoFar(p, q))
<1>1. IsFiniteSet(1 .. p.read)
  BY FS_Interval DEF Process
<1>2. InsertsSoFar(p, q) \subseteq 1 .. p.read
  BY DEF InsertsSoFar
<1> QED
  BY <1>1, <1>2, FS_Subset

(* The last edit. *)
LEMMA MaxIs ==
    ASSUME NEW S \in SUBSET Int, NEW n \in S, \A k \in S : n >= k
    PROVE  Max(S) = n
<1>1. \A x \in S : (\A y \in S : x >= y) => x = n
  OBVIOUS
<1> QED
  BY <1>1 DEF Max

(* Processes that have read and collected the same. *)
Alike(q, p) ==
    /\ q.method = p.method /\ q.body = p.body /\ q.read = p.read /\ q.related = p.related
    /\ q.loaded = p.loaded /\ q.memory = p.memory /\ q.collection = p.collection

LEMMA AlikeSame ==
    ASSUME NEW q, NEW p, Alike(q, p)
    PROVE  /\ \A i : EditsOf(q, i) = EditsOf(p, i) /\ Given(q, i) = Given(p, i)
           /\ KeptSoFar(q) = KeptSoFar(p) /\ Known(q) = Known(p)
           /\ \A n : InsertsSoFar(q, n) = InsertsSoFar(p, n) /\ NewOnes(q, n) = NewOnes(p, n)
           /\ Collected(q) = Collected(p) /\ Removed(q) = Removed(p)
<1>1. /\ \A i : EditsOf(q, i) = EditsOf(p, i) /\ Given(q, i) = Given(p, i)
      /\ KeptSoFar(q) = KeptSoFar(p) /\ Collected(q) = Collected(p)
  BY DEF Alike, EditsOf, Given, KeptSoFar, Collected
<1>2. \A n : InsertsSoFar(q, n) = InsertsSoFar(p, n) /\ NewOnes(q, n) = NewOnes(p, n)
  BY DEF Alike, InsertsSoFar, NewOnes
<1>3. Known(q) = Known(p) /\ Removed(q) = Removed(p)
  BY <1>1 DEF Alike, Known, Removed
<1> QED
  BY <1>1, <1>2, <1>3

LEMMA AlikeReads ==
    ASSUME NEW q, NEW p, Alike(q, p), Reads(p),
           q.pc = "persist" => p.read = Len(p.body.entries)
    PROVE  Reads(q)
<1>1. /\ \A i : EditsOf(q, i) = EditsOf(p, i)
      /\ KeptSoFar(q) = KeptSoFar(p) /\ Collected(q) = Collected(p)
      /\ \A n : InsertsSoFar(q, n) = InsertsSoFar(p, n) /\ NewOnes(q, n) = NewOnes(p, n)
  BY AlikeSame
<1> QED
  BY <1>1 DEF Reads, Alike

(* The history of a process does not count. *)
LEMMA WroteWhole ==
    ASSUME NEW p \in Process, NEW rows, NEW os, Whole(p, rows, os)
    PROVE  Whole([p EXCEPT !.wrote = TRUE], rows, os)
<1> DEFINE q == [p EXCEPT !.wrote = TRUE]
<1>1. /\ Alike(q, p) /\ q.pc = p.pc /\ q.order = p.order /\ q.removed = p.removed
      /\ q.relating = p.relating /\ q.fresh = p.fresh /\ q.editing = p.editing
      /\ q.answer = p.answer /\ q.disturbed = p.disturbed
  BY DEF Process, Alike
<1> HIDE DEF q
<1>2. Reads(q)
  BY <1>1, AlikeReads DEF Whole, Reads
<1>3. /\ \A i : Given(q, i) = Given(p, i)
      /\ \A n : NewOnes(q, n) = NewOnes(p, n)
      /\ Known(q) = Known(p) /\ Removed(q) = Removed(p)
  BY <1>1, AlikeSame
<1>4. \A n : Extra(q, rows, n) = Extra(p, rows, n)
  BY <1>1, <1>3 DEF Extra
<1>5. Begun(p, rows) => Begun(q, rows)
  BY <1>1, <1>3, <1>4 DEF Begun, Alike
<1>6. Unbegun(p) => Unbegun(q)
  BY <1>1 DEF Unbegun, Alike
<1>7. Edited(p, rows) => Edited(q, rows)
  BY <1>1, <1>3 DEF Edited, Alike
<1>8. Applied(p, rows) => Applied(q, rows)
  BY <1>1, <1>3 DEF Applied, Alike
<1>9. Unwritten(p, rows) => Unwritten(q, rows)
  BY <1>1 DEF Unwritten, Alike
<1>10. Fits(p, rows) => Fits(q, rows)
  BY <1>1, <1>5, <1>6, <1>7, <1>8, <1>9 DEF Fits
<1> QED
  BY <1>1, <1>2, <1>10 DEF Whole, q

(* Nothing is owed to a process that has been disturbed, or is idle. *)
LEMMA DisturbedWhole ==
    ASSUME NEW p \in Process, NEW rows, NEW os, Whole(p, rows, os),
           NEW written, NEW more, os \subseteq more
    PROVE  Whole([p EXCEPT !.disturbed = TRUE], written, more)
<1> DEFINE q == [p EXCEPT !.disturbed = TRUE]
<1>1. Alike(q, p) /\ q.pc = p.pc /\ q.order = p.order /\ q.disturbed
  BY DEF Process, Alike
<1> HIDE DEF q
<1>2. Reads(q)
  BY <1>1, AlikeReads DEF Whole, Reads
<1> QED
  BY <1>1, <1>2 DEF Whole, q

LEMMA IdleWhole ==
    ASSUME NEW rows, NEW os
    PROVE  Whole(Idle, rows, os)
<1>1. /\ Idle.pc = "idle" /\ Idle.read = 0 /\ Idle.order = NoOrder /\ Idle.related = {}
      /\ Idle.collection = <<>> /\ Idle.answer = "none" /\ Idle.body = NoBody
      /\ Idle.loaded = [i \in Items |-> NotLoaded] /\ Idle.memory = Idle.loaded
  BY DEF Idle
<1>2. Len(NoBody.entries) = 0
  BY DEF NoBody
<1>3. /\ Collected(Idle) = {} /\ KeptSoFar(Idle) = {}
      /\ \A i : EditsOf(Idle, i) = {}
      /\ \A q : NewOnes(Idle, q) = {} /\ InsertsSoFar(Idle, q) = {}
  BY <1>1 DEF Collected, KeptSoFar, EditsOf, NewOnes, InsertsSoFar
<1>4. Reads(Idle)
  <2>1. Idle.read \in 0 .. Len(Idle.body.entries)
    BY <1>1, <1>2
  <2>2. \A i \in Items : Idle.memory[i] = Idle.loaded[i]
    BY <1>1
  <2>3. KeptSoFar(Idle) \cup Idle.related = {}
    BY <1>1, <1>3
  <2> QED
    BY <1>1, <1>3, <2>1, <2>2, <2>3 DEF Reads
<1>5. Fits(Idle, rows)
  BY <1>1 DEF Fits
<1> QED
  BY <1>1, <1>4, <1>5 DEF Whole

(* A step that writes nothing. *)
LEMMA BecomeOwned ==
    ASSUME Inv, Owned, NEW w \in Workers, NEW p, Become(w, p), UNCHANGED <<orders, items>>,
           Whole(p, items, orders)
    PROVE  Owned'
<1>1. \A v \in Workers : process'[v] = IF v = w THEN p ELSE process[v]
  BY DEF Become, Inv
<1>2. \A v \in Workers : Whole(process'[v], items, orders)
  BY <1>1 DEF Owned
<1>3. \A v \in Workers : Whole(process'[v], items', orders')
  BY <1>2
<1> QED
  BY <1>3 DEF Owned

(* A statement of a process, which disturbs all others. *)
LEMMA WroteOwned ==
    ASSUME Inv, Owned, NEW w \in Workers, NEW p \in Process, Wrote(w, p),
           Whole(p, items', orders'), orders \subseteq orders',
           \A i \in Items : items'[i].order \in orders' \cup {NoOrder}
    PROVE  Owned'
<1>1. ASSUME NEW v \in Workers PROVE Whole(process'[v], items', orders')
  <2>1. Whole(process[v], items, orders) /\ process[v] \in Process /\ Clean(process[v])
    BY DEF Owned, Inv, Good, Typed
  <2>2. CASE v = w
    <3>1. process'[v] = [p EXCEPT !.wrote = TRUE]
      BY <2>2 DEF Wrote
    <3> QED
      BY <3>1, WroteWhole
  <2>3. CASE v # w /\ process[v].pc = "idle"
    <3>1. process'[v] = process[v]
      BY <2>3 DEF Wrote
    <3>2. Fits(process[v], items')
      BY <2>1, <2>3 DEF Fits, Clean
    <3> QED
      BY <2>1, <3>1, <3>2 DEF Whole
  <2>4. CASE v # w /\ process[v].pc # "idle"
    <3>1. process'[v] = [process[v] EXCEPT !.disturbed = TRUE]
      BY <2>4 DEF Wrote
    <3> QED
      BY <2>1, <3>1, DisturbedWhole
  <2> QED
    BY <2>2, <2>3, <2>4
<1> QED
  BY <1>1 DEF Owned

(* A process that refuses or fails owes nothing. *)
LEMMA AnsweredWhole ==
    ASSUME NEW p \in Process, NEW rows, NEW os, Whole(p, rows, os),
           NEW answer \in {"refused", "failed"}
    PROVE  Whole([p EXCEPT !.pc = "answered", !.answer = answer], rows, os)
<1> DEFINE q == [p EXCEPT !.pc = "answered", !.answer = answer]
<1>1. /\ Alike(q, p) /\ q.pc = "answered" /\ q.order = p.order /\ q.answer = answer
      /\ q.disturbed = p.disturbed
  BY DEF Process, Alike
<1> HIDE DEF q
<1>2. Reads(q)
  BY <1>1, AlikeReads DEF Whole
<1>3. Fits(q, rows)
  BY <1>1 DEF Fits
<1> QED
  BY <1>1, <1>2, <1>3 DEF Whole, q

(* The process that has loaded the order of its request. *)
LEMMA ReceiveOwned ==
    ASSUME Inv, Owned, NEW w \in Workers, Receive(w)
    PROVE  Owned'
<1>1. PICK m \in {"POST", "PUT", "PATCH"}, b \in Bodies, o \in orders \cup {NoOrder} :
        LET related == {i \in Items : o # NoOrder /\ items[i].order = o}
            values == [i \in Items |-> IF i \in related THEN items[i].quantity
                                                        ELSE NotLoaded]
        IN  /\ m = "POST" <=> o = NoOrder
            /\ Become(w, [Idle EXCEPT !.pc = "read", !.method = m, !.body = b,
                                      !.order = o, !.related = related,
                                      !.loaded = values, !.memory = values])
  BY DEF Receive
<1> DEFINE related == {i \in Items : o # NoOrder /\ items[i].order = o}
           values == [i \in Items |-> IF i \in related THEN items[i].quantity
                                                       ELSE NotLoaded]
           q == [Idle EXCEPT !.pc = "read", !.method = m, !.body = b, !.order = o,
                             !.related = related, !.loaded = values, !.memory = values]
<1>2. /\ q.pc = "read" /\ q.method = m /\ q.body = b /\ q.order = o /\ q.related = related
      /\ q.loaded = values /\ q.memory = values
      /\ q.read = 0 /\ q.collection = <<>> /\ q.answer = "none" /\ q.fresh = New
  BY DEF Idle
<1>3. \A i \in related : items[i].quantity # NotLoaded
  <2>1. \A i \in Items : items[i] \in {Unused} \cup Item
    BY DEF Inv, TablesOK
  <2>2. Unused.order = NoOrder /\ \A r \in Item : r.quantity # NotLoaded
    BY TableAssumption DEF Item, Unused
  <2> QED
    BY <2>1, <2>2
<1>4. /\ \A i \in Items : values[i] # NotLoaded => items[i].quantity = values[i]
      /\ \A i \in related : values[i] # NotLoaded
      /\ o = NoOrder => related = {}
      /\ o # NoOrder => related = {i \in Items : items[i].order = o}
  BY <1>3
<1>5. Become(w, q) /\ (m = "POST" <=> o = NoOrder)
  BY <1>1
<1> HIDE DEF q, related, values
<1>6. /\ Collected(q) = {} /\ KeptSoFar(q) = {}
      /\ \A i : EditsOf(q, i) = {}
      /\ \A n : NewOnes(q, n) = {} /\ InsertsSoFar(q, n) = {}
  BY <1>2 DEF Collected, KeptSoFar, EditsOf, NewOnes, InsertsSoFar
<1>7. Len(b.entries) \in Nat
  BY BodyShape
<1>8. Reads(q)
  <2>1. q.read \in 0 .. Len(q.body.entries) /\ q.pc # "persist"
    BY <1>2, <1>7
  <2>2. \A i \in KeptSoFar(q) \cup q.related : q.loaded[i] # NotLoaded
    BY <1>2, <1>4, <1>6
  <2>3. Collected(q) \ {New} = KeptSoFar(q)
    BY <1>6
  <2>4. \A i \in Items : q.memory[i] = q.loaded[i]
    BY <1>2
  <2> QED
    BY <1>6, <2>1, <2>2, <2>3, <2>4 DEF Reads
<1>9. Fits(q, items)
  BY <1>2, <1>4, <1>5 DEF Fits, Unwritten
<1>10. Whole(q, items, orders)
  BY <1>2, <1>8, <1>9 DEF Whole
<1> QED
  BY <1>5, <1>10, BecomeOwned DEF Receive

-----------------------------------------------------------------------------
(* Reading the entries: what has been read *)

(* A process that has read the next entry. *)
ReadOn(u, p) ==
    /\ u.method = p.method /\ u.body = p.body /\ u.related = p.related /\ u.order = p.order
    /\ u.pc = p.pc /\ u.answer = p.answer /\ u.disturbed = p.disturbed
    /\ u.read = p.read + 1 /\ u.fresh = p.fresh

LEMMA EntryRead ==
    ASSUME NEW p \in Process, p.read < Len(p.body.entries), NEW u, ReadOn(u, p),
           NEW entry, entry = p.body.entries[u.read]
    PROVE  /\ u.read \in 1 .. Len(p.body.entries)
           /\ KeptSoFar(u) = IF entry.kind = "insert" THEN KeptSoFar(p)
                             ELSE KeptSoFar(p) \cup {entry.uid}
           /\ \A i : EditsOf(u, i) = IF entry.kind = "update" /\ entry.uid = i
                                       THEN EditsOf(p, i) \cup {u.read} ELSE EditsOf(p, i)
           /\ \A i : \A k \in EditsOf(p, i) : k \in Nat /\ k < u.read
           /\ \A q : /\ u.read \notin InsertsSoFar(p, q)
                     /\ InsertsSoFar(u, q) =
                          IF entry.kind = "insert" /\ entry.quantity = q
                            THEN InsertsSoFar(p, q) \cup {u.read} ELSE InsertsSoFar(p, q)
<1>1. /\ p.read \in Nat /\ u.read = p.read + 1 /\ u.body = p.body
      /\ Len(p.body.entries) \in Nat
  BY BodyShape DEF Process, ReadOn
<1>2. /\ 1 .. u.read = (1 .. p.read) \cup {u.read} /\ u.read \in Nat
      /\ \A k \in 1 .. p.read : k \in Nat /\ k < u.read
  BY <1>1
<1>3. u.read \in 1 .. Len(p.body.entries)
  BY <1>1
<1>4. KeptSoFar(u) = IF entry.kind = "insert" THEN KeptSoFar(p)
                       ELSE KeptSoFar(p) \cup {entry.uid}
  BY <1>1, <1>2 DEF KeptSoFar
<1>5. ASSUME NEW i
      PROVE  EditsOf(u, i) = IF entry.kind = "update" /\ entry.uid = i
                               THEN EditsOf(p, i) \cup {u.read} ELSE EditsOf(p, i)
  BY <1>1, <1>2 DEF EditsOf
<1>6. ASSUME NEW q
      PROVE  /\ u.read \notin InsertsSoFar(p, q)
             /\ InsertsSoFar(u, q) = IF entry.kind = "insert" /\ entry.quantity = q
                                       THEN InsertsSoFar(p, q) \cup {u.read}
                                       ELSE InsertsSoFar(p, q)
  BY <1>1, <1>2 DEF InsertsSoFar
<1>7. \A i : \A k \in EditsOf(p, i) : k \in Nat /\ k < u.read
  BY <1>2 DEF EditsOf
<1> QED
  BY <1>3, <1>4, <1>5, <1>6, <1>7

(* An object without uid has joined the collection. *)
LEMMA InsertedWhole ==
    ASSUME NEW p \in Process, NEW rows, NEW os, Whole(p, rows, os), p.pc = "read",
           p.answer = "none", p.read < Len(p.body.entries),
           NEW u \in Process, ReadOn(u, p),
           u.loaded = p.loaded, u.memory = p.memory,
           p.body.entries[u.read].kind = "insert",
           u.collection = Append(p.collection, [uid |-> New,
                                                quantity |-> p.body.entries[u.read].quantity])
    PROVE  Whole(u, rows, os)
<1> DEFINE entry == p.body.entries[u.read]
           c == [uid |-> New, quantity |-> entry.quantity]
           n == Len(p.collection) + 1
<1>1. /\ u.read \in 1 .. Len(p.body.entries)
      /\ KeptSoFar(u) = KeptSoFar(p)
      /\ \A i : EditsOf(u, i) = EditsOf(p, i)
      /\ \A q : /\ u.read \notin InsertsSoFar(p, q)
                /\ InsertsSoFar(u, q) = IF entry.quantity = q
                                          THEN InsertsSoFar(p, q) \cup {u.read}
                                          ELSE InsertsSoFar(p, q)
  BY EntryRead
<1>2. /\ DOMAIN u.collection = DOMAIN p.collection \cup {n} /\ n \notin DOMAIN p.collection
      /\ \A k \in DOMAIN p.collection : u.collection[k] = p.collection[k]
      /\ u.collection[n] = c
  <2> DEFINE R == [uid : Items \cup {New}, quantity : Quantities \cup {NotLoaded}]
  <2>1. p.collection \in Seq(R) /\ u.collection = Append(p.collection, c)
        /\ u.collection \in Seq(R)
    BY DEF Process
  <2>2. /\ Len(p.collection) \in Nat /\ DOMAIN p.collection = 1 .. Len(p.collection)
        /\ DOMAIN u.collection = 1 .. Len(u.collection)
    BY CollectionShape
  <2> HIDE DEF R, c
  <2>3. Len(u.collection) = Len(p.collection) + 1
    BY <2>1
  <2>4. \A k \in 1 .. Len(p.collection) : u.collection[k] = p.collection[k]
    BY <2>1
  <2>5. u.collection[n] = c
    BY <2>1
  <2> QED
    BY <2>2, <2>3, <2>4, <2>5
<1>3. c.uid = New /\ c.quantity = entry.quantity
  OBVIOUS
<1> HIDE DEF c, n, entry
<1>4. Collected(u) \ {New} = Collected(p) \ {New}
  BY <1>2, <1>3 DEF Collected
<1>5. ASSUME NEW q
      PROVE  /\ NewOnes(u, q) = IF entry.quantity = q THEN NewOnes(p, q) \cup {n}
                                                      ELSE NewOnes(p, q)
             /\ n \notin NewOnes(p, q)
  BY <1>2, <1>3 DEF NewOnes
<1>6. ASSUME NEW q \in Quantities
      PROVE  Cardinality(NewOnes(u, q)) = Cardinality(InsertsSoFar(u, q))
  <2>1. IsFiniteSet(NewOnes(p, q)) /\ IsFiniteSet(InsertsSoFar(p, q))
    BY NewOnesFinite, InsertsFinite
  <2>2. Cardinality(NewOnes(p, q)) = Cardinality(InsertsSoFar(p, q))
    BY DEF Whole, Reads
  <2>3. Cardinality(NewOnes(p, q) \cup {n}) = Cardinality(NewOnes(p, q)) + 1
    BY <1>5, <2>1, FS_AddElement
  <2>4. Cardinality(InsertsSoFar(p, q) \cup {u.read}) = Cardinality(InsertsSoFar(p, q)) + 1
    BY <1>1, <2>1, FS_AddElement
  <2> QED
    BY <1>1, <1>5, <2>2, <2>3, <2>4
<1>7. Len(p.body.entries) \in Nat
  BY BodyShape DEF Process
<1>8. Reads(u)
  <2>1. u.body = p.body /\ u.related = p.related /\ u.pc = "read"
    BY DEF ReadOn
  <2>2. u.read \in 0 .. Len(u.body.entries)
    BY <1>1, <1>7, <2>1
  <2> QED
    BY <1>1, <1>4, <1>6, <2>1, <2>2 DEF Whole, Reads
<1>9. Fits(p, rows) => Fits(u, rows)
  BY DEF Fits, Unwritten, ReadOn
<1> QED
  BY <1>8, <1>9 DEF Whole, ReadOn

(* An item has been found by its uid, and edited if the entry says so. *)
LEMMA NamedWhole ==
    ASSUME NEW p \in Process, NEW rows, NEW os, Whole(p, rows, os), p.pc = "read",
           p.answer = "none", p.read < Len(p.body.entries),
           NEW u \in Process, ReadOn(u, p),
           NEW i \in Items, p.loaded[i] = NotLoaded => rows[i].quantity # NotLoaded,
           NEW entry, entry = p.body.entries[u.read],
           entry.kind # "insert", entry.uid = i,
           Collected(u) = Collected(p) \cup {i},
           \A q : NewOnes(u, q) = NewOnes(p, q),
           \A l \in Items : u.loaded[l] = IF l = i /\ p.loaded[l] = NotLoaded
                                            THEN rows[l].quantity ELSE p.loaded[l],
           \A l \in Items : u.memory[l] =
               IF l = i /\ entry.kind = "update" THEN entry.quantity
               ELSE IF l = i /\ p.loaded[l] = NotLoaded THEN rows[l].quantity
               ELSE p.memory[l]
    PROVE  Whole(u, rows, os)
<1>1. /\ u.read \in 1 .. Len(p.body.entries)
      /\ KeptSoFar(u) = KeptSoFar(p) \cup {i}
      /\ \A l : EditsOf(u, l) = IF entry.kind = "update" /\ l = i
                                  THEN EditsOf(p, l) \cup {u.read} ELSE EditsOf(p, l)
      /\ \A l : \A k \in EditsOf(p, l) : k \in Nat /\ k < u.read
      /\ \A q : InsertsSoFar(u, q) = InsertsSoFar(p, q)
  BY EntryRead
<1>2. u.body = p.body /\ u.related = p.related /\ u.pc = "read"
  BY DEF ReadOn
<1>3. Len(p.body.entries) \in Nat
  BY BodyShape DEF Process
<1>4. i # New
  BY TableAssumption
<1>5. Reads(p)
  BY DEF Whole
<1>6. \A l \in KeptSoFar(u) \cup u.related : u.loaded[l] # NotLoaded
  <2>1. KeptSoFar(p) \cup p.related \subseteq Items
    <3>1. KeptSoFar(p) \subseteq Collected(p) \ {New}
      BY <1>5 DEF Reads
    <3>2. Collected(p) \subseteq Items \cup {New}
      BY CollectionShape DEF Collected
    <3> QED
      BY <3>1, <3>2 DEF Process
  <2>2. \A l \in KeptSoFar(p) \cup p.related : p.loaded[l] # NotLoaded
    BY <1>5 DEF Reads
  <2> QED
    BY <1>1, <1>2, <2>1, <2>2
<1>7. ASSUME NEW l \in Items
      PROVE  u.memory[l] = IF EditsOf(u, l) = {} THEN u.loaded[l]
                             ELSE u.body.entries[Max(EditsOf(u, l))].quantity
  <2>1. p.memory[l] = IF EditsOf(p, l) = {} THEN p.loaded[l]
                        ELSE p.body.entries[Max(EditsOf(p, l))].quantity
    BY <1>5 DEF Reads
  <2>2. CASE l = i /\ entry.kind = "update"
    <3>1. Max(EditsOf(u, l)) = u.read
      <4>1. u.read \in EditsOf(u, l)
        BY <1>1, <2>2
      <4>2. u.read \in Int /\ EditsOf(u, l) \subseteq Int
        BY <1>1, <2>2
      <4>3. \A k \in EditsOf(u, l) : u.read >= k
        BY <1>1, <2>2, <4>2
      <4> QED
        BY <4>1, <4>2, <4>3, MaxIs
    <3> QED
      BY <1>1, <1>2, <2>2, <3>1
  <2>3. CASE l = i /\ entry.kind # "update" /\ p.loaded[l] = NotLoaded
    <3>1. EditsOf(p, l) = {}
      <4>1. l \notin KeptSoFar(p)
        BY <1>5, <2>3 DEF Reads
      <4> QED
        BY <4>1 DEF EditsOf, KeptSoFar
    <3> QED
      BY <1>1, <2>3, <3>1
  <2>4. CASE ~(l = i /\ (entry.kind = "update" \/ p.loaded[l] = NotLoaded))
    BY <1>1, <1>2, <2>1, <2>4
  <2> QED
    BY <2>2, <2>3, <2>4
<1>8. Collected(u) \ {New} = KeptSoFar(u)
  BY <1>1, <1>4, <1>5 DEF Reads
<1>9. Reads(u)
  <2>1. u.read \in 0 .. Len(u.body.entries)
    BY <1>1, <1>2, <1>3
  <2>2. \A q \in Quantities : Cardinality(NewOnes(u, q)) = Cardinality(InsertsSoFar(u, q))
    BY <1>1, <1>5 DEF Reads
  <2> QED
    BY <1>2, <1>6, <1>7, <1>8, <2>1, <2>2 DEF Reads
<1>10. Fits(p, rows) => Fits(u, rows)
  <2> SUFFICES ASSUME Fits(p, rows) PROVE Fits(u, rows)
    OBVIOUS
  <2>1. Unwritten(p, rows)
    BY DEF Fits
  <2>2. Unwritten(u, rows)
    BY <2>1 DEF Unwritten, ReadOn
  <2> QED
    BY <2>2 DEF Fits, ReadOn
<1> QED
  BY <1>9, <1>10 DEF Whole, ReadOn

(* The object of an item that is found joins the collection, ... *)
LEMMA FetchedIs ==
    ASSUME TablesOK, NEW p \in Process, NEW i \in Items, Found(p, i), NEW f, f = Fetched(p, i)
    PROVE  /\ f \in Process
           /\ p.loaded[i] = NotLoaded => items[i].quantity \in Quantities
           /\ f.method = p.method /\ f.body = p.body /\ f.related = p.related
           /\ f.order = p.order /\ f.pc = p.pc /\ f.answer = p.answer
           /\ f.disturbed = p.disturbed /\ f.read = p.read /\ f.collection = p.collection
           /\ f.fresh = p.fresh
           /\ \A l \in Items :
                /\ f.loaded[l] = IF l = i /\ p.loaded[l] = NotLoaded
                                   THEN items[l].quantity ELSE p.loaded[l]
                /\ f.memory[l] = IF l = i /\ p.loaded[l] = NotLoaded
                                   THEN items[l].quantity ELSE p.memory[l]
<1>1. CASE p.loaded[i] # NotLoaded
  BY <1>1 DEF Fetched
<1>2. CASE p.loaded[i] = NotLoaded
  <2>1. items[i].quantity \in Quantities
    <3>1. items[i] \in {Unused} \cup Item /\ items[i].stored
      BY <1>2 DEF Found, TablesOK
    <3>2. items[i] # Unused
      BY <3>1 DEF Unused
    <3> QED
      BY <3>1, <3>2 DEF Item
  <2>2. f = [p EXCEPT !.loaded[i] = items[i].quantity, !.memory[i] = items[i].quantity]
    BY <1>2 DEF Fetched
  <2>3. [p EXCEPT !.loaded[i] = items[i].quantity, !.memory[i] = items[i].quantity] \in Process
    BY <2>1 DEF Process
  <2> QED
    BY <1>2, <2>1, <2>2, <2>3 DEF Process
<1> QED
  BY <1>1, <1>2

Attached(a, f, i) ==
    /\ a \in Process
    /\ a.method = f.method /\ a.body = f.body /\ a.related = f.related
    /\ a.order = f.order /\ a.pc = f.pc /\ a.answer = f.answer
    /\ a.disturbed = f.disturbed /\ a.read = f.read
    /\ a.loaded = f.loaded /\ a.memory = f.memory /\ a.fresh = f.fresh
    /\ Collected(a) = Collected(f) \cup {i}
    /\ \A q : NewOnes(a, q) = NewOnes(f, q)

LEMMA AttachedIs ==
    ASSUME NEW f \in Process, NEW i \in Items
    PROVE  Attached(attach(f, i), f, i)
<1> DEFINE a == attach(f, i)
<1>1. CASE \E k \in DOMAIN f.collection : f.collection[k].uid = i
  <2>1. a = f
    BY <1>1 DEF attach
  <2>2. i \in Collected(f)
    BY <1>1 DEF Collected
  <2> QED
    BY <2>1, <2>2 DEF Attached
<1>2. CASE ~\E k \in DOMAIN f.collection : f.collection[k].uid = i
  <2> DEFINE c == [uid |-> i, quantity |-> NotLoaded]
             n == Len(f.collection) + 1
             R == [uid : Items \cup {New}, quantity : Quantities \cup {NotLoaded}]
  <2>1. a = [f EXCEPT !.collection = Append(@, c)]
    BY <1>2 DEF attach
  <2>2. c \in R /\ c.uid = i
    OBVIOUS
  <2>3. f.collection \in Seq(R)
    BY DEF Process
  <2>4. /\ a.method = f.method /\ a.body = f.body /\ a.related = f.related
        /\ a.order = f.order /\ a.pc = f.pc /\ a.answer = f.answer
        /\ a.disturbed = f.disturbed /\ a.read = f.read
        /\ a.loaded = f.loaded /\ a.memory = f.memory /\ a.fresh = f.fresh
        /\ a.collection = Append(f.collection, c)
    BY <2>1 DEF Process
  <2>5. a \in Process
    <3>1. Append(f.collection, c) \in Seq(R)
      BY <2>2, <2>3
    <3>2. \A s \in Seq(R) : [f EXCEPT !.collection = s] \in Process
      BY DEF Process
    <3> QED
      BY <2>1, <3>1, <3>2
  <2>6. Len(f.collection) \in Nat /\ DOMAIN f.collection = 1 .. Len(f.collection)
    BY CollectionShape
  <2> HIDE DEF R, c, a
  <2>7. /\ DOMAIN a.collection = DOMAIN f.collection \cup {n} /\ a.collection[n] = c
        /\ \A k \in DOMAIN f.collection : a.collection[k] = f.collection[k]
        /\ n \notin DOMAIN f.collection
    <3>1. DOMAIN a.collection = 1 .. n /\ a.collection[n] = c
      BY <2>2, <2>3, <2>4
    <3>2. \A k \in 1 .. Len(f.collection) : a.collection[k] = f.collection[k]
      BY <2>2, <2>3, <2>4
    <3> QED
      BY <2>6, <3>1, <3>2
  <2> HIDE DEF n
  <2>8. Collected(a) = Collected(f) \cup {i}
    BY <2>2, <2>7 DEF Collected
  <2>9. \A q : NewOnes(a, q) = NewOnes(f, q)
    BY <2>2, <2>7, TableAssumption DEF NewOnes
  <2> QED
    BY <2>4, <2>5, <2>8, <2>9 DEF Attached, a
<1> QED
  BY <1>1, <1>2

(* ... and the process has read on. *)
LEMMA FoundReadOn ==
    ASSUME TablesOK, NEW p \in Process, NEW i \in Items, Found(p, i),
           NEW a, a = attach(Fetched([p EXCEPT !.read = @ + 1], i), i)
    PROVE  /\ a \in Process /\ ReadOn(a, p)
           /\ p.loaded[i] = NotLoaded => items[i].quantity \in Quantities
           /\ Collected(a) = Collected(p) \cup {i}
           /\ \A q : NewOnes(a, q) = NewOnes(p, q)
           /\ \A l \in Items :
                /\ a.loaded[l] = IF l = i /\ p.loaded[l] = NotLoaded
                                   THEN items[l].quantity ELSE p.loaded[l]
                /\ a.memory[l] = IF l = i /\ p.loaded[l] = NotLoaded
                                   THEN items[l].quantity ELSE p.memory[l]
<1> DEFINE r == [p EXCEPT !.read = @ + 1]
           f == Fetched(r, i)
<1>1. /\ r \in Process
      /\ r.method = p.method /\ r.body = p.body /\ r.related = p.related
      /\ r.order = p.order /\ r.pc = p.pc /\ r.answer = p.answer /\ r.disturbed = p.disturbed
      /\ r.read = p.read + 1 /\ r.collection = p.collection
      /\ r.loaded = p.loaded /\ r.memory = p.memory /\ r.fresh = p.fresh
  <2>1. p.read + 1 \in Nat
    BY DEF Process
  <2> QED
    BY <2>1 DEF Process
<1>2. Found(r, i)
  BY <1>1 DEF Found
<1>3. a = attach(f, i)
  OBVIOUS
<1> HIDE DEF r
<1>4. /\ f \in Process
      /\ r.loaded[i] = NotLoaded => items[i].quantity \in Quantities
      /\ f.method = r.method /\ f.body = r.body /\ f.related = r.related
      /\ f.order = r.order /\ f.pc = r.pc /\ f.answer = r.answer
      /\ f.disturbed = r.disturbed /\ f.read = r.read /\ f.collection = r.collection
      /\ f.fresh = r.fresh
      /\ \A l \in Items :
           /\ f.loaded[l] = IF l = i /\ r.loaded[l] = NotLoaded
                              THEN items[l].quantity ELSE r.loaded[l]
           /\ f.memory[l] = IF l = i /\ r.loaded[l] = NotLoaded
                              THEN items[l].quantity ELSE r.memory[l]
  BY <1>1, <1>2, FetchedIs
<1> HIDE DEF f
<1>5. Attached(a, f, i)
  <2>1. f \in Process
    BY <1>4
  <2> QED
    BY <1>3, <2>1, AttachedIs
<1>6. Collected(f) = Collected(p) /\ \A q : NewOnes(f, q) = NewOnes(p, q)
  BY <1>1, <1>4 DEF Collected, NewOnes
<1>7. ReadOn(a, p)
  BY <1>1, <1>4, <1>5 DEF ReadOn, Attached
<1> QED
  BY <1>1, <1>4, <1>5, <1>6, <1>7 DEF Attached

LEMMA ReadEntryOwned ==
    ASSUME Inv, Owned, NEW w \in Workers, ReadEntry(w)
    PROVE  Owned'
<1> DEFINE p == process[w]
           r == [p EXCEPT !.read = @ + 1]
           entry == p.body.entries[p.read + 1]
<1>1. /\ Whole(p, items, orders) /\ p \in Process /\ TablesOK
      /\ Clean(p)
  BY DEF Inv, Owned, Good, Typed
<1>2. /\ r.read = p.read + 1 /\ r.body = p.body /\ r.pc = p.pc /\ r.loaded = p.loaded
      /\ r.collection = p.collection /\ r \in Process
  <2>1. p.read + 1 \in Nat
    BY <1>1 DEF Process
  <2> QED
    BY <1>1, <2>1 DEF Process
<1>3. /\ p.pc = "read" /\ p.read + 1 <= Len(p.body.entries)
      /\ \/ entry.kind = "relate" /\ Relate(w, r, entry)
         \/ entry.kind = "insert" /\ processCascadeInsert(w, r, entry)
         \/ entry.kind = "update" /\ processCascadeUpdate(w, r, entry)
         \/ Refuse(w)
  BY <1>2 DEF ReadEntry
<1>4. p.answer = "none" /\ p.read \in Nat /\ p.read < Len(p.body.entries)
  <2>1. p.read \in Nat /\ Len(p.body.entries) \in Nat
    BY <1>1, BodyShape DEF Process
  <2> QED
    BY <1>1, <1>3, <2>1 DEF Clean
<1>5. UNCHANGED <<orders, items>>
  BY <1>3 DEF Relate, processCascadeInsert, processCascadeUpdate, Refuse
<1>6. p.read + 1 \in DOMAIN p.body.entries
  BY <1>1, <1>4, BodyShape DEF Process
<1>7. /\ entry.kind # "insert" => entry.uid \in Items
      /\ entry.kind = "insert" => entry.quantity \in Quantities
      /\ entry.kind = "update" => entry.quantity \in Quantities
  BY <1>1, <1>6, BodyShape DEF Process
<1>8. CASE Refuse(w)
  <2>1. Whole([p EXCEPT !.pc = "answered", !.answer = "refused"], items, orders)
    BY <1>1, AnsweredWhole
  <2> QED
    BY <1>5, <1>8, <2>1, BecomeOwned DEF Refuse
<1>9. CASE entry.kind = "insert" /\ processCascadeInsert(w, r, entry)
  <2> DEFINE c == [uid |-> New, quantity |-> entry.quantity]
             u == [r EXCEPT !.collection = Append(@, c)]
             R == [uid : Items \cup {New}, quantity : Quantities \cup {NotLoaded}]
  <2>1. Become(w, u)
    BY <1>9 DEF processCascadeInsert
  <2>2. c \in R
    BY <1>7, <1>9
  <2>3. p.collection \in Seq(R)
    BY <1>1 DEF Process
  <2>4. Append(p.collection, c) \in Seq(R)
    BY <2>2, <2>3
  <2>5. u = [r EXCEPT !.collection = Append(p.collection, c)]
    BY <1>2
  <2>6. \A s \in Seq(R) : [r EXCEPT !.collection = s] \in Process
    <3> HIDE DEF r
    <3> QED
      BY <1>2 DEF Process
  <2>7. u \in Process
    BY <2>4, <2>5, <2>6
  <2>8. /\ ReadOn(u, p) /\ u.loaded = p.loaded /\ u.memory = p.memory
        /\ u.collection = Append(p.collection, c) /\ u.read = p.read + 1
    BY <1>1 DEF ReadOn, Process
  <2> HIDE DEF u, R, r
  <2>9. Whole(u, items, orders)
    BY <1>1, <1>3, <1>4, <1>9, <2>7, <2>8, InsertedWhole
  <2> QED
    BY <1>5, <2>1, <2>9, BecomeOwned
<1>10. CASE entry.kind = "relate" /\ Relate(w, r, entry)
  <2> DEFINE i == entry.uid
             a == attach(Fetched(r, i), i)
  <2>1. Found(p, i) /\ Become(w, a) /\ i \in Items
    BY <1>2, <1>7, <1>10 DEF Relate, Found
  <2> HIDE DEF i
  <2>2. /\ a \in Process /\ ReadOn(a, p)
        /\ p.loaded[i] = NotLoaded => items[i].quantity \in Quantities
        /\ Collected(a) = Collected(p) \cup {i}
        /\ \A q : NewOnes(a, q) = NewOnes(p, q)
        /\ \A l \in Items :
             /\ a.loaded[l] = IF l = i /\ p.loaded[l] = NotLoaded
                                THEN items[l].quantity ELSE p.loaded[l]
             /\ a.memory[l] = IF l = i /\ p.loaded[l] = NotLoaded
                                THEN items[l].quantity ELSE p.memory[l]
    BY <1>1, <2>1, FoundReadOn
  <2> HIDE DEF a, r
  <2>3. entry = p.body.entries[a.read] /\ entry.uid = i /\ entry.kind = "relate"
    BY <1>10, <2>2 DEF ReadOn, i
  <2>4. p.loaded[i] = NotLoaded => items[i].quantity # NotLoaded
    BY <2>2, TableAssumption
  <2> HIDE DEF entry, p
  <2>5. Whole(a, items, orders)
    BY <1>1, <1>3, <1>4, <2>1, <2>2, <2>3, <2>4, NamedWhole
  <2> QED
    BY <1>5, <2>1, <2>5, BecomeOwned
<1>11. CASE entry.kind = "update" /\ processCascadeUpdate(w, r, entry)
  <2> DEFINE i == entry.uid
             a == attach(Fetched(r, i), i)
             u == [a EXCEPT !.memory[i] = entry.quantity]
  <2>1. Found(p, i) /\ Become(w, u) /\ i \in Items
    BY <1>2, <1>7, <1>11 DEF processCascadeUpdate, Found
  <2> HIDE DEF i
  <2>2. /\ a \in Process /\ ReadOn(a, p)
        /\ p.loaded[i] = NotLoaded => items[i].quantity \in Quantities
        /\ Collected(a) = Collected(p) \cup {i}
        /\ \A q : NewOnes(a, q) = NewOnes(p, q)
        /\ \A l \in Items :
             /\ a.loaded[l] = IF l = i /\ p.loaded[l] = NotLoaded
                                THEN items[l].quantity ELSE p.loaded[l]
             /\ a.memory[l] = IF l = i /\ p.loaded[l] = NotLoaded
                                THEN items[l].quantity ELSE p.memory[l]
    BY <1>1, <2>1, FoundReadOn
  <2> HIDE DEF a, r
  <2>3. /\ u \in Process /\ ReadOn(u, p) /\ u.loaded = a.loaded /\ u.collection = a.collection
        /\ \A l \in Items : u.memory[l] = IF l = i THEN entry.quantity ELSE a.memory[l]
    <3>1. entry.quantity \in Quantities
      BY <1>7, <1>11
    <3> HIDE DEF entry, p
    <3> QED
      BY <2>1, <2>2, <3>1 DEF ReadOn, Process
  <2> HIDE DEF u
  <2>4. Collected(u) = Collected(p) \cup {i} /\ \A q : NewOnes(u, q) = NewOnes(p, q)
    BY <2>2, <2>3 DEF Collected, NewOnes
  <2>5. entry = p.body.entries[u.read] /\ entry.uid = i /\ entry.kind = "update"
    BY <1>11, <2>3 DEF ReadOn, i
  <2>6. p.loaded[i] = NotLoaded => items[i].quantity # NotLoaded
    BY <2>2, TableAssumption
  <2> HIDE DEF entry, p
  <2>7. /\ \A l \in Items : u.loaded[l] = IF l = i /\ p.loaded[l] = NotLoaded
                                            THEN items[l].quantity ELSE p.loaded[l]
        /\ \A l \in Items : u.memory[l] =
               IF l = i /\ entry.kind = "update" THEN entry.quantity
               ELSE IF l = i /\ p.loaded[l] = NotLoaded THEN items[l].quantity
               ELSE p.memory[l]
    BY <2>2, <2>3, <2>5
  <2>8. Whole(u, items, orders)
    BY <1>1, <1>3, <1>4, <2>1, <2>3, <2>4, <2>5, <2>6, <2>7, NamedWhole
  <2> QED
    BY <1>5, <2>1, <2>8, BecomeOwned
<1> QED
  BY <1>3, <1>8, <1>9, <1>10, <1>11

-----------------------------------------------------------------------------
(* persistAll: what has been written *)

(* What a process knows are stored items. *)
LEMMA KnownStored ==
    ASSUME NEW p, NEW S, Good(p, S), Reads(p)
    PROVE  /\ Known(p) \subseteq Items /\ Known(p) \subseteq S
           /\ New \notin Known(p) /\ p.related \subseteq Known(p)
           /\ \A k \in DOMAIN p.collection :
                p.collection[k].uid # New => p.collection[k].uid \in KeptSoFar(p)
<1>1. p \in Process
  BY DEF Good, Typed
<1>2. KeptSoFar(p) = Collected(p) \ {New}
  BY DEF Reads
<1>3. Collected(p) \subseteq Items \cup {New}
  BY <1>1, CollectionShape DEF Collected
<1>4. p.related \subseteq Items
  BY <1>1 DEF Process
<1>5. KeptSoFar(p) \subseteq S
  BY <1>2 DEF Collected, Good, Knows
<1>6. p.related \subseteq S
  BY DEF Good, Knows
<1> QED
  BY <1>2, <1>3, <1>4, <1>5, <1>6, TableAssumption DEF Known, Collected

(* A process with its plan before the first statement. *)
LEMMA PlannedFits ==
    ASSUME NEW p, NEW S, Good(p, S), Reads(p), NEW rows, Unwritten(p, rows),
           NEW q, Alike(q, p), q.pc = "persist", q.order = p.order, q.answer = "none",
           q.fresh = p.fresh, q.removed = Removed(p),
           q.relating = {k \in DOMAIN p.collection : p.collection[k].uid \notin p.related},
           q.editing = {k \in DOMAIN p.collection :
                           /\ p.collection[k].uid # New
                           /\ p.memory[p.collection[k].uid] # p.loaded[p.collection[k].uid]}
    PROVE  Fits(q, rows)
<1>1. /\ Known(q) = Known(p) /\ Removed(q) = Removed(p)
      /\ \A n : NewOnes(q, n) = NewOnes(p, n)
  BY AlikeSame
<1>2. /\ Known(p) \subseteq Items /\ New \notin Known(p) /\ p.related \subseteq Known(p)
  BY KnownStored
<1>3. Edited(q, rows)
  <2> SUFFICES ASSUME NEW i \in Known(p)
               PROVE  rows[i].quantity = IF \E k \in q.editing : p.collection[k].uid = i
                                           THEN p.loaded[i] ELSE p.memory[i]
    BY <1>1 DEF Edited, Alike
  <2>1. p.loaded[i] # NotLoaded /\ rows[i].quantity = p.loaded[i] /\ i \in Items
    BY <1>2 DEF Reads, Known, Unwritten
  <2>2. CASE i \in KeptSoFar(p)
    <3>1. PICK k \in DOMAIN p.collection : p.collection[k].uid = i
      BY <2>2 DEF Reads, Collected
    <3>2. i # New
      BY <1>2
    <3> QED
      BY <2>1, <3>1, <3>2
  <2>3. CASE i \notin KeptSoFar(p)
    <3>1. EditsOf(p, i) = {}
      BY <2>3 DEF EditsOf, KeptSoFar
    <3>2. p.memory[i] = p.loaded[i]
      BY <2>1, <3>1 DEF Reads
    <3> QED
      BY <2>1, <3>2
  <2> QED
    BY <2>2, <2>3
<1>4. p.order = NoOrder => Unbegun(q)
  BY DEF Unbegun, Unwritten, Alike, Removed
<1>5. ASSUME p.order # NoOrder
      PROVE  Begun(q, rows)
  <2>1. p.related = {i \in Items : rows[i].order = p.order}
    BY <1>5 DEF Unwritten
  <2>2. ASSUME NEW n \in Quantities
        PROVE  /\ IsFiniteSet(Extra(q, rows, n))
               /\ Cardinality(Extra(q, rows, n)) = Cardinality(NewOnes(q, n) \ q.relating)
    <3>1. Extra(q, rows, n) = {}
      BY <1>1, <1>2, <2>1 DEF Extra
    <3>2. NewOnes(q, n) \ q.relating = {}
      BY <1>1, <1>2 DEF NewOnes
    <3> QED
      BY <3>1, <3>2, FS_EmptySet
  <2>3. q.fresh = New
    BY DEF Unwritten
  <2>4. q.removed = Removed(q) /\ q.related = p.related /\ q.collection = p.collection
    BY <1>1 DEF Alike
  <2>5. \A i \in q.related : rows[i].order = q.order
    BY <2>1, <2>4
  <2> QED
    BY <2>2, <2>3, <2>4, <2>5 DEF Begun
<1> QED
  BY <1>3, <1>4, <1>5 DEF Fits

LEMMA ValidateOwned ==
    ASSUME Inv, Owned, NEW w \in Workers, Validate(w)
    PROVE  Owned'
<1> DEFINE p == process[w]
           relating == {k \in DOMAIN p.collection : p.collection[k].uid \notin p.related}
           editing == {k \in DOMAIN p.collection :
                         /\ p.collection[k].uid # New
                         /\ p.memory[p.collection[k].uid] # p.loaded[p.collection[k].uid]}
           q == [p EXCEPT !.pc = "persist", !.removed = Removed(p), !.relating = relating,
                          !.editing = editing]
<1>1. /\ Good(p, Stored) /\ p \in Process /\ Whole(p, items, orders)
  BY DEF Inv, Owned, Good, Typed
<1>2. /\ p.pc = "read" /\ p.read = Len(p.body.entries) /\ UNCHANGED <<orders, items>>
      /\ Refuse(w) \/ Become(w, q)
  BY DEF Validate, Refuse
<1>3. CASE Refuse(w)
  <2>1. Whole([p EXCEPT !.pc = "answered", !.answer = "refused"], items, orders)
    BY <1>1, AnsweredWhole
  <2> QED
    BY <1>2, <1>3, <2>1, BecomeOwned DEF Refuse
<1>4. CASE Become(w, q)
  <2>1. /\ Alike(q, p) /\ q.pc = "persist" /\ q.order = p.order /\ q.answer = p.answer
        /\ q.fresh = p.fresh /\ q.removed = Removed(p) /\ q.disturbed = p.disturbed
        /\ q.relating = relating /\ q.editing = editing
    BY <1>1 DEF Process, Alike
  <2>2. p.answer = "none"
    BY <1>1, <1>2 DEF Good, Clean
  <2>3. Reads(q)
    BY <1>1, <1>2, <2>1, AlikeReads DEF Whole
  <2>4. ~p.disturbed => Unwritten(p, items)
    BY <1>1, <1>2 DEF Whole, Fits
  <2>5. Reads(p)
    BY <1>1 DEF Whole
  <2> HIDE DEF q
  <2>6. ~p.disturbed => Fits(q, items)
    BY <1>1, <2>1, <2>2, <2>4, <2>5, PlannedFits
  <2>7. Whole(q, items, orders)
    BY <1>1, <2>1, <2>3, <2>6 DEF Whole
  <2> QED
    BY <1>2, <1>4, <2>7, BecomeOwned
<1> QED
  BY <1>2, <1>3, <1>4

(* A process after a statement. *)
LEMMA ProceededOwned ==
    ASSUME Inv, Owned, NEW w \in Workers, NEW p, p = process[w], p.pc = "persist",
           NEW q \in Process, Wrote(w, q), Alike(q, p), q.pc = "persist",
           q.answer = p.answer, q.disturbed = p.disturbed,
           q.order \in orders' \cup {NoOrder}, orders \subseteq orders',
           \A i \in Items : items'[i].order \in orders' \cup {NoOrder},
           ~p.disturbed => /\ Edited(q, items')
                           /\ q.order = NoOrder => Unbegun(q)
                           /\ q.order # NoOrder => Begun(q, items')
    PROVE  Owned'
<1>1. Whole(p, items, orders) /\ Clean(p)
  BY DEF Inv, Owned, Good
<1>2. Reads(q)
  <2>1. Reads(p)
    BY <1>1 DEF Whole
  <2>2. p.read = Len(p.body.entries)
    BY <2>1 DEF Reads
  <2> QED
    BY <2>1, <2>2, AlikeReads
<1>3. q.answer = "none"
  BY <1>1 DEF Clean
<1>4. ~q.disturbed => Fits(q, items')
  BY <1>3 DEF Fits
<1>5. Whole(q, items', orders')
  BY <1>2, <1>4 DEF Whole
<1> QED
  BY <1>5, WroteOwned

(* What a process in persistAll has to go by. *)
LEMMA Persisting ==
    ASSUME Inv, Owned, NEW w \in Workers, process[w].pc = "persist"
    PROVE  LET p == process[w]
           IN  /\ p \in Process /\ Good(p, Stored) /\ Reads(p)
               /\ p.read = Len(p.body.entries)
               /\ p.order \in orders \cup {NoOrder}
               /\ Known(p) \subseteq Items /\ Known(p) \subseteq Stored
               /\ New \notin Known(p) /\ p.related \subseteq Known(p)
               /\ \A k \in DOMAIN p.collection :
                    p.collection[k].uid # New => p.collection[k].uid \in Known(p)
               /\ DOMAIN p.collection \subseteq Nat
               /\ p.relating \subseteq DOMAIN p.collection
               /\ p.editing \subseteq DOMAIN p.collection
               /\ ~p.disturbed => /\ Edited(p, items)
                                  /\ p.order = NoOrder => Unbegun(p)
                                  /\ p.order # NoOrder => Begun(p, items)
<1> DEFINE p == process[w]
<1>1. Good(p, Stored) /\ Whole(p, items, orders)
  BY DEF Inv, Owned
<1>2. p \in Process /\ p.relating \subseteq DOMAIN p.collection
      /\ p.editing \subseteq DOMAIN p.collection
  BY <1>1 DEF Good, Typed
<1>3. DOMAIN p.collection \subseteq Nat
  BY <1>2, CollectionShape
<1>4. Reads(p) /\ p.read = Len(p.body.entries) /\ p.order \in orders \cup {NoOrder}
  BY <1>1 DEF Whole, Reads
<1>5. /\ Known(p) \subseteq Items /\ Known(p) \subseteq Stored
      /\ New \notin Known(p) /\ p.related \subseteq Known(p)
      /\ \A k \in DOMAIN p.collection :
           p.collection[k].uid # New => p.collection[k].uid \in KeptSoFar(p)
  BY <1>1, <1>4, KnownStored
<1>6. KeptSoFar(p) \subseteq Known(p)
  BY DEF Known
<1>7. ~p.disturbed => /\ Edited(p, items)
                      /\ p.order = NoOrder => Unbegun(p)
                      /\ p.order # NoOrder => Begun(p, items)
  BY <1>1 DEF Whole, Fits
<1> QED
  BY <1>1, <1>2, <1>3, <1>4, <1>5, <1>6, <1>7

(* The order has been inserted: no item belongs to it yet. *)
LEMMA InsertOrderOwned ==
    ASSUME Inv, Owned, NEW w \in Workers, process[w].pc = "persist", InsertOrder(w, process[w])
    PROVE  Owned'
<1> DEFINE p == process[w]
<1>1. PICK o \in Orders \ orders :
         orders' = orders \cup {o} /\ Wrote(w, [p EXCEPT !.order = o])
  BY DEF InsertOrder
<1> DEFINE q == [p EXCEPT !.order = o]
<1>2. /\ p \in Process /\ New \notin Known(p) /\ p.order = NoOrder /\ items' = items
      /\ ~p.disturbed => Edited(p, items) /\ Unbegun(p)
  BY Persisting DEF InsertOrder
<1>3. /\ q \in Process /\ Alike(q, p) /\ q.pc = p.pc /\ q.answer = p.answer
      /\ q.disturbed = p.disturbed /\ q.order = o /\ q.removed = p.removed
      /\ q.relating = p.relating /\ q.fresh = p.fresh /\ q.editing = p.editing
  BY <1>2 DEF Process, Alike
<1>4. o # NoOrder
  BY TableAssumption
<1>5. Wrote(w, q)
  BY <1>1
<1>6. \A i \in Items : items[i].order \in orders \cup {NoOrder}
  BY DEF Owned
<1> HIDE DEF p, q
<1>7. /\ Known(q) = Known(p) /\ Removed(q) = Removed(p)
      /\ \A n : NewOnes(q, n) = NewOnes(p, n)
  BY <1>3, AlikeSame
<1>8. ASSUME ~p.disturbed
      PROVE  Edited(q, items') /\ Begun(q, items')
  <2>1. Edited(q, items')
    BY <1>2, <1>3, <1>7, <1>8 DEF Edited, Alike
  <2>2. /\ q.related = {} /\ q.removed = {} /\ q.fresh = New
        /\ q.relating = DOMAIN q.collection /\ q.collection = p.collection
    BY <1>2, <1>3, <1>8 DEF Unbegun, Alike
  <2>3. ASSUME NEW n \in Quantities
        PROVE  /\ IsFiniteSet(Extra(q, items', n))
               /\ Cardinality(Extra(q, items', n)) = Cardinality(NewOnes(q, n) \ q.relating)
    <3>1. Extra(q, items', n) = {}
      BY <1>2, <1>3, <1>4, <1>6 DEF Extra
    <3>2. NewOnes(q, n) \ q.relating = {}
      BY <2>2 DEF NewOnes
    <3> QED
      BY <3>1, <3>2, FS_EmptySet
  <2> QED
    BY <2>1, <2>2, <2>3 DEF Begun
<1>9. \A i \in Items : items'[i].order \in orders' \cup {NoOrder}
  BY <1>1, <1>2, <1>6
<1>10. q.order \in orders' \cup {NoOrder} /\ orders \subseteq orders'
  BY <1>1, <1>3
<1> QED
  BY <1>3, <1>4, <1>5, <1>8, <1>9, <1>10, ProceededOwned DEF p

(* A removed item leaves the order. *)
LEMMA DetachOwned ==
    ASSUME Inv, Owned, NEW w \in Workers, process[w].pc = "persist", Detach(w, process[w])
    PROVE  Owned'
<1> DEFINE p == process[w]
<1>1. PICK i \in p.removed :
         /\ items' = [items EXCEPT ![i].order = NoOrder]
         /\ Wrote(w, [p EXCEPT !.removed = @ \ {i}])
  BY DEF Detach
<1> DEFINE q == [p EXCEPT !.removed = @ \ {i}]
<1>2. /\ p \in Process /\ p.order \in orders \cup {NoOrder} /\ p.order # NoOrder
      /\ orders' = orders /\ Known(p) \subseteq Items /\ p.related \subseteq Known(p)
      /\ ~p.disturbed => Edited(p, items) /\ Begun(p, items)
  BY Persisting DEF Detach
<1>3. p.removed \subseteq p.related
  BY DEF Inv, Good, Plans
<1>4. /\ q \in Process /\ Alike(q, p) /\ q.pc = p.pc /\ q.answer = p.answer
      /\ q.disturbed = p.disturbed /\ q.order = p.order /\ q.removed = p.removed \ {i}
      /\ q.relating = p.relating /\ q.fresh = p.fresh /\ q.editing = p.editing
  BY <1>2 DEF Process, Alike
<1>5. Wrote(w, q)
  BY <1>1
<1>6. \A l \in Items : items[l].order \in orders \cup {NoOrder}
  BY DEF Owned
<1>7. i \in p.related /\ i \in p.removed /\ i \in Known(p)
  BY <1>2, <1>3
<1>8. /\ items \in [Items -> {Unused} \cup Item] /\ i \in Items
  BY <1>2, <1>7 DEF Inv, TablesOK
<1>9. \A l \in Items : /\ items'[l].quantity = items[l].quantity
                       /\ items'[l].order = IF l = i THEN NoOrder ELSE items[l].order
  BY <1>1, <1>8 DEF Unused, Item
<1> HIDE DEF p, q
<1>10. /\ Known(q) = Known(p) /\ Removed(q) = Removed(p)
       /\ \A n : NewOnes(q, n) = NewOnes(p, n)
  BY <1>4, AlikeSame
<1>11. ASSUME ~p.disturbed
       PROVE  Edited(q, items') /\ Begun(q, items')
  <2>1. Edited(q, items')
    BY <1>2, <1>4, <1>9, <1>10, <1>11 DEF Edited, Alike
  <2>2. Begun(p, items)
    BY <1>2, <1>11
  <2>3. /\ q.related = p.related /\ q.collection = p.collection
    BY <1>4 DEF Alike
  <2>4. i \in Removed(p)
    BY <1>7, <2>2 DEF Begun
  <2>6. \A l \in q.related :
          items'[l].order = q.order <=> l \notin Removed(q) \/ l \in q.removed
    BY <1>2, <1>4, <1>9, <1>10, <2>2, <2>3, <2>4 DEF Begun
  <2>7. ASSUME NEW k \in DOMAIN q.collection, q.collection[k].uid # New,
               q.collection[k].uid \notin q.related, k \notin q.relating
        PROVE  items'[q.collection[k].uid].order = q.order
    <3>1. q.collection[k].uid \in Items
      BY <1>4, <2>7, CollectionShape
    <3> QED
      BY <1>4, <1>7, <1>9, <2>2, <2>3, <2>7, <3>1 DEF Begun
  <2>8. \A n \in Quantities : Extra(q, items', n) = Extra(p, items, n)
    BY <1>4, <1>7, <1>9, <1>10 DEF Extra
  <2>9. q.fresh # New =>
          /\ q.fresh \notin Known(q) /\ items'[q.fresh].order = NoOrder
          /\ \E k \in q.relating : /\ First(q.relating, k)
                                   /\ q.collection[k].uid = New
                                   /\ items'[q.fresh].quantity = q.collection[k].quantity
    <3>1. q.fresh # New => q.fresh \in Items
      BY <1>4 DEF Process
    <3> QED
      BY <1>4, <1>9, <1>10, <2>2, <2>3, <3>1 DEF Begun
  <2>10. /\ q.removed \subseteq Removed(q)
         /\ \A k \in q.relating : q.collection[k].uid \notin q.related
    BY <1>4, <1>10, <2>2, <2>3 DEF Begun
  <2>11. \A n \in Quantities :
           /\ IsFiniteSet(Extra(q, items', n))
           /\ Cardinality(Extra(q, items', n)) = Cardinality(NewOnes(q, n) \ q.relating)
    BY <1>4, <1>10, <2>2, <2>8 DEF Begun
  <2> QED
    BY <2>1, <2>6, <2>7, <2>9, <2>10, <2>11 DEF Begun
<1>12. \A l \in Items : items'[l].order \in orders' \cup {NoOrder}
  BY <1>2, <1>6, <1>9
<1>13. q.order \in orders' \cup {NoOrder} /\ orders \subseteq orders'
  BY <1>2, <1>4
<1> QED
  BY <1>2, <1>4, <1>5, <1>11, <1>12, <1>13, ProceededOwned DEF p

(* A new item is inserted, which does not belong to the order yet. *)
LEMMA InsertItemOwned ==
    ASSUME Inv, Owned, NEW w \in Workers, process[w].pc = "persist", InsertItem(w, process[w])
    PROVE  Owned'
<1> DEFINE p == process[w]
<1>1. PICK k \in p.relating, i \in Items :
         /\ First(p.relating, k)
         /\ p.collection[k].uid = New
         /\ ~items[i].stored
         /\ items' = [items EXCEPT ![i] = [stored |-> TRUE, order |-> NoOrder,
                                           quantity |-> p.collection[k].quantity]]
         /\ Wrote(w, [p EXCEPT !.fresh = i])
  BY DEF InsertItem
<1> DEFINE q == [p EXCEPT !.fresh = i]
<1>2. /\ p \in Process /\ p.order \in orders \cup {NoOrder} /\ p.order # NoOrder
      /\ orders' = orders /\ Known(p) \subseteq Stored /\ Known(p) \subseteq Items
      /\ p.related \subseteq Known(p)
      /\ \A l \in DOMAIN p.collection :
           p.collection[l].uid # New => p.collection[l].uid \in Known(p)
      /\ ~p.disturbed => Edited(p, items) /\ Begun(p, items)
  BY Persisting DEF InsertItem
<1>3. /\ q \in Process /\ Alike(q, p) /\ q.pc = p.pc /\ q.answer = p.answer
      /\ q.disturbed = p.disturbed /\ q.order = p.order /\ q.removed = p.removed
      /\ q.relating = p.relating /\ q.fresh = i /\ q.editing = p.editing
  BY <1>1, <1>2 DEF Process, Alike
<1>4. Wrote(w, q)
  BY <1>1
<1>5. \A l \in Items : items[l].order \in orders \cup {NoOrder}
  BY DEF Owned
<1>6. /\ items \in [Items -> {Unused} \cup Item] /\ items[i] \in {Unused} \cup Item
      /\ i \notin Known(p)
  BY <1>1, <1>2 DEF Inv, TablesOK, Stored
<1>7. items[i].order = NoOrder
  <2>1. \A r \in Item : r.stored
    BY DEF Item
  <2>2. items[i] = Unused
    BY <1>1, <1>6, <2>1
  <2> QED
    BY <2>2 DEF Unused
<1>8. /\ \A l \in Items \ {i} : items'[l] = items[l]
      /\ items'[i].order = NoOrder /\ items'[i].quantity = p.collection[k].quantity
  BY <1>1, <1>6
<1> HIDE DEF p, q
<1>9. /\ Known(q) = Known(p) /\ Removed(q) = Removed(p)
      /\ \A n : NewOnes(q, n) = NewOnes(p, n)
  BY <1>3, AlikeSame
<1>10. ASSUME ~p.disturbed
       PROVE  Edited(q, items') /\ Begun(q, items')
  <2>1. Edited(q, items')
    BY <1>2, <1>3, <1>6, <1>8, <1>9, <1>10 DEF Edited, Alike
  <2>2. Begun(p, items)
    BY <1>2, <1>10
  <2>3. q.related = p.related /\ q.collection = p.collection
    BY <1>3 DEF Alike
  <2>4. \A l \in q.related :
          items'[l].order = q.order <=> l \notin Removed(q) \/ l \in q.removed
    BY <1>2, <1>3, <1>6, <1>8, <1>9, <2>2, <2>3 DEF Begun
  <2>5. ASSUME NEW l \in DOMAIN q.collection, q.collection[l].uid # New,
               q.collection[l].uid \notin q.related, l \notin q.relating
        PROVE  items'[q.collection[l].uid].order = q.order
    BY <1>2, <1>3, <1>6, <1>8, <2>2, <2>3, <2>5 DEF Begun
  <2>6. \A n \in Quantities : Extra(q, items', n) = Extra(p, items, n)
    BY <1>2, <1>3, <1>7, <1>8, <1>9 DEF Extra
  <2>7. \A n \in Quantities :
          /\ IsFiniteSet(Extra(q, items', n))
          /\ Cardinality(Extra(q, items', n)) = Cardinality(NewOnes(q, n) \ q.relating)
    BY <1>3, <1>9, <2>2, <2>6 DEF Begun
  <2>8. /\ q.removed \subseteq Removed(q)
        /\ \A l \in q.relating : q.collection[l].uid \notin q.related
    BY <1>3, <1>9, <2>2, <2>3 DEF Begun
  <2>9. /\ q.fresh \notin Known(q) /\ items'[q.fresh].order = NoOrder
        /\ \E l \in q.relating : /\ First(q.relating, l)
                                 /\ q.collection[l].uid = New
                                 /\ items'[q.fresh].quantity = q.collection[l].quantity
    BY <1>1, <1>3, <1>6, <1>8, <1>9, <2>3 DEF p
  <2> QED
    BY <2>1, <2>4, <2>5, <2>7, <2>8, <2>9 DEF Begun
<1>11. \A l \in Items : items'[l].order \in orders' \cup {NoOrder}
  BY <1>2, <1>5, <1>8
<1>12. q.order \in orders' \cup {NoOrder} /\ orders \subseteq orders'
  BY <1>2, <1>3
<1> QED
  BY <1>2, <1>3, <1>4, <1>10, <1>11, <1>12, ProceededOwned DEF p

(* An item is edited after all have been related. *)
LEMMA EditOwned ==
    ASSUME Inv, Owned, NEW w \in Workers, process[w].pc = "persist", Edit(w, process[w])
    PROVE  Owned'
<1> DEFINE p == process[w]
<1>1. PICK k \in p.editing :
         /\ items' = [items EXCEPT ![p.collection[k].uid].quantity = p.memory[p.collection[k].uid]]
         /\ Wrote(w, [p EXCEPT !.editing = @ \ {k}])
  BY DEF Edit
<1> DEFINE q == [p EXCEPT !.editing = @ \ {k}]
           i == p.collection[k].uid
<1>2. /\ p \in Process /\ p.order \in orders \cup {NoOrder} /\ p.order # NoOrder
      /\ p.relating = {}
      /\ orders' = orders /\ Known(p) \subseteq Items /\ p.related \subseteq Known(p)
      /\ p.editing \subseteq DOMAIN p.collection /\ New \notin Known(p)
      /\ \A l \in DOMAIN p.collection :
           p.collection[l].uid # New => p.collection[l].uid \in Known(p)
      /\ ~p.disturbed => Edited(p, items) /\ Begun(p, items)
  BY Persisting DEF Edit
<1>3. /\ q \in Process /\ Alike(q, p) /\ q.pc = p.pc /\ q.answer = p.answer
      /\ q.disturbed = p.disturbed /\ q.order = p.order /\ q.removed = p.removed
      /\ q.relating = {} /\ q.fresh = p.fresh /\ q.editing = p.editing \ {k}
  BY <1>2 DEF Process, Alike
<1>4. Wrote(w, q)
  BY <1>1
<1>5. \A l \in Items : items[l].order \in orders \cup {NoOrder}
  BY DEF Owned
<1>6. /\ i \in p.related
      /\ \A l, m \in DOMAIN p.collection :
           p.collection[l].uid = p.collection[m].uid /\ p.collection[l].uid # New => l = m
  BY DEF Inv, Good, Plans, Typed
<1>7. /\ i \in Items /\ i \in Known(p) /\ i # New
      /\ items \in [Items -> {Unused} \cup Item]
  BY <1>2, <1>6 DEF Inv, TablesOK
<1>8. \A l \in Items : /\ items'[l].order = items[l].order
                       /\ items'[l].quantity = IF l = i THEN p.memory[i] ELSE items[l].quantity
  BY <1>1, <1>7 DEF Unused, Item
<1>9. \A l \in DOMAIN p.collection : p.collection[l].uid = i => l = k
  BY <1>2, <1>6, <1>7
<1> HIDE DEF p, q
<1>10. /\ Known(q) = Known(p) /\ Removed(q) = Removed(p)
       /\ \A n : NewOnes(q, n) = NewOnes(p, n)
       /\ q.related = p.related /\ q.collection = p.collection
       /\ q.memory = p.memory /\ q.loaded = p.loaded
  BY <1>3, AlikeSame DEF Alike
<1>11. ASSUME ~p.disturbed
       PROVE  Edited(q, items') /\ Begun(q, items')
  <2>1. \A l \in Known(p) :
          items[l].quantity = IF \E m \in p.editing : p.collection[m].uid = l
                                THEN p.loaded[l] ELSE p.memory[l]
    BY <1>2, <1>11 DEF Edited
  <2>2. ~\E m \in q.editing : q.collection[m].uid = i
    BY <1>2, <1>3, <1>9, <1>10
  <2>3. \A l \in Known(p) \ {i} : (\E m \in q.editing : q.collection[m].uid = l)
                                    <=> (\E m \in p.editing : p.collection[m].uid = l)
    BY <1>3, <1>10
  <2>4. ASSUME NEW l \in Known(q)
        PROVE  items'[l].quantity = IF \E m \in q.editing : q.collection[m].uid = l
                                      THEN q.loaded[l] ELSE q.memory[l]
    <3>1. l \in Items /\ l \in Known(p)
      BY <1>2, <1>10
    <3>2. CASE l = i
      BY <1>8, <1>10, <2>2, <3>1, <3>2
    <3>3. CASE l # i
      BY <1>8, <1>10, <2>1, <2>3, <3>1, <3>3
    <3> QED
      BY <3>2, <3>3
  <2>5. Edited(q, items')
    BY <2>4 DEF Edited
  <2>6. Begun(p, items)
    BY <1>2, <1>11
  <2>7. p.fresh = New /\ q.fresh = New
    BY <1>2, <1>3, <2>6 DEF Begun
  <2>8. \A l \in q.related :
          items'[l].order = q.order <=> l \notin Removed(q) \/ l \in q.removed
    BY <1>2, <1>3, <1>8, <1>10, <2>6 DEF Begun
  <2>9. ASSUME NEW l \in DOMAIN q.collection, q.collection[l].uid # New,
               q.collection[l].uid \notin q.related, l \notin q.relating
        PROVE  items'[q.collection[l].uid].order = q.order
    <3>1. q.collection[l].uid \in Items
      BY <1>2, <1>10, <2>9
    <3> QED
      BY <1>2, <1>3, <1>8, <1>10, <2>6, <2>9, <3>1 DEF Begun
  <2>10. \A n \in Quantities : Extra(q, items', n) = Extra(p, items, n)
    BY <1>3, <1>7, <1>8, <1>10 DEF Extra
  <2>11. \A n \in Quantities :
           /\ IsFiniteSet(Extra(q, items', n))
           /\ Cardinality(Extra(q, items', n)) = Cardinality(NewOnes(q, n) \ q.relating)
    BY <1>2, <1>3, <1>10, <2>6, <2>10 DEF Begun
  <2>12. /\ q.removed \subseteq Removed(q)
         /\ \A l \in q.relating : q.collection[l].uid \notin q.related
    BY <1>3, <1>10, <2>6 DEF Begun
  <2> QED
    BY <2>5, <2>7, <2>8, <2>9, <2>11, <2>12 DEF Begun
<1>12. \A l \in Items : items'[l].order \in orders' \cup {NoOrder}
  BY <1>2, <1>5, <1>8
<1>13. q.order \in orders' \cup {NoOrder} /\ orders \subseteq orders'
  BY <1>2, <1>3
<1> QED
  BY <1>2, <1>3, <1>4, <1>11, <1>12, <1>13, ProceededOwned DEF p

(* An object of the collection is given its order. *)
LEMMA AttachOwned ==
    ASSUME Inv, Owned, NEW w \in Workers, process[w].pc = "persist", Attach(w, process[w])
    PROVE  Owned'
<1> DEFINE p == process[w]
<1>1. PICK k \in p.relating, i \in Items :
         /\ First(p.relating, k)
         /\ i = IF p.collection[k].uid = New THEN p.fresh ELSE p.collection[k].uid
         /\ items' = [items EXCEPT ![i].order = p.order]
         /\ Wrote(w, [p EXCEPT !.relating = @ \ {k}, !.fresh = New])
  BY Zenon DEF Attach
<1> DEFINE q == [p EXCEPT !.relating = @ \ {k}, !.fresh = New]
<1>2. /\ p \in Process /\ p.order \in orders \cup {NoOrder} /\ p.order # NoOrder
      /\ orders' = orders /\ Known(p) \subseteq Items /\ p.related \subseteq Known(p)
      /\ p.relating \subseteq DOMAIN p.collection /\ DOMAIN p.collection \subseteq Nat
      /\ \A l \in DOMAIN p.collection :
           p.collection[l].uid # New => p.collection[l].uid \in Known(p)
      /\ ~p.disturbed => Edited(p, items) /\ Begun(p, items)
  BY Persisting DEF Attach
<1>3. /\ q \in Process /\ Alike(q, p) /\ q.pc = p.pc /\ q.answer = p.answer
      /\ q.disturbed = p.disturbed /\ q.order = p.order /\ q.removed = p.removed
      /\ q.relating = p.relating \ {k} /\ q.fresh = New /\ q.editing = p.editing
  BY <1>2 DEF Process, Alike
<1>4. Wrote(w, q)
  BY <1>1
<1>5. \A l \in Items : items[l].order \in orders \cup {NoOrder}
  BY DEF Owned
<1>6. items \in [Items -> {Unused} \cup Item] /\ i # New
  BY TableAssumption DEF Inv, TablesOK
<1>7. \A l \in Items : /\ items'[l].quantity = items[l].quantity
                       /\ items'[l].order = IF l = i THEN p.order ELSE items[l].order
  BY <1>1, <1>6 DEF Unused, Item
<1>8. i = IF p.collection[k].uid = New THEN p.fresh ELSE p.collection[k].uid
  BY <1>1
<1>9. First(p.relating, k) /\ k \in p.relating
  BY <1>1
<1> HIDE DEF p, q
<1>10. /\ Known(q) = Known(p) /\ Removed(q) = Removed(p)
       /\ \A n : NewOnes(q, n) = NewOnes(p, n)
       /\ q.related = p.related /\ q.collection = p.collection
  BY <1>3, AlikeSame DEF Alike
<1>11. ASSUME ~p.disturbed
       PROVE  Edited(q, items') /\ Begun(q, items')
  <2>1. Edited(q, items')
    BY <1>2, <1>3, <1>7, <1>10, <1>11 DEF Edited, Alike
  <2>2. Begun(p, items)
    BY <1>2, <1>11
  <2>3. ASSUME p.collection[k].uid = New
        PROVE  /\ i \notin Known(p) /\ items[i].order = NoOrder
               /\ items[i].quantity = p.collection[k].quantity
    <3>1. i = p.fresh /\ p.fresh # New
      BY <1>6, <1>8, <2>3
    <3>2. PICK l \in p.relating : First(p.relating, l)
                                  /\ items[p.fresh].quantity = p.collection[l].quantity
      BY <2>2, <3>1 DEF Begun
    <3>3. k \in Nat /\ l \in Nat /\ k <= l /\ l <= k
      BY <1>2, <1>9, <3>2 DEF First
    <3>4. k = l
      BY <3>3
    <3> QED
      BY <2>2, <3>1, <3>2, <3>4 DEF Begun
  <2>4. ASSUME p.collection[k].uid # New
        PROVE  i = p.collection[k].uid /\ i \in Known(p)
    BY <1>2, <1>8, <1>9, <2>4
  <2>5. i \notin p.related
    BY <1>2, <1>9, <2>2, <2>3, <2>4 DEF Begun
  <2>6. \A l \in q.related :
          items'[l].order = q.order <=> l \notin Removed(q) \/ l \in q.removed
    BY <1>2, <1>3, <1>7, <1>10, <2>2, <2>5 DEF Begun
  <2>7. ASSUME NEW l \in DOMAIN q.collection, q.collection[l].uid # New,
               q.collection[l].uid \notin q.related, l \notin q.relating
        PROVE  items'[q.collection[l].uid].order = q.order
    <3>1. q.collection[l].uid \in Items
      BY <1>2, <1>10, <2>7
    <3>2. CASE l = k
      BY <1>3, <1>7, <1>10, <2>4, <2>7, <3>1, <3>2
    <3>3. CASE l # k
      BY <1>3, <1>7, <1>10, <2>2, <2>7, <3>1, <3>3 DEF Begun
    <3> QED
      BY <3>2, <3>3
  <2>8. ASSUME NEW n \in Quantities
        PROVE  /\ IsFiniteSet(Extra(q, items', n))
               /\ Cardinality(Extra(q, items', n)) = Cardinality(NewOnes(q, n) \ q.relating)
    <3>1. /\ IsFiniteSet(Extra(p, items, n))
          /\ Cardinality(Extra(p, items, n)) = Cardinality(NewOnes(p, n) \ p.relating)
      BY <2>2 DEF Begun
    <3>2. IsFiniteSet(NewOnes(p, n) \ p.relating)
      BY <1>2, NewOnesFinite, FS_Subset
    <3>3. CASE p.collection[k].uid = New /\ p.collection[k].quantity = n
      <4>1. Extra(q, items', n) = Extra(p, items, n) \cup {i}
        BY <1>2, <1>3, <1>7, <1>10, <2>3, <3>3 DEF Extra
      <4>2. i \notin Extra(p, items, n)
        BY <1>2, <2>3, <3>3 DEF Extra
      <4>3. NewOnes(q, n) \ q.relating = (NewOnes(p, n) \ p.relating) \cup {k}
        BY <1>2, <1>3, <1>9, <1>10, <3>3 DEF NewOnes
      <4>4. k \notin NewOnes(p, n) \ p.relating
        BY <1>9
      <4>5. /\ IsFiniteSet(Extra(p, items, n) \cup {i})
            /\ Cardinality(Extra(p, items, n) \cup {i}) = Cardinality(Extra(p, items, n)) + 1
        BY <3>1, <4>2, FS_AddElement
      <4>6. Cardinality((NewOnes(p, n) \ p.relating) \cup {k})
              = Cardinality(NewOnes(p, n) \ p.relating) + 1
        BY <3>2, <4>4, FS_AddElement
      <4> QED
        BY <3>1, <4>1, <4>3, <4>5, <4>6
    <3>4. CASE ~(p.collection[k].uid = New /\ p.collection[k].quantity = n)
      <4>1. Extra(q, items', n) = Extra(p, items, n)
        <5>1. i \notin Extra(p, items, n)
          BY <1>2, <2>3, <2>4, <3>4 DEF Extra
        <5>2. i \notin Extra(q, items', n)
          BY <1>7, <1>10, <2>3, <2>4, <3>4 DEF Extra
        <5>3. \A l \in Items \ {i} : l \in Extra(q, items', n) <=> l \in Extra(p, items, n)
          BY <1>3, <1>7, <1>10 DEF Extra
        <5> QED
          BY <5>1, <5>2, <5>3 DEF Extra
      <4>2. k \notin NewOnes(p, n)
        BY <3>4 DEF NewOnes
      <4>3. NewOnes(q, n) \ q.relating = NewOnes(p, n) \ p.relating
        BY <1>3, <1>10, <4>2
      <4> QED
        BY <3>1, <4>1, <4>3
    <3> QED
      BY <3>3, <3>4
  <2>9. /\ q.removed \subseteq Removed(q)
        /\ \A l \in q.relating : q.collection[l].uid \notin q.related
    BY <1>3, <1>10, <2>2 DEF Begun
  <2> QED
    BY <1>3, <2>1, <2>6, <2>7, <2>8, <2>9 DEF Begun
<1>12. \A l \in Items : items'[l].order \in orders' \cup {NoOrder}
  BY <1>2, <1>5, <1>7
<1>13. q.order \in orders' \cup {NoOrder} /\ orders \subseteq orders'
  BY <1>2, <1>3
<1> QED
  BY <1>2, <1>3, <1>4, <1>11, <1>12, <1>13, ProceededOwned DEF p

(* One statement of persistAll, or its failure. *)
LEMMA PersistOwned ==
    ASSUME Inv, Owned, NEW w \in Workers, Persist(w)
    PROVE  Owned'
<1> DEFINE p == process[w]
           failed == [p EXCEPT !.pc = "answered", !.answer = "failed"]
<1>1. p.pc = "persist"
  BY DEF Persist
<1>2. \/ InsertOrder(w, p) \/ Detach(w, p) \/ InsertItem(w, p) \/ Attach(w, p) \/ Edit(w, p)
      \/ Become(w, failed) /\ UNCHANGED <<orders, items>>
  BY DEF Persist
<1>3. CASE Become(w, failed) /\ UNCHANGED <<orders, items>>
  <2>1. p \in Process /\ Whole(p, items, orders)
    BY DEF Inv, Owned, Good, Typed
  <2> HIDE DEF p
  <2>2. \A answer \in {"refused", "failed"} :
          Whole([p EXCEPT !.pc = "answered", !.answer = answer], items, orders)
    BY <2>1, AnsweredWhole, Zenon
  <2>3. "failed" \in {"refused", "failed"}
    OBVIOUS
  <2>4. Whole(failed, items, orders)
    BY <2>2, <2>3, Zenon
  <2> HIDE DEF failed
  <2> QED
    BY <1>3, <2>4, BecomeOwned DEF p
<1> QED
  BY <1>1, <1>2, <1>3, InsertOrderOwned, DetachOwned, InsertItemOwned, AttachOwned, EditOwned

(* When all statements are done, the rows are what the body says. *)
LEMMA DoneApplied ==
    ASSUME Inv, Owned, NEW w \in Workers, process[w].pc = "persist", Done(process[w]),
           ~process[w].disturbed
    PROVE  Applied(process[w], items)
<1> DEFINE p == process[w]
           mine == {i \in Items : items[i].stored /\ items[i].order = p.order}
           kept == IF p.method = "PATCH" /\ ~p.body.named THEN p.related ELSE Kept(p.body)
           new(n) == {k \in DOMAIN p.body.entries :
                         p.body.entries[k].kind = "insert" /\ p.body.entries[k].quantity = n}
<1>1. /\ p \in Process /\ p.read = Len(p.body.entries) /\ Reads(p)
      /\ Known(p) \subseteq Items /\ Known(p) \subseteq Stored /\ New \notin Known(p)
      /\ p.order # NoOrder /\ p.removed = {} /\ p.relating = {} /\ p.editing = {}
      /\ Edited(p, items) /\ Begun(p, items)
  BY Persisting DEF Done
<1>2. p.body \in Bodies \cup {NoBody}
  BY <1>1 DEF Process
<1>3. /\ DOMAIN p.body.entries = 1 .. p.read
      /\ ~p.body.named => p.read = 0
  BY <1>1, <1>2, BodyShape
<1>4. items \in [Items -> {Unused} \cup Item]
  BY DEF Inv, TablesOK
<1> HIDE DEF p
<1>5. /\ KeptSoFar(p) = Kept(p.body)
      /\ \A n : InsertsSoFar(p, n) = new(n)
  BY <1>3 DEF KeptSoFar, Kept, InsertsSoFar
<1>6. \A i \in Items : Given(p, i) = IF EditsOf(p, i) = {} THEN p.loaded[i]
                                       ELSE p.body.entries[Max(EditsOf(p, i))].quantity
  BY <1>3 DEF Given, EditsOf
<1>7. /\ kept \subseteq Known(p)
      /\ \A i \in Known(p) \ kept : i \in p.related /\ i \in Removed(p)
      /\ \A i \in kept : i \notin Removed(p)
  <2>1. Collected(p) \ {New} = KeptSoFar(p)
    BY <1>1 DEF Reads
  <2>2. CASE p.method = "PATCH" /\ ~p.body.named
    <3>1. KeptSoFar(p) = {}
      BY <1>3, <2>2 DEF KeptSoFar
    <3> QED
      BY <2>2, <3>1 DEF Known, Removed
  <2>3. CASE ~(p.method = "PATCH" /\ ~p.body.named)
    <3>1. kept = KeptSoFar(p) /\ Removed(p) = p.related \ Collected(p)
      BY <1>5, <2>3 DEF Removed
    <3> QED
      BY <1>1, <2>1, <3>1 DEF Known
  <2> QED
    BY <2>2, <2>3
<1>8. ASSUME NEW i \in kept PROVE i \in mine
  <2>1. i \in Known(p) /\ i \in Items /\ items[i].stored /\ i # New
    BY <1>1, <1>7, <1>8 DEF Stored
  <2>2. CASE i \in p.related
    BY <1>1, <1>7, <2>1, <2>2 DEF Begun
  <2>3. CASE i \notin p.related
    <3>1. i \in Collected(p)
      BY <1>1, <2>1, <2>3 DEF Known, Reads
    <3>2. PICK k \in DOMAIN p.collection : p.collection[k].uid = i
      BY <3>1 DEF Collected
    <3> QED
      BY <1>1, <2>1, <2>3, <3>2 DEF Begun
  <2> QED
    BY <2>2, <2>3
<1>9. ASSUME NEW i \in kept PROVE items[i].quantity = Given(p, i)
  <2>1. i \in Known(p) /\ i \in Items
    BY <1>1, <1>7, <1>9
  <2>2. items[i].quantity = p.memory[i]
    BY <1>1, <2>1 DEF Edited
  <2> QED
    BY <1>1, <1>6, <2>1, <2>2 DEF Reads
<1>10. ASSUME NEW n \in Quantities
       PROVE  Cardinality({i \in mine \ kept : items[i].quantity = n}) = Cardinality(new(n))
  <2>1. ASSUME NEW i \in Items, items[i].order = p.order
        PROVE  items[i].stored /\ (i \in Known(p) => i \in kept)
    <3>1. items[i] \in {Unused} \cup Item /\ items[i] # Unused
      BY <1>1, <1>4, <2>1 DEF Unused
    <3>2. items[i].stored
      BY <3>1 DEF Item
    <3>3. i \in Known(p) => i \in kept
      BY <1>1, <1>7, <2>1 DEF Begun
    <3> QED
      BY <3>2, <3>3
  <2>2. {i \in mine \ kept : items[i].quantity = n} = Extra(p, items, n)
    BY <1>7, <2>1 DEF Extra
  <2>3. NewOnes(p, n) \ p.relating = NewOnes(p, n)
    BY <1>1
  <2>4. Cardinality(Extra(p, items, n)) = Cardinality(NewOnes(p, n))
    BY <1>1, <2>3 DEF Begun
  <2>5. Cardinality(NewOnes(p, n)) = Cardinality(new(n))
    BY <1>1, <1>5 DEF Reads
  <2> QED
    BY <2>2, <2>4, <2>5
<1>11. Applied(p, items)
  BY <1>8, <1>9, <1>10 DEF Applied
<1> QED
  BY <1>11 DEF p

LEMMA AnswerOwned ==
    ASSUME Inv, Owned, NEW w \in Workers, Answer(w)
    PROVE  Owned'
<1> DEFINE p == process[w]
           q == [p EXCEPT !.pc = "answered", !.answer = "done"]
<1>1. p.pc = "persist" /\ Done(p) /\ Become(w, q) /\ UNCHANGED <<orders, items>>
  BY DEF Answer
<1>2. p \in Process /\ Whole(p, items, orders)
  BY DEF Inv, Owned, Good, Typed
<1>3. /\ Alike(q, p) /\ q.pc = "answered" /\ q.order = p.order /\ q.disturbed = p.disturbed
  BY <1>2 DEF Process, Alike
<1>4. ~p.disturbed => Applied(p, items)
  BY <1>1, DoneApplied
<1> HIDE DEF p, q
<1>5. Reads(q)
  BY <1>2, <1>3, AlikeReads DEF Whole
<1>6. \A i : Given(q, i) = Given(p, i)
  BY <1>3, AlikeSame
<1>7. ~q.disturbed => Applied(q, items)
  BY <1>3, <1>4, <1>6 DEF Applied, Alike
<1>8. ~q.disturbed => Fits(q, items)
  BY <1>3, <1>7 DEF Fits
<1>9. Whole(q, items, orders)
  BY <1>2, <1>3, <1>5, <1>8 DEF Whole
<1> QED
  BY <1>1, <1>9, BecomeOwned

LEMMA LeaveOwned ==
    ASSUME Inv, Owned, NEW w \in Workers, Leave(w)
    PROVE  Owned'
<1>1. Become(w, Idle) /\ UNCHANGED <<orders, items>>
  BY DEF Leave
<1>2. Whole(Idle, items, orders)
  BY IdleWhole
<1> QED
  BY <1>1, <1>2, BecomeOwned

LEMMA InitOwned == Init => Owned
<1> SUFFICES ASSUME Init PROVE Owned
  OBVIOUS
<1>1. \A i \in Items : items[i].order \in orders \cup {NoOrder}
  BY ItemAssumption DEF Init
<1>2. \A w \in Workers : process[w] = Idle
  BY DEF Init
<1>3. \A w \in Workers : Whole(process[w], items, orders)
  BY <1>2, IdleWhole
<1> QED
  BY <1>1, <1>3 DEF Owned

LEMMA NextOwned == Inv /\ Owned /\ [Next]_vars => Owned'
<1> SUFFICES ASSUME Inv, Owned, [Next]_vars PROVE Owned'
  OBVIOUS
<1>1. CASE UNCHANGED vars
  <2>1. \A w \in Workers : Whole(process'[w], items', orders')
    BY <1>1 DEF Owned, vars
  <2>2. \A i \in Items : items'[i].order \in orders' \cup {NoOrder}
    BY <1>1 DEF Owned, vars
  <2> QED
    BY <2>1, <2>2 DEF Owned
<1>2. ASSUME NEW w \in Workers, Receive(w) PROVE Owned'
  BY <1>2, ReceiveOwned
<1>3. ASSUME NEW w \in Workers, ReadEntry(w) PROVE Owned'
  BY <1>3, ReadEntryOwned
<1>4. ASSUME NEW w \in Workers, Validate(w) PROVE Owned'
  BY <1>4, ValidateOwned
<1>5. ASSUME NEW w \in Workers, Persist(w) PROVE Owned'
  BY <1>5, PersistOwned
<1>6. ASSUME NEW w \in Workers, Answer(w) PROVE Owned'
  BY <1>6, AnswerOwned
<1>7. ASSUME NEW w \in Workers, Leave(w) PROVE Owned'
  BY <1>7, LeaveOwned
<1> QED
  BY <1>1, <1>2, <1>3, <1>4, <1>5, <1>6, <1>7 DEF Next

(* A request that is answered with success, and in whose time nobody else has
   written, has left in its order the items that its body names, with the
   quantities it gives them last, as many new items of each quantity as it has
   objects without uid, and no other items. *)
THEOREM LeavesWhatIsAsked == Spec => []AppliedAsDocumented
<1>1. Spec => []Inv
  BY InitInv, NextInv, PTL DEF Spec
<1>2. Init => Owned
  BY InitOwned
<1>3. Inv /\ Owned /\ [Next]_vars => Owned'
  BY NextOwned
<1>4. Owned => AppliedAsDocumented
  <2> SUFFICES ASSUME Owned, NEW w \in Workers,
                      process[w].answer = "done", ~process[w].disturbed
               PROVE  Applied(process[w], items)
    BY DEF AppliedAsDocumented, Applied
  <2> QED
    BY DEF Owned, Whole, Fits
<1> QED
  BY <1>1, <1>2, <1>3, <1>4, PTL DEF Spec
=================================================================================
