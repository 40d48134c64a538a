--------------------------------- MODULE Cascade ----------------------------------
(***************************************************************************)
(* Cascade persistence: a POST, PUT or PATCH of an order whose body has a  *)
(* collection of items, each a uid (a relation to an existing item), an    *)
(* object without uid (a new item) or an object with uid (an update of an  *)
(* item).  The entries are deserialized one after the other, then          *)
(* persistAll writes row by row, while other processes do the same.        *)
(*                                                                         *)
(* Extbase is external: its persistAll takes the removed items from the    *)
(* order, then inserts and attaches those of the collection, then writes   *)
(* the changed properties of the items, each row with a statement of its   *)
(* own and without a transaction.                                          *)
(***************************************************************************)
EXTENDS Integers, Sequences, SequencesExt, FiniteSets, FiniteSetsExt

CONSTANTS
    Workers,        \* PHP processes
    Orders,         \* uids of orders, of which some are unused at first
    InitialOrders,
    Items,          \* uids of items, of which some are unused at first
    InitialItems,   \* InitialItems[i]: an item or Unused
    Quantities,     \* the property of an item
    MaxRequests,    \* the bound on the requests that are received
    Bodies,         \* bodies: [named, entries]; the collection is named or not
    NoOrder,        \* the order of an item that belongs to none
    New,            \* an object of the collection that is not persisted
    NotLoaded       \* the quantity of an item a process has not loaded

Entry == [kind : {"relate", "insert", "update"}, uid : Items \cup {New},
          quantity : Quantities \cup {NotLoaded}]

ASSUME TableAssumption ==
    /\ InitialOrders \subseteq Orders
    /\ NoOrder \notin Orders
    /\ New \notin Items
    /\ NotLoaded \notin Quantities
    /\ MaxRequests \in Nat
ASSUME BodyAssumption ==
    \A b \in Bodies :
        /\ b \in [named : BOOLEAN, entries : Seq(Entry)]
        /\ ~b.named => b.entries = <<>>
        /\ \A k \in DOMAIN b.entries :
             IF b.entries[k].kind = "insert" THEN b.entries[k].quantity \in Quantities
             ELSE /\ b.entries[k].uid \in Items
                  /\ b.entries[k].kind = "update" => b.entries[k].quantity \in Quantities

VARIABLES
    annotated,  \* whether the collection has the annotation Cascade("persist")
    orders,     \* the uids of the orders there are
    items,      \* items[i]: [stored, order, quantity]
    process,    \* process[w]: what a PHP process holds
    received    \* the number of requests so far

vars == <<annotated, orders, items, process, received>>

Unused == [stored |-> FALSE, order |-> NoOrder, quantity |-> NotLoaded]

Item   == [stored : {TRUE}, order : Orders \cup {NoOrder}, quantity : Quantities]

ASSUME ItemAssumption ==
    /\ InitialItems \in [Items -> {Unused} \cup Item]
    /\ \A i \in Items : InitialItems[i].order \in InitialOrders \cup {NoOrder}

NoBody == [named |-> FALSE, entries |-> <<>>]

(* The request and how many of its entries have been read; the order and the
   clean collection it was loaded with; the items of the identity map, as they
   were loaded and as they are in memory; the new collection; what persistAll
   has still to do: items to remove, positions of the collection to relate, an
   item just inserted, positions to edit; and a history: whether it has
   written, and whether others have since it loaded. *)
Idle == [pc |-> "idle", method |-> "none",
         body |-> NoBody, read |-> 0,
         order |-> NoOrder, related |-> {},
         loaded |-> [i \in Items |-> NotLoaded], memory |-> [i \in Items |-> NotLoaded],
         collection |-> <<>>, removed |-> {}, relating |-> {}, fresh |-> New,
         editing |-> {}, answer |-> "none", wrote |-> FALSE, disturbed |-> FALSE]

Init ==
    /\ annotated \in BOOLEAN
    /\ orders = InitialOrders
    /\ items = InitialItems
    /\ process = [w \in Workers |-> Idle]
    /\ received = 0

-----------------------------------------------------------------------------
Inserts(b) == Cardinality({k \in DOMAIN b.entries : b.entries[k].kind = "insert"})

(* The bound of the tables: a request is received while there is an unused
   uid for every row that it and the ones in progress may insert. *)
Room(w, m, b) ==
    LET Posts == {v \in Workers \ {w} : process[v].method = "POST"}
    IN  /\ m = "POST" => Cardinality(Orders \ orders) > Cardinality(Posts)
        /\ MapThenSumSet(LAMBDA v : Inserts(process[v].body), Workers) + Inserts(b)
             <= Cardinality({i \in Items : ~items[i].stored})

Become(w, p) == process' = [process EXCEPT ![w] = p]

(* An exception before persistAll. *)
Refuse(w) ==
    /\ Become(w, [process[w] EXCEPT !.pc = "answered", !.answer = "refused"])
    /\ UNCHANGED <<orders, items>>

-----------------------------------------------------------------------------
(* AbstractItemOperationHandler::handle loads the order of a PUT or PATCH. *)
Receive(w) ==
    /\ process[w].pc = "idle"
    /\ received < MaxRequests
    /\ received' = received + 1
    /\ \E m \in {"POST", "PUT", "PATCH"}, b \in Bodies,
          o \in orders \cup {NoOrder} :
         LET related == {i \in Items : o # NoOrder /\ items[i].order = o}
             values == [i \in Items |-> IF i \in related THEN items[i].quantity
                                                         ELSE NotLoaded]
         IN  /\ Room(w, m, b)
             /\ m = "POST" <=> o = NoOrder
             /\ Become(w, [Idle EXCEPT !.pc = "read", !.method = m, !.body = b,
                                       !.order = o, !.related = related,
                                       !.loaded = values, !.memory = values])
    /\ UNCHANGED <<annotated, orders, items>>

(* getObjectByIdentifier: the object of the identity map, or the row. *)
Fetched(p, i) ==
    IF p.loaded[i] = NotLoaded
      THEN [p EXCEPT !.loaded[i] = items[i].quantity, !.memory[i] = items[i].quantity]
      ELSE p

Found(p, i) == p.loaded[i] # NotLoaded \/ items[i].stored

(* Mutant: the objects of the collection are appended. *)
AppendItem(p, i) == [p EXCEPT !.collection = Append(@, [uid |-> i, quantity |-> NotLoaded])]

(* ObjectStorage::attach of an object of the identity map: once. *)
attach(p, i) ==
    IF \E k \in DOMAIN p.collection : p.collection[k].uid = i THEN p
      ELSE [p EXCEPT !.collection = Append(@, [uid |-> i, quantity |-> NotLoaded])]

(* Mutant: the scope is all that can be found. *)
ScopeAll(p) == IF p.method = "POST" THEN {} ELSE Items

(* isObjectInContextScope: what the collection of the target holds, which a PUT
   has emptied before; a POST has no target, which is an exception. *)
Scope(p) == IF p.method = "PATCH" THEN p.related ELSE {}

(* Mutant: a nested object is persisted when it is deserialized. *)
InsertAtOnce(w, p, entry) ==
    /\ annotated
    /\ \E i \in {i \in Items : ~items[i].stored} :
         /\ items' = [items EXCEPT ![i] = [stored |-> TRUE, order |-> NoOrder,
                                           quantity |-> entry.quantity]]
         /\ Become(w, [attach(p, i) EXCEPT !.wrote = TRUE,
                           !.loaded[i] = entry.quantity, !.memory[i] = entry.quantity])
    /\ UNCHANGED orders

processCascadeInsert(w, p, entry) ==
    /\ annotated
    /\ Become(w, [p EXCEPT !.collection =
                     Append(@, [uid |-> New, quantity |-> entry.quantity])])
    /\ UNCHANGED <<orders, items>>

(* The nested object is deserialized into the one that was found. *)
processCascadeUpdate(w, p, entry) ==
    /\ annotated
    /\ Found(p, entry.uid)
    /\ entry.uid \in Scope(p)
    /\ Become(w, [attach(Fetched(p, entry.uid), entry.uid)
                     EXCEPT !.memory[entry.uid] = entry.quantity])
    /\ UNCHANGED <<orders, items>>

Relate(w, p, entry) ==
    /\ Found(p, entry.uid)
    /\ Become(w, attach(Fetched(p, entry.uid), entry.uid))
    /\ UNCHANGED <<orders, items>>

(* AbstractDomainObjectHandler::deserialize of the next entry; one that is not
   found, not in scope or not allowed is an exception. *)
ReadEntry(w) ==
    LET p == [process[w] EXCEPT !.read = @ + 1]
        entry == p.body.entries[p.read]
        Readable == \/ entry.kind = "relate" /\ Found(p, entry.uid)
                    \/ entry.kind = "insert" /\ annotated
                    \/ /\ entry.kind = "update" /\ annotated
                       /\ Found(p, entry.uid) /\ entry.uid \in Scope(p)
    IN  /\ p.pc = "read"
        /\ p.read <= Len(p.body.entries)
        /\ \/ entry.kind = "relate" /\ Relate(w, p, entry)
           \/ entry.kind = "insert" /\ processCascadeInsert(w, p, entry)
           \/ entry.kind = "update" /\ processCascadeUpdate(w, p, entry)
           \/ ~Readable /\ Refuse(w)
        /\ UNCHANGED <<annotated, received>>

-----------------------------------------------------------------------------
(* persistAll (Extbase) *)

Collected(p) == {p.collection[k].uid : k \in DOMAIN p.collection}

(* Mutant: items that are left out stay. *)
RemovedNever(p) == {}

(* The clean collection is compared with the new one, if there is a new one:
   by its name in the body, by the reset of a PUT, or in a new order. *)
Removed(p) ==
    IF p.method = "PATCH" /\ ~p.body.named THEN {} ELSE p.related \ Collected(p)

(* The validators may refuse, and the listeners and accesses of Operations. *)
Validate(w) ==
    LET p == process[w]
    IN  /\ p.pc = "read"
        /\ p.read = Len(p.body.entries)
        /\ \/ Refuse(w)
           \/ /\ Become(w, [p EXCEPT
                     !.pc = "persist",
                     !.removed = Removed(p),
                     !.relating = {k \in DOMAIN p.collection :
                                      p.collection[k].uid \notin p.related},
                     !.editing = {k \in DOMAIN p.collection :
                                      /\ p.collection[k].uid # New
                                      /\ p.memory[p.collection[k].uid]
                                           # p.loaded[p.collection[k].uid]}])
              /\ UNCHANGED <<orders, items>>
        /\ UNCHANGED <<annotated, received>>

(* The process of w after a statement, of which the others take no notice. *)
Wrote(w, p) ==
    process' = [v \in Workers |->
                   IF v = w THEN [p EXCEPT !.wrote = TRUE]
                   ELSE IF process[v].pc = "idle" THEN process[v]
                   ELSE [process[v] EXCEPT !.disturbed = TRUE]]

First(S, k) == k \in S /\ \A l \in S : k <= l

(* The statements, in their order. *)
InsertOrder(w, p) ==
    /\ p.method = "POST" /\ p.order = NoOrder
    /\ \E o \in Orders \ orders :
         /\ orders' = orders \cup {o}
         /\ Wrote(w, [p EXCEPT !.order = o])
    /\ UNCHANGED items

Detach(w, p) ==
    /\ p.order # NoOrder
    /\ \E i \in p.removed :
         /\ items' = [items EXCEPT ![i].order = NoOrder]
         /\ Wrote(w, [p EXCEPT !.removed = @ \ {i}])
    /\ UNCHANGED orders

(* A new item is inserted without its order, which it is given next. *)
InsertItem(w, p) ==
    /\ p.order # NoOrder /\ p.removed = {} /\ p.fresh = New
    /\ \E k \in p.relating, i \in Items :
         /\ First(p.relating, k)
         /\ p.collection[k].uid = New
         /\ ~items[i].stored
         /\ items' = [items EXCEPT ![i] = [stored |-> TRUE, order |-> NoOrder,
                                           quantity |-> p.collection[k].quantity]]
         /\ Wrote(w, [p EXCEPT !.fresh = i])
    /\ UNCHANGED orders

Attach(w, p) ==
    /\ p.order # NoOrder /\ p.removed = {}
    /\ \E k \in p.relating, i \in Items :
         /\ First(p.relating, k)
         /\ i = IF p.collection[k].uid = New THEN p.fresh ELSE p.collection[k].uid
         /\ items' = [items EXCEPT ![i].order = p.order]
         /\ Wrote(w, [p EXCEPT !.relating = @ \ {k}, !.fresh = New])
    /\ UNCHANGED orders

Edit(w, p) ==
    /\ p.order # NoOrder /\ p.removed = {} /\ p.relating = {}
    /\ \E k \in p.editing :
         LET i == p.collection[k].uid
         IN  /\ First(p.editing, k)
             /\ items' = [items EXCEPT ![i].quantity = p.memory[i]]
             /\ Wrote(w, [p EXCEPT !.editing = @ \ {k}])
    /\ UNCHANGED orders

Done(p) == p.order # NoOrder /\ p.removed = {} /\ p.relating = {} /\ p.editing = {}

(* The next statement, which the database may refuse. *)
Persist(w) ==
    LET p == process[w]
    IN  /\ p.pc = "persist"
        /\ ~Done(p)
        /\ \/ InsertOrder(w, p)
           \/ Detach(w, p)
           \/ InsertItem(w, p)
           \/ Attach(w, p)
           \/ Edit(w, p)
           \/ /\ Become(w, [p EXCEPT !.pc = "answered", !.answer = "failed"])
              /\ UNCHANGED <<orders, items>>
        /\ UNCHANGED <<annotated, received>>

Answer(w) ==
    /\ process[w].pc = "persist"
    /\ Done(process[w])
    /\ Become(w, [process[w] EXCEPT !.pc = "answered", !.answer = "done"])
    /\ UNCHANGED <<annotated, orders, items, received>>

(* The answer is out, or the process dies. *)
Leave(w) ==
    /\ process[w].pc # "idle"
    /\ Become(w, Idle)
    /\ UNCHANGED <<annotated, orders, items, received>>

Next == \E w \in Workers :
    Receive(w) \/ ReadEntry(w) \/ Validate(w) \/ Persist(w) \/ Answer(w) \/ Leave(w)

Spec == Init /\ [][Next]_vars

-----------------------------------------------------------------------------
(* Properties *)

(* Every variable keeps its type; what is in a collection is there once, and
   what is to be persisted of it are its positions. *)
Process ==
    [pc : {"idle", "read", "persist", "answered"}, method : {"none", "POST", "PUT", "PATCH"},
     body : Bodies \cup {NoBody}, read : Nat, order : Orders \cup {NoOrder},
     related : SUBSET Items, loaded : [Items -> Quantities \cup {NotLoaded}],
     memory : [Items -> Quantities \cup {NotLoaded}],
     collection : Seq([uid : Items \cup {New}, quantity : Quantities \cup {NotLoaded}]),
     removed : SUBSET Items, relating : SUBSET Nat, fresh : Items \cup {New},
     editing : SUBSET Nat, answer : {"none", "refused", "failed", "done"},
     wrote : BOOLEAN, disturbed : BOOLEAN]

TypeOK ==
    /\ annotated \in BOOLEAN
    /\ received \in 0 .. MaxRequests
    /\ InitialOrders \subseteq orders /\ orders \subseteq Orders
    /\ items \in [Items -> {Unused} \cup Item]
    /\ process \in [Workers -> Process]
    /\ \A w \in Workers :
         LET collection == process[w].collection
         IN  /\ process[w].relating \cup process[w].editing \subseteq DOMAIN collection
             /\ \A k, l \in DOMAIN collection :
                  collection[k].uid = collection[l].uid /\ collection[k].uid # New => k = l

(* Whether a body names an item to relate it. *)
Related(b, i) ==
    \E k \in DOMAIN b.entries : b.entries[k].kind = "relate" /\ b.entries[k].uid = i

(* An item that belongs to another order is not edited: only a PATCH changes
   items, and only those that were in its order when it was loaded, whatever
   the body relates first; and an item changes its order only by a request that
   had it, that names its uid as a relation, or that has just inserted it. *)
EditsStayInScope ==
    [][\A i \in Items :
         items[i].stored /\ items'[i] # items[i] =>
           \E w \in Workers :
               LET p == process[w]
               IN  /\ p.pc = "persist"
                   /\ \/ i \in p.related /\ p.method = "PATCH"
                      \/ /\ items'[i].quantity = items[i].quantity
                         /\ i \in p.related \/ Related(p.body, i) \/ p.fresh = i]_vars

(* A request that is refused, be it for its last entry, has written nothing of
   the entries before. *)
RefusedWritesNothing ==
    \A w \in Workers : process[w].answer = "refused" => ~process[w].wrote

(* The uids a body keeps, and the quantity it gives an item. *)
Kept(b) == {b.entries[k].uid : k \in {k \in DOMAIN b.entries : b.entries[k].kind # "insert"}}

Given(p, i) ==
    LET Edits == {k \in DOMAIN p.body.entries : p.body.entries[k].kind = "update"
                                                /\ p.body.entries[k].uid = i}
    IN  IF Edits = {} THEN p.loaded[i] ELSE p.body.entries[Max(Edits)].quantity

(* What a successful request leaves if nobody has written since it loaded: the
   items its body names, with what it gives them, as many new ones as it has
   objects without uid, and none of those it leaves out; all that were there
   if a PATCH does not name the collection. *)
AppliedAsDocumented ==
    \A w \in Workers :
        LET p == process[w]
            mine == {i \in Items : items[i].stored /\ items[i].order = p.order}
            kept == IF p.method = "PATCH" /\ ~p.body.named THEN p.related
                                                           ELSE Kept(p.body)
            new(q) == {k \in DOMAIN p.body.entries :
                          p.body.entries[k].kind = "insert" /\ p.body.entries[k].quantity = q}
        IN  p.answer = "done" /\ ~p.disturbed =>
              /\ kept \subseteq mine
              /\ \A i \in kept : items[i].quantity = Given(p, i)
              /\ \A q \in Quantities :
                   Cardinality({i \in mine \ kept : items[i].quantity = q})
                     = Cardinality(new(q))

(* If an error occurs while a cascade is persisted, nothing of it has to be
   reverted. *)
NothingToRevert ==
    \A w \in Workers : process[w].answer = "failed" => ~process[w].wrote
================================================================================
