------------------------------ MODULE FiltersProofs -------------------------------
(***************************************************************************)
(* Proofs about Filters, for any filters of an operation, any conditions   *)
(* that grant them, any query strings and any records.                     *)
(***************************************************************************)
EXTENDS Filters, TLAPS

(* The filters that count, and those of them that have been applied. *)
Counts == {i \in granted : isset(Registered[i].parameter, query)}

Done == Counts \ pending

EntriesOf(i) == Entries(Registered[i].parameter, query)

(* The entry of the query string that a filter is sorted by. *)
Place(i) == <<Position(Registered[i].parameter, query),
              IF is_array(Registered[i].parameter, query)
                THEN array_search(Registered[i].property, EntriesOf(i)) ELSE 1>>

(* The filters that add to the orderings, the constraint of one that does not. *)
Orders(i) == /\ Registered[i].class = "order"
             /\ Direction(Registered[i], EntriesOf(i)) \in Directions

Constraint(i) == [class |-> Registered[i].class, property |-> Registered[i].property,
                  entries |-> EntriesOf(i)]

-----------------------------------------------------------------------------
(* Query strings *)

(* The query string of a request is one that clients send; the empty one has
   no entry. *)
LEMMA QueryShape ==
    ASSUME query \in QueryStrings \cup {<<>>}
    PROVE  /\ DOMAIN query \subseteq Nat
           /\ \A i, j \in DOMAIN query : query[i].name = query[j].name => i = j
           /\ \A i \in DOMAIN query :
                /\ 1 \in DOMAIN query[i].entries
                /\ DOMAIN query[i].entries \subseteq Nat
                /\ \A k, l \in DOMAIN query[i].entries :
                     query[i].entries[k].key = query[i].entries[l].key => k = l
                /\ (\E k \in DOMAIN query[i].entries : query[i].entries[k].key = NoKey) =>
                     DOMAIN query[i].entries = {1}
<1>1. CASE query = <<>>
  BY <1>1
<1>2. CASE query \in QueryStrings
  <2>1. query \in Seq(ToSet(query))
    BY <1>2, QueryAssumption
  <2>2. DOMAIN query \subseteq Nat
    BY <2>1
  <2>3. ASSUME NEW i \in DOMAIN query
        PROVE  /\ 1 \in DOMAIN query[i].entries
               /\ DOMAIN query[i].entries \subseteq Nat
               /\ (\E k \in DOMAIN query[i].entries : query[i].entries[k].key = NoKey) =>
                    DOMAIN query[i].entries = {1}
    <3> DEFINE s == query[i].entries
    <3>1. s \in Seq(ToSet(s)) /\ s # <<>>
      BY <1>2, <2>3, QueryAssumption
    <3>2. (\E k \in DOMAIN s : s[k].key = NoKey) => Len(s) = 1
      BY <1>2, <2>3, QueryAssumption
    <3> HIDE DEF s
    <3>3. Len(s) \in Nat /\ DOMAIN s = 1 .. Len(s) /\ Len(s) # 0
      BY <3>1
    <3>4. 1 \in DOMAIN s /\ DOMAIN s \subseteq Nat
      BY <3>3
    <3>5. Len(s) = 1 => DOMAIN s = {1}
      BY <3>3
    <3> QED
      BY <3>2, <3>4, <3>5 DEF s
  <2> QED
    BY <1>2, <2>2, <2>3, QueryAssumption
<1> QED
  BY <1>1, <1>2

(* The parameter of a filter that counts is where it is found. *)
LEMMA PositionIs ==
    ASSUME NEW p, isset(p, query)
    PROVE  /\ Position(p, query) \in DOMAIN query
           /\ query[Position(p, query)].name = p
BY DEF isset, Position

(* A key that is there is found, one that is not counts as the first. *)
LEMMA SearchIs ==
    ASSUME NEW key, NEW s, 1 \in DOMAIN s
    PROVE  /\ array_search(key, s) \in DOMAIN s
           /\ (\E k \in DOMAIN s : s[k].key = key) => s[array_search(key, s)].key = key
BY DEF array_search

(* A filter is sorted by a place in the query string. *)
LEMMA PlaceType ==
    ASSUME query \in QueryStrings \cup {<<>>}, NEW i, isset(Registered[i].parameter, query)
    PROVE  /\ Place(i) \in Places
           /\ Place(i)[1] \in Nat /\ Place(i)[2] \in Nat
           /\ query[Place(i)[1]].name = Registered[i].parameter
           /\ EntriesOf(i) = query[Place(i)[1]].entries
<1> DEFINE a == Position(Registered[i].parameter, query)
<1>1. a \in DOMAIN query /\ query[a].name = Registered[i].parameter
  BY PositionIs
<1>2. EntriesOf(i) = query[a].entries
  BY DEF EntriesOf, Entries
<1>3. 1 \in DOMAIN EntriesOf(i)
  BY <1>1, <1>2, QueryShape
<1>4. array_search(Registered[i].property, EntriesOf(i)) \in DOMAIN EntriesOf(i)
  BY <1>3, SearchIs
<1> DEFINE b == Place(i)[2]
<1>5. Place(i) = <<a, b>>
  BY DEF Place
<1>6. b \in DOMAIN query[a].entries
  BY <1>2, <1>3, <1>4 DEF Place
<1>7. a \in Nat /\ b \in Nat
  BY <1>1, <1>6, QueryShape
<1> HIDE DEF a, b
<1>8. Place(i) \in {a} \X DOMAIN query[a].entries
  BY <1>5, <1>6
<1>9. Place(i)[1] = a /\ Place(i)[2] = b
  BY <1>5
<1> QED
  BY <1>1, <1>2, <1>7, <1>8, <1>9 DEF Places

(* The comparison of usort goes from left to right in the query string. *)
LEMMA BeforeByPlace ==
    ASSUME query \in QueryStrings \cup {<<>>}, NEW i, NEW j,
           isset(Registered[i].parameter, query), isset(Registered[j].parameter, query),
           Before(i, j, query)
    PROVE  Precedes(Place(i), Place(j)) \/ Place(i) = Place(j)
<1> DEFINE f == Registered[i]
           g == Registered[j]
           a == Position(f.parameter, query)
           b == Position(g.parameter, query)
<1>1. /\ a \in Nat /\ b \in Nat
      /\ query[a].name = f.parameter /\ query[b].name = g.parameter
  BY PositionIs, QueryShape
<1>2. Compare(f, g, query) < 0 \/ Compare(f, g, query) = 0
  BY DEF Before
<1>3. CASE f.parameter = g.parameter /\ is_array(f.parameter, query)
  <2> DEFINE k == array_search(f.property, EntriesOf(i))
             l == array_search(g.property, EntriesOf(j))
  <2>1. Place(i) = <<a, k>> /\ Place(j) = <<a, l>>
    BY <1>3 DEF Place
  <2>2. k \in Nat /\ l \in Nat
    BY <2>1, PlaceType
  <2>3. EntriesOf(i) = Entries(f.parameter, query) /\ EntriesOf(j) = Entries(f.parameter, query)
    BY <1>3 DEF EntriesOf
  <2>4. f.property # g.property => Compare(f, g, query) = k - l
    BY <1>3, <2>3 DEF Compare
  <2>5. f.property = g.property => k = l
    BY <2>3
  <2> HIDE DEF a, k, l
  <2>6. k < l \/ k = l
    BY <1>2, <2>2, <2>4, <2>5
  <2> QED
    BY <2>1, <2>6 DEF Precedes
<1>4. CASE ~(f.parameter = g.parameter /\ is_array(f.parameter, query))
  <2>1. Compare(f, g, query) = a - b
    BY <1>4 DEF Compare
  <2>2. a = b => Place(i) = Place(j)
    <3> HAVE a = b
    <3>1. f.parameter = g.parameter
      BY <1>1
    <3>2. ~is_array(f.parameter, query)
      BY <1>4, <3>1
    <3> QED
      BY <3>1, <3>2 DEF Place
  <2>3. Place(i)[1] = a /\ Place(j)[1] = b
    BY DEF Place
  <2> HIDE DEF a, b
  <2>4. a < b \/ a = b
    BY <1>1, <1>2, <2>1
  <2> QED
    BY <2>2, <2>3, <2>4 DEF Precedes
<1> QED
  BY <1>3, <1>4

(* The place of a filter is the entry with its property, if there is one. *)
LEMMA PlaceOfProperty ==
    ASSUME query \in QueryStrings \cup {<<>>}, NEW i, isset(Registered[i].parameter, query),
           NEW k \in DOMAIN EntriesOf(i), EntriesOf(i)[k].key = Registered[i].property
    PROVE  /\ Place(i) = <<Position(Registered[i].parameter, query), k>>
           /\ array_search(Registered[i].property, EntriesOf(i)) = k
<1> DEFINE a == Position(Registered[i].parameter, query)
           s == EntriesOf(i)
<1>1. a \in DOMAIN query /\ s = query[a].entries
  BY PositionIs DEF EntriesOf, Entries
<1>2. /\ 1 \in DOMAIN s
      /\ \A l \in DOMAIN s : s[k].key = s[l].key => k = l
      /\ (\E l \in DOMAIN s : s[l].key = NoKey) => DOMAIN s = {1}
  BY <1>1, QueryShape
<1>3. array_search(Registered[i].property, s) = k
  BY <1>2, SearchIs
<1>4. CASE is_array(Registered[i].parameter, query)
  BY <1>3, <1>4 DEF Place
<1>5. CASE ~is_array(Registered[i].parameter, query)
  <2>1. s[1].key = NoKey
    BY <1>5 DEF is_array, EntriesOf
  <2>2. k = 1
    BY <1>2, <2>1
  <2> QED
    BY <1>3, <1>5, <2>2 DEF Place
<1> QED
  BY <1>3, <1>4, <1>5

(* A filter adds to the orderings for an entry that the client wants to order
   by, ... *)
LEMMA OrdersWanted ==
    ASSUME query \in QueryStrings \cup {<<>>}, granted \subseteq DOMAIN Registered,
           NEW i \in Counts, Orders(i)
    PROVE  Place(i) \in Wanted /\ Entry(Place(i)).key = Registered[i].property
<1> DEFINE f == Registered[i]
           s == EntriesOf(i)
<1>1. isset(f.parameter, query)
  BY DEF Counts
<1>2. PICK k \in DOMAIN s : s[k].key = f.property
  BY DEF Orders, Direction, Directions
<1>3. Place(i) = <<Position(f.parameter, query), k>> /\ array_search(f.property, s) = k
  BY <1>1, <1>2, PlaceOfProperty
<1>4. Place(i) \in Places /\ query[Place(i)[1]].name = f.parameter
  BY <1>1, PlaceType
<1>5. Entry(Place(i)) = s[k]
  BY <1>3 DEF Entry, EntriesOf, Entries
<1>6. s[k].value # "" \/ f.direction # ""
  BY <1>2, <1>3 DEF Orders, Direction, Directions
<1>7. f \in Applied /\ f.class = "order"
  BY DEF Applied, Counts, Orders
<1> QED
  BY <1>2, <1>4, <1>5, <1>6, <1>7 DEF Wanted

(* ... and for each such entry one that can be read adds to them. *)
LEMMA WantedOrders ==
    ASSUME query \in QueryStrings \cup {<<>>}, granted \subseteq DOMAIN Registered,
           NEW x \in Wanted, \A i \in Counts : ~Refuses(Registered[i], EntriesOf(i))
    PROVE  \E i \in Counts : /\ Orders(i) /\ Place(i) = x
                             /\ Registered[i].property = Entry(x).key
<1>1. x \in Places
  BY DEF Wanted
<1>2. PICK i \in Counts : /\ Registered[i].class = "order"
                          /\ Registered[i].parameter = query[x[1]].name
                          /\ Registered[i].property = Entry(x).key
                          /\ Entry(x).value # "" \/ Registered[i].direction # ""
  BY DEF Wanted, Applied, Counts
<1> DEFINE f == Registered[i]
           s == EntriesOf(i)
<1>3. PICK a \in DOMAIN query : x \in {a} \X DOMAIN query[a].entries
  BY <1>1 DEF Places
<1>4. x = <<a, x[2]>> /\ x[1] = a /\ x[2] \in DOMAIN query[a].entries
  BY <1>3
<1>5. isset(f.parameter, query)
  BY DEF Counts
<1>6. Position(f.parameter, query) = a
  <2>1. /\ Position(f.parameter, query) \in DOMAIN query
        /\ query[Position(f.parameter, query)].name = f.parameter
    BY <1>5, PositionIs
  <2>2. f.parameter = query[a].name
    BY <1>2, <1>4
  <2>3. \A k, l \in DOMAIN query : query[k].name = query[l].name => k = l
    BY QueryShape
  <2> QED
    BY <2>1, <2>2, <2>3
<1>7. s = query[a].entries /\ Entry(x) = s[x[2]]
  BY <1>4, <1>6 DEF EntriesOf, Entries, Entry
<1>8. x[2] \in DOMAIN s /\ s[x[2]].key = f.property
  BY <1>2, <1>4, <1>7
<1>9. Place(i) = <<a, x[2]>> /\ array_search(f.property, s) = x[2]
  BY <1>5, <1>6, <1>8, PlaceOfProperty
<1>10. Direction(f, s) # ""
  <2>1. s[array_search(f.property, s)] = Entry(x)
    BY <1>7, <1>9
  <2>2. Direction(f, s) = IF Entry(x).value = "" THEN f.direction ELSE Entry(x).value
    BY <1>8, <2>1 DEF Direction
  <2> QED
    BY <1>2, <2>2
<1>11. Direction(f, s) \in Directions \cup {""}
  <2>1. ~Refuses(f, s) /\ f.class = "order"
    BY <1>2
  <2> QED
    BY <2>1 DEF Refuses
<1> QED
  BY <1>2, <1>4, <1>9, <1>10, <1>11 DEF Orders

-----------------------------------------------------------------------------
(* The inductive invariant *)

(* Nothing is ordered or constrained before the filters are applied. *)
Fresh == pc \in {"idle", "sort"} =>
            orderings = <<>> /\ groups = [p \in Names |-> {}]

(* While they are, those that are left count and come after those that have
   been applied, none of which refuses. *)
Sorted ==
    /\ pending \subseteq Counts
    /\ \A i \in Done, j \in pending : Before(i, j, query)
    /\ \A i \in Done : ~Refuses(Registered[i], EntriesOf(i))

(* The constraints of the filters that have been applied have been grouped. *)
Grouped == groups = [p \in Names |->
    {Constraint(i) : i \in {i \in Done : /\ Registered[i].parameter = p
                                         /\ Registered[i].class # "order"}}]

(* The orderings are those of the filters that have been applied, and one that
   precedes another has a filter that comes before all filters of the other. *)
Ordered ==
    /\ \A i \in Done : Orders(i) =>
         \E k \in DOMAIN orderings : orderings[k].property = Registered[i].property
    /\ \A k \in DOMAIN orderings :
         \E i \in Done : Orders(i) /\ Registered[i].property = orderings[k].property
    /\ \A k, l \in DOMAIN orderings :
         k < l => \E i \in Done :
                    /\ Orders(i) /\ Registered[i].property = orderings[k].property
                    /\ \A j \in Done :
                         Orders(j) /\ Registered[j].property = orderings[l].property =>
                            Before(i, j, query)

Inv ==
    /\ TypeOK
    /\ Fresh
    /\ pc \in {"apply", "found"} => Sorted /\ Grouped /\ Ordered
    /\ pc = "found" => pending = {}
    /\ pc = "refused" => \E i \in Counts : Refuses(Registered[i], EntriesOf(i))

-----------------------------------------------------------------------------
(* Types *)

Orderings == Seq([property : Properties, direction : Directions])

Distinct(os) == \A i, j \in DOMAIN os : os[i].property = os[j].property => i = j

(* A property that is there keeps its place, another one is put at the end. *)
Added(os, p, new) ==
    \/ /\ \E k \in DOMAIN os : os[k].property = p
       /\ DOMAIN new = DOMAIN os
       /\ \A k \in DOMAIN os : new[k].property = os[k].property
    \/ /\ \A k \in DOMAIN os : os[k].property # p
       /\ DOMAIN os \subseteq Nat
       /\ \E n \in Nat :
            /\ DOMAIN new = DOMAIN os \cup {n} /\ new[n].property = p
            /\ \A k \in DOMAIN os : new[k].property = os[k].property /\ k < n

LEMMA SetOrderingIs ==
    ASSUME NEW os \in Orderings, Distinct(os), NEW p \in Properties, NEW d \in Directions,
           NEW new, new = SetOrdering(os, p, d)
    PROVE  new \in Orderings /\ Distinct(new) /\ Added(os, p, new)
<1> DEFINE R == [property : Properties, direction : Directions]
<1>1. os \in Seq(R)
  BY DEF Orderings
<1> HIDE DEF R
<1>2. Len(os) \in Nat /\ DOMAIN os = 1 .. Len(os)
  BY <1>1
<1>3. CASE \E k \in DOMAIN os : os[k].property = p
  <2>1. new = [k \in DOMAIN os |-> IF os[k].property = p
                                     THEN [os[k] EXCEPT !.direction = d] ELSE os[k]]
    BY <1>3 DEF SetOrdering
  <2>2. ASSUME NEW k \in DOMAIN os
        PROVE  new[k] \in R /\ new[k].property = os[k].property
    <3>1. os[k] \in R
      BY <1>1, <2>2
    <3>2. CASE os[k].property = p
      <4>1. new[k] = [os[k] EXCEPT !.direction = d]
        BY <2>1, <2>2, <3>2
      <4> QED
        BY <3>1, <4>1 DEF R
    <3>3. CASE os[k].property # p
      BY <2>1, <2>2, <3>1, <3>3
    <3> QED
      BY <3>2, <3>3
  <2>3. DOMAIN new = DOMAIN os
    BY <2>1
  <2>4. new \in Seq(R)
    <3>1. new = [k \in 1 .. Len(os) |-> new[k]]
      BY <1>2, <2>1
    <3>2. \A k \in 1 .. Len(os) : new[k] \in R
      BY <1>2, <2>2
    <3> QED
      BY <1>2, <3>1, <3>2
  <2>5. Distinct(new)
    BY <2>2, <2>3 DEF Distinct
  <2> QED
    BY <1>3, <2>2, <2>3, <2>4, <2>5 DEF Orderings, R, Added
<1>4. CASE \A k \in DOMAIN os : os[k].property # p
  <2> DEFINE r == [property |-> p, direction |-> d]
  <2>1. new = Append(os, r)
    BY <1>4 DEF SetOrdering
  <2>2. r \in R /\ r.property = p
    BY DEF R
  <2> HIDE DEF r
  <2>3. /\ new \in Seq(R) /\ Len(new) = Len(os) + 1 /\ DOMAIN new = 1 .. Len(os) + 1
        /\ new[Len(os) + 1] = r /\ \A k \in 1 .. Len(os) : new[k] = os[k]
    BY <1>1, <2>1, <2>2
  <2> DEFINE n == Len(os) + 1
  <2>4. /\ n \in Nat /\ DOMAIN new = DOMAIN os \cup {n} /\ new[n].property = p
        /\ \A k \in DOMAIN os : new[k].property = os[k].property /\ k < n
    BY <1>2, <2>2, <2>3
  <2>5. Distinct(new)
    BY <1>4, <2>4 DEF Distinct
  <2>6. DOMAIN os \subseteq Nat
    BY <1>2
  <2> QED
    BY <1>4, <2>3, <2>4, <2>5, <2>6 DEF Orderings, R, Added
<1> QED
  BY <1>3, <1>4

-----------------------------------------------------------------------------
(* The steps *)

(* What a filter adds to the orderings if it is the next one. *)
LEMMA AppliedOrdered ==
    ASSUME Inv, pc = "apply", NEW i \in pending, filterProperty(i)
    PROVE  /\ orderings' \in Orderings /\ Distinct(orderings')
           /\ Ordered'
<1> DEFINE f == Registered[i]
           p == f.property
<1>1. /\ granted' = granted /\ query' = query /\ Counts' = Counts
      /\ i \in Counts /\ i \notin Done /\ Done' = Done \cup {i}
  BY DEF filterProperty, Counts, Done, Inv, Sorted
<1>2. \A j : Orders(j)' <=> Orders(j)
  BY <1>1 DEF Orders, EntriesOf
<1>3. \A j \in Done : Before(j, i, query)
  BY DEF Inv, Sorted
<1>4. orderings \in Orderings /\ Distinct(orderings) /\ i \in DOMAIN Registered
  BY DEF Inv, TypeOK, Orderings, Distinct
<1>5. Ordered
  BY DEF Inv
<1>6. \A j, k : Before(j, k, query)' <=> Before(j, k, query)
  BY <1>1
<1>7. CASE ~Orders(i)
  <2>1. orderings' = orderings
    BY <1>7 DEF filterProperty, Orders, EntriesOf
  <2>2. \A j \in Done' : Orders(j) => j \in Done
    BY <1>1, <1>7
  <2> QED
    BY <1>1, <1>2, <1>4, <1>5, <2>1, <2>2 DEF Ordered
<1>8. CASE Orders(i)
  <2> DEFINE d == Direction(f, EntriesOf(i))
             new == orderings'
  <2>1. new = SetOrdering(orderings, p, d) /\ d \in Directions
    BY <1>8 DEF filterProperty, Orders, EntriesOf
  <2>2. p \in Properties
    BY <1>4 DEF Properties, ToSet
  <2> HIDE DEF p, d, new
  <2>3. new \in Orderings /\ Distinct(new) /\ Added(orderings, p, new)
    BY <1>4, <2>1, <2>2, SetOrderingIs
  <2> DEFINE W(j, q) == Orders(j) /\ Registered[j].property = q
  <2>4. W(i, p) /\ \A q : W(i, q) => q = p
    BY <1>8 DEF p
  <2>5. /\ \A j \in Done : Orders(j) =>
             \E k \in DOMAIN orderings : orderings[k].property = Registered[j].property
        /\ \A k \in DOMAIN orderings : \E j \in Done : W(j, orderings[k].property)
        /\ \A k, l \in DOMAIN orderings :
             k < l => \E j \in Done :
                         /\ W(j, orderings[k].property)
                         /\ \A m \in Done : W(m, orderings[l].property) => Before(j, m, query)
    BY <1>5 DEF Ordered
  <2>6. \A j \in Done : \A q : W(j, q) => \E k \in DOMAIN orderings : orderings[k].property = q
    BY <2>5
  <2>7. ASSUME /\ \A j \in Done' : \A q : W(j, q) => \E k \in DOMAIN new : new[k].property = q
               /\ \A k \in DOMAIN new : \E j \in Done' : W(j, new[k].property)
               /\ \A k, l \in DOMAIN new :
                    k < l => \E j \in Done' :
                                /\ W(j, new[k].property)
                                /\ \A m \in Done' : W(m, new[l].property) => Before(j, m, query)
        PROVE  Ordered'
    BY <1>1, <1>2, <2>7 DEF Ordered, new
  <2> HIDE DEF W
  <2>8. CASE \E k \in DOMAIN orderings : orderings[k].property = p
    <3>1. DOMAIN new = DOMAIN orderings
          /\ \A k \in DOMAIN orderings : new[k].property = orderings[k].property
      BY <2>3, <2>8 DEF Added
    <3>2. \A j \in Done' : \A q : W(j, q) => \E k \in DOMAIN new : new[k].property = q
      BY <1>1, <2>4, <2>6, <2>8, <3>1
    <3>3. \A k \in DOMAIN new : \E j \in Done' : W(j, new[k].property)
      BY <1>1, <2>5, <3>1
    <3>4. ASSUME NEW k \in DOMAIN new, NEW l \in DOMAIN new, k < l
          PROVE  \E j \in Done' :
                    /\ W(j, new[k].property)
                    /\ \A m \in Done' : W(m, new[l].property) => Before(j, m, query)
      <4>1. PICK j \in Done :
                /\ W(j, orderings[k].property)
                /\ \A m \in Done : W(m, orderings[l].property) => Before(j, m, query)
        BY <2>5, <3>1, <3>4
      <4> QED
        BY <1>1, <1>3, <3>1, <3>4, <4>1
    <3> QED
      BY <2>3, <2>7, <3>2, <3>3, <3>4 DEF new
  <2>9. CASE \A k \in DOMAIN orderings : orderings[k].property # p
    <3>1. PICK n \in Nat :
             /\ DOMAIN new = DOMAIN orderings \cup {n} /\ new[n].property = p
             /\ \A k \in DOMAIN orderings : new[k].property = orderings[k].property /\ k < n
      BY <2>3, <2>9 DEF Added
    <3>2. \A j \in Done' : \A q : W(j, q) => \E k \in DOMAIN new : new[k].property = q
      BY <1>1, <2>4, <2>6, <3>1
    <3>3. \A k \in DOMAIN new : \E j \in Done' : W(j, new[k].property)
      BY <1>1, <2>4, <2>5, <3>1
    <3>4. DOMAIN orderings \subseteq Nat
      BY <2>3, <2>9 DEF Added
    <3>5. ASSUME NEW k \in DOMAIN new, NEW l \in DOMAIN new, k < l
          PROVE  \E j \in Done' :
                    /\ W(j, new[k].property)
                    /\ \A m \in Done' : W(m, new[l].property) => Before(j, m, query)
      <4>1. k \in DOMAIN orderings
        BY <3>1, <3>4, <3>5
      <4>2. CASE l \in DOMAIN orderings
        <5>1. PICK j \in Done :
                  /\ W(j, orderings[k].property)
                  /\ \A m \in Done : W(m, orderings[l].property) => Before(j, m, query)
          BY <2>5, <3>5, <4>1, <4>2
        <5> QED
          BY <1>1, <1>3, <3>1, <4>1, <4>2, <5>1
      <4>3. CASE l \notin DOMAIN orderings
        <5>1. PICK j \in Done : W(j, orderings[k].property)
          BY <2>5, <4>1
        <5>2. new[l].property = p
          BY <3>1, <4>3, <3>5
        <5>3. \A m \in Done' : W(m, p) => m = i
          BY <1>1, <2>6, <2>9
        <5> QED
          BY <1>1, <1>3, <3>1, <4>1, <5>1, <5>2, <5>3
      <4> QED
        BY <4>2, <4>3
    <3> QED
      BY <2>3, <2>7, <3>2, <3>3, <3>5 DEF new
  <2> QED
    BY <2>8, <2>9
<1> QED
  BY <1>7, <1>8

(* The constraint of a filter joins the others of its parameter. *)
LEMMA AppliedGrouped ==
    ASSUME Inv, pc = "apply", NEW i \in pending, filterProperty(i),
           ~Refuses(Registered[i], EntriesOf(i))
    PROVE  Grouped'
<1> DEFINE f == Registered[i]
           G(p, D) == {Constraint(j) : j \in {j \in D : /\ Registered[j].parameter = p
                                                       /\ Registered[j].class # "order"}}
<1>1. /\ query' = query /\ i \notin Done /\ Done' = Done \cup {i}
      /\ \A j : Constraint(j)' = Constraint(j)
  BY DEF filterProperty, Counts, Done, Inv, Sorted, Constraint, EntriesOf
<1>2. groups = [p \in Names |-> G(p, Done)]
  BY DEF Inv, Grouped
<1>3. ASSUME groups' = [p \in Names |-> G(p, Done')]
      PROVE  Grouped'
  BY <1>1, <1>3 DEF Grouped
<1>4. CASE f.class = "order"
  <2>1. groups' = groups
    BY <1>4 DEF filterProperty
  <2>2. \A p : G(p, Done') = G(p, Done)
    BY <1>1, <1>4
  <2> QED
    BY <1>2, <1>3, <2>1, <2>2
<1>5. CASE f.class # "order"
  <2>1. groups' = [groups EXCEPT ![f.parameter] = @ \cup {Constraint(i)}]
    BY <1>5 DEF filterProperty, Constrained, Constraint, EntriesOf
  <2>2. G(f.parameter, Done') = G(f.parameter, Done) \cup {Constraint(i)}
    BY <1>1, <1>5
  <2>3. \A p : p # f.parameter => G(p, Done') = G(p, Done)
    BY <1>1
  <2> HIDE DEF G, f
  <2>4. \A p \in Names : groups'[p] = G(p, Done')
    BY <1>2, <2>1, <2>2, <2>3
  <2>5. groups' = [p \in Names |-> groups'[p]]
    BY <1>2, <2>1
  <2>6. groups' = [p \in Names |-> G(p, Done')]
    BY <2>4, <2>5
  <2> QED
    BY <1>3, <2>6
<1> QED
  BY <1>4, <1>5

(* One turn of the loop keeps the invariant. *)
LEMMA AppliedInv ==
    ASSUME Inv, NEW i \in pending, filterProperty(i)
    PROVE  Inv'
<1> DEFINE f == Registered[i]
<1>1. pc = "apply" /\ Sorted /\ Grouped /\ Ordered /\ TypeOK
  BY DEF filterProperty, Inv
<1>2. /\ query' = query /\ granted' = granted /\ pending' = pending \ {i}
      /\ Counts' = Counts /\ i \in Counts /\ i \notin Done /\ Done' = Done \cup {i}
      /\ \A j : EntriesOf(j)' = EntriesOf(j)
      /\ pc' = IF Refuses(f, EntriesOf(i)) THEN "refused" ELSE "apply"
  BY <1>1 DEF filterProperty, Counts, Done, Sorted, EntriesOf
<1>3. orderings' \in Orderings /\ Distinct(orderings')
  BY <1>1, AppliedOrdered
<1>4. DOMAIN groups' = Names
  <2>1. groups' = groups \/ groups' = Constrained(f, EntriesOf(i))
    BY DEF filterProperty, EntriesOf
  <2> QED
    BY <1>1, <2>1 DEF Constrained, TypeOK
<1>5. TypeOK'
  BY <1>1, <1>2, <1>3, <1>4 DEF TypeOK, Orderings, Distinct
<1>6. CASE Refuses(f, EntriesOf(i))
  <2>1. pc' = "refused" /\ \E j \in Counts' : Refuses(Registered[j], EntriesOf(j)')
    BY <1>2, <1>6
  <2> QED
    BY <1>5, <2>1 DEF Inv, Fresh, Refuses, Direction
<1>7. CASE ~Refuses(f, EntriesOf(i))
  <2>1. pc' = "apply"
    BY <1>2, <1>7
  <2>2. Ordered' /\ Grouped'
    BY <1>1, <1>7, AppliedOrdered, AppliedGrouped
  <2>3. pending' \subseteq Counts'
    BY <1>1, <1>2 DEF Sorted
  <2>4. \A j \in Done', k \in pending' : Before(j, k, query)'
    <3>1. \A k \in pending' : Before(i, k, query)
      BY <1>2 DEF filterProperty
    <3>2. \A j \in Done, k \in pending' : Before(j, k, query)
      BY <1>1, <1>2 DEF Sorted
    <3> QED
      BY <1>2, <3>1, <3>2
  <2>5. \A j \in Done' : ~Refuses(Registered[j], EntriesOf(j)')
    BY <1>1, <1>2, <1>7 DEF Sorted
  <2>6. Sorted'
    BY <2>3, <2>4, <2>5 DEF Sorted, Refuses, Direction
  <2> QED
    BY <1>5, <2>1, <2>2, <2>6 DEF Inv, Fresh
<1> QED
  BY <1>6, <1>7

LEMMA InvInit == Init => Inv
<1> SUFFICES ASSUME Init PROVE Inv
  OBVIOUS
<1>1. orderings \in Seq([property : Properties, direction : Directions])
      /\ DOMAIN orderings = {}
  BY DEF Init
<1> QED
  BY <1>1 DEF Init, Inv, TypeOK, Fresh

LEMMA InvNext == Inv /\ [Next]_vars => Inv'
<1> SUFFICES ASSUME Inv, [Next]_vars PROVE Inv'
  OBVIOUS
<1>1. TypeOK
  BY DEF Inv
<1>2. CASE filterGrantedFilters
  BY <1>1, <1>2 DEF filterGrantedFilters, Inv, TypeOK, Fresh
<1>3. CASE Sort
  <2>1. /\ pending' = Counts /\ Counts' = Counts /\ Done' = {}
        /\ orderings' = orderings /\ groups' = groups /\ pc' = "apply"
    BY <1>3 DEF Sort, Counts, Done
  <2>2. orderings = <<>> /\ groups = [p \in Names |-> {}]
    BY <1>3 DEF Sort, Inv, Fresh
  <2>3. TypeOK'
    BY <1>1, <1>3, <2>1 DEF Sort, TypeOK, Counts
  <2>4. Sorted'
    BY <2>1 DEF Sorted
  <2>5. Grouped'
    BY <2>1, <2>2 DEF Grouped
  <2>6. Ordered'
    BY <2>1, <2>2 DEF Ordered
  <2> QED
    BY <2>1, <2>3, <2>4, <2>5, <2>6 DEF Inv, Fresh
<1>4. ASSUME NEW i \in pending, filterProperty(i) PROVE Inv'
  BY <1>4, AppliedInv
<1>5. CASE Join
  <2>1. UNCHANGED <<query, granted, pending, orderings, groups>>
        /\ pc = "apply" /\ pc' = "found" /\ pending = {}
    BY <1>5 DEF Join
  <2>2. Sorted /\ Grouped /\ Ordered
    BY <2>1 DEF Inv
  <2>3. Sorted' /\ Grouped' /\ Ordered'
    BY <2>1, <2>2 DEF Sorted, Grouped, Ordered, Done, Counts, Constraint, EntriesOf, Orders
  <2>4. TypeOK'
    BY <1>1, <2>1 DEF TypeOK
  <2> QED
    BY <2>1, <2>3, <2>4 DEF Inv, Fresh
<1>6. CASE Finish
  <2>1. orderings' \in Seq([property : Properties, direction : Directions])
        /\ DOMAIN orderings' = {}
    BY <1>6 DEF Finish
  <2> QED
    BY <1>6, <2>1 DEF Finish, Inv, TypeOK, Fresh
<1>7. CASE UNCHANGED vars
  <2>1. UNCHANGED <<pc, query, granted, pending, orderings, groups>>
    BY <1>7 DEF vars
  <2> QED
    BY <2>1 DEF Inv, TypeOK, Fresh, Sorted, Grouped, Ordered, Done, Counts, Constraint,
                EntriesOf, Orders
<1> QED
  BY <1>2, <1>3, <1>4, <1>5, <1>6, <1>7 DEF Next

THEOREM Invariance == Spec => []Inv
BY InvInit, InvNext, PTL DEF Spec

-----------------------------------------------------------------------------
(* The theorems *)

(* Whatever filters an operation has and whatever is asked of them, the
   variables keep their types and no property is ordered by twice. *)
THEOREM TypeCorrect == Spec => []TypeOK
<1>1. Inv => TypeOK
  BY DEF Inv
<1> QED
  BY <1>1, Invariance, PTL

(* When all filters have been applied, those that count have been applied. *)
LEMMA FoundDone ==
    ASSUME Inv, pc = "found"
    PROVE  /\ Sorted /\ Grouped /\ Ordered /\ Done = Counts
           /\ query \in QueryStrings \cup {<<>>} /\ granted \subseteq DOMAIN Registered
BY DEF Inv, TypeOK, Done

(* The orderings of a query are what the query string asks for, from left to
   right, however the filters are declared. *)
THEOREM OrderedAsRequested == Spec => []OrderingsAsRequested
<1>1. Inv => OrderingsAsRequested
  <2> SUFFICES ASSUME Inv, pc = "found"
               PROVE  /\ {o.property : o \in ToSet(orderings)} = {Entry(x).key : x \in Wanted}
                      /\ \A k, l \in DOMAIN orderings :
                           k < l => \E x \in Wanted :
                                /\ Entry(x).key = orderings[k].property
                                /\ \A y \in Wanted :
                                     Entry(y).key = orderings[l].property => Precedes(x, y)
    BY DEF OrderingsAsRequested
  <2>1. /\ Sorted /\ Ordered /\ Done = Counts
        /\ query \in QueryStrings \cup {<<>>} /\ granted \subseteq DOMAIN Registered
    BY FoundDone
  <2>2. \A i \in Counts : ~Refuses(Registered[i], EntriesOf(i))
    BY <2>1 DEF Sorted
  <2>3. \A i \in Counts : Orders(i) =>
           Place(i) \in Wanted /\ Entry(Place(i)).key = Registered[i].property
    BY <2>1, OrdersWanted
  <2>4. \A x \in Wanted : \E i \in Counts :
           Orders(i) /\ Place(i) = x /\ Registered[i].property = Entry(x).key
    BY <2>1, <2>2, WantedOrders
  <2>5. ASSUME NEW k \in DOMAIN orderings
        PROVE  \E x \in Wanted : Entry(x).key = orderings[k].property
    BY <2>1, <2>3, <2>5 DEF Ordered
  <2>6. ASSUME NEW x \in Wanted
        PROVE  \E k \in DOMAIN orderings : orderings[k].property = Entry(x).key
    <3>1. PICK i \in Counts : Orders(i) /\ Registered[i].property = Entry(x).key
      BY <2>4
    <3> QED
      BY <2>1, <3>1 DEF Ordered
  <2>7. {o.property : o \in ToSet(orderings)} = {Entry(x).key : x \in Wanted}
    BY <2>5, <2>6 DEF ToSet
  <2>8. ASSUME NEW k \in DOMAIN orderings, NEW l \in DOMAIN orderings, k < l
        PROVE  \E x \in Wanted :
                  /\ Entry(x).key = orderings[k].property
                  /\ \A y \in Wanted : Entry(y).key = orderings[l].property => Precedes(x, y)
    <3>1. PICK i \in Counts :
             /\ Orders(i) /\ Registered[i].property = orderings[k].property
             /\ \A j \in Counts :
                  Orders(j) /\ Registered[j].property = orderings[l].property =>
                     Before(i, j, query)
      BY <2>1, <2>8 DEF Ordered
    <3>2. Place(i) \in Wanted /\ Entry(Place(i)).key = orderings[k].property
      BY <2>3, <3>1
    <3>3. orderings[k].property # orderings[l].property
      <4>1. k # l
        <5>1. DOMAIN orderings \subseteq Nat
          BY DEF Inv, TypeOK
        <5> QED
          BY <2>8, <5>1
      <4> QED
        BY <4>1 DEF Inv, TypeOK
    <3>4. ASSUME NEW y \in Wanted, Entry(y).key = orderings[l].property
          PROVE  Precedes(Place(i), y)
      <4>1. PICK j \in Counts : Orders(j) /\ Place(j) = y
                                /\ Registered[j].property = Entry(y).key
        BY <2>4
      <4>2. Before(i, j, query)
        BY <3>1, <3>4, <4>1
      <4>3. isset(Registered[i].parameter, query) /\ isset(Registered[j].parameter, query)
        BY DEF Counts
      <4>4. Precedes(Place(i), y) \/ Place(i) = y
        BY <2>1, <4>1, <4>2, <4>3, BeforeByPlace
      <4> QED
        BY <3>2, <3>3, <3>4, <4>4
    <3> QED
      BY <3>2, <3>4
  <2> QED
    BY <2>7, <2>8
<1> QED
  BY <1>1, Invariance, PTL

(* The records of a query are those the filters that count let through: by OR
   within a parameter, by AND between parameters. *)
THEOREM FindsAsDocumented == Spec => []FoundAsDocumented
<1>1. Inv => FoundAsDocumented
  <2> SUFFICES ASSUME Inv, pc = "found" PROVE FoundAsDocumented
    BY DEF FoundAsDocumented
  <2> DEFINE Passes(r, f, e) ==
               \/ f.class = "equal" /\ r[f.property] = e.value
               \/ f.class = "range" /\ e.key = "gt" /\ r[f.property] > e.value
               \/ f.class = "range" /\ e.key = "lt" /\ r[f.property] < e.value
             Filtering == {f \in Applied : f.class # "order"}
  <2>1. Grouped /\ Done = Counts /\ granted \subseteq DOMAIN Registered
    BY FoundDone
  <2>2. \A p \in Names : groups[p] =
           {Constraint(i) : i \in {i \in Counts : /\ Registered[i].parameter = p
                                                  /\ Registered[i].class # "order"}}
    BY <2>1 DEF Grouped
  <2>3. ASSUME NEW r, NEW i
        PROVE  Holds(Constraint(i), r) <=>
                  \E e \in ToSet(EntriesOf(i)) : Passes(r, Registered[i], e)
    BY DEF Holds, Constraint
  <2>4. \A f : f \in Applied <=> \E i \in Counts : f = Registered[i]
    BY DEF Applied, Counts
  <2>5. ASSUME NEW r, NEW p \in Names
        PROVE  (\E c \in groups[p] : Holds(c, r)) <=>
               (\E f \in Applied, e \in ToSet(Entries(p, query)) :
                   f.parameter = p /\ Passes(r, f, e))
    <3>1. (\E c \in groups[p] : Holds(c, r)) <=>
          (\E i \in Counts : /\ Registered[i].parameter = p
                             /\ Registered[i].class # "order"
                             /\ Holds(Constraint(i), r))
      BY <2>2
    <3>2. \A f, e : Passes(r, f, e) => f.class # "order"
      OBVIOUS
    <3> HIDE DEF Passes
    <3>3. (\E c \in groups[p] : Holds(c, r)) <=>
          (\E i \in Counts : /\ Registered[i].parameter = p
                             /\ \E e \in ToSet(EntriesOf(i)) : Passes(r, Registered[i], e))
      BY <2>3, <3>1, <3>2
    <3> QED
      BY <2>4, <3>3 DEF EntriesOf
  <2>6. \A p \in Names : groups[p] # {} <=> p \in {f.parameter : f \in Filtering}
    BY <2>2, <2>4
  <2>7. {f.parameter : f \in Filtering} \subseteq Names
    BY <2>1 DEF Applied, Names, ToSet
  <2>8. \A r : (\A p \in Names : groups[p] # {} => \E c \in groups[p] : Holds(c, r)) <=>
               (\A p \in {f.parameter : f \in Filtering} :
                   \E f \in Applied, e \in ToSet(Entries(p, query)) :
                      f.parameter = p /\ Passes(r, f, e))
    <3> HIDE DEF Passes, Filtering
    <3> QED
      BY <2>5, <2>6, <2>7
  <2> QED
    BY <2>8 DEF FoundAsDocumented, Result
<1> QED
  BY <1>1, Invariance, PTL

(* A request is refused for a filter that counts, and none is served that one
   of them refuses. *)
THEOREM RefusesForReason == Spec => []RefusedForReason
<1>1. Inv => RefusedForReason
  <2> SUFFICES ASSUME Inv PROVE RefusedForReason
    OBVIOUS
  <2>1. \A f : f \in Applied <=> \E i \in Counts : f = Registered[i]
    BY DEF Applied, Counts
  <2>2. pc = "refused" => \E i \in Counts : Refuses(Registered[i], EntriesOf(i))
    BY DEF Inv
  <2>3. pc = "found" => \A i \in Counts : ~Refuses(Registered[i], EntriesOf(i))
    BY FoundDone DEF Sorted
  <2> QED
    BY <2>1, <2>2, <2>3 DEF RefusedForReason, EntriesOf
<1> QED
  BY <1>1, Invariance, PTL
=================================================================================
