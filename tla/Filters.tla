--------------------------------- MODULE Filters ----------------------------------
(***************************************************************************)
(* CommonRepository::findFiltered: the filters of a collection operation   *)
(* that are granted and named in the query string are sorted in the order  *)
(* of the query string and applied one after the other.  An order filter   *)
(* adds to the orderings of the query, the others give constraints, which  *)
(* are joined by OR within a parameter and by AND between parameters.      *)
(*                                                                         *)
(* A query string is a sequence of parameters, and the value of one a      *)
(* sequence of entries; a parameter without brackets has a single entry    *)
(* with the key NoKey.                                                     *)
(***************************************************************************)
EXTENDS Integers, Sequences, SequencesExt

CONSTANTS
    Registered,     \* the filters of the operation, as they are declared
    QueryStrings,   \* the query strings clients send
    Records,        \* values of the properties a record may have
    NoKey

VARIABLES
    pc,             \* "idle", "sort", "apply", "found", "refused"
    query,          \* the query string
    granted,        \* the indices in Registered that have been granted
    pending,        \* the indices of the filters still to apply
    orderings,      \* the orderings of the query: [property, direction]
    groups          \* groups[p]: the constraints of the parameter p

vars == <<pc, query, granted, pending, orderings, groups>>

Directions == {"asc", "desc"}
Operators  == {"gt", "lt"}

Names == {f.parameter : f \in ToSet(Registered)}

-----------------------------------------------------------------------------
(* The filters are a list. *)
ASSUME RegisteredAssumption == Registered \in Seq(ToSet(Registered))

(* The keys of a PHP array are distinct, and parse_str makes no empty ones;
   a parameter without brackets is no array. *)
ASSUME QueryAssumption ==
    \A q \in QueryStrings :
        /\ q \in Seq(ToSet(q))
        /\ \A i, j \in DOMAIN q : q[i].name = q[j].name => i = j
        /\ \A i \in DOMAIN q :
             LET entries == q[i].entries
             IN  /\ entries \in Seq(ToSet(entries)) \ {<<>>}
                 /\ \A k, l \in DOMAIN entries : entries[k].key = entries[l].key => k = l
                 /\ (\E k \in DOMAIN entries : entries[k].key = NoKey) => Len(entries) = 1

-----------------------------------------------------------------------------
(* The position of a parameter, of a key in it; array_search's false is 0. *)
Position(p, q) == CHOOSE i \in DOMAIN q : q[i].name = p

isset(p, q) == \E i \in DOMAIN q : q[i].name = p

Entries(p, q) == q[Position(p, q)].entries

is_array(p, q) == Entries(p, q)[1].key # NoKey

array_search(key, entries) ==
    IF \E i \in DOMAIN entries : entries[i].key = key
      THEN CHOOSE i \in DOMAIN entries : entries[i].key = key
      ELSE 1

(* The comparison of usort. *)
Compare(f, g, q) ==
    IF f.parameter = g.parameter /\ f.property # g.property /\ is_array(f.parameter, q)
      THEN LET entries == Entries(f.parameter, q)
           IN  array_search(f.property, entries) - array_search(g.property, entries)
      ELSE Position(f.parameter, q) - Position(g.parameter, q)

(* Mutant: the filters stay as they are declared. *)
AsDeclared(i, j, q) == i < j

(* filterAndSortApiFiltersByQueryParams: whether the filter i is applied before
   the filter j; usort is stable. *)
Before(i, j, q) ==
    \/ Compare(Registered[i], Registered[j], q) < 0
    \/ Compare(Registered[i], Registered[j], q) = 0 /\ i < j

-----------------------------------------------------------------------------
(* What the filters do with the value of their parameter *)

(* OrderFilter: "" is the default direction of the filter, which may be "". *)
Direction(f, entries) ==
    LET value == entries[array_search(f.property, entries)].value
    IN  IF \A i \in DOMAIN entries : entries[i].key # f.property THEN ""
        ELSE IF value = "" THEN f.direction ELSE value

(* Mutant: a property that is there is added once more. *)
AppendOrdering(os, property, direction) ==
    Append(os, [property |-> property, direction |-> direction])

(* array_merge: a property that is there keeps its place. *)
SetOrdering(os, property, direction) ==
    IF \E i \in DOMAIN os : os[i].property = property
      THEN [i \in DOMAIN os |-> IF os[i].property = property
                                  THEN [os[i] EXCEPT !.direction = direction] ELSE os[i]]
      ELSE Append(os, [property |-> property, direction |-> direction])

(* The constraint of a filter: SearchFilter and NumericFilter take any of
   several values, RangeFilter joins its bounds by OR as well. *)
Holds(c, record) ==
    \E entry \in ToSet(c.entries) :
        \/ c.class = "equal" /\ record[c.property] = entry.value
        \/ c.class = "range" /\ entry.key = "gt" /\ record[c.property] > entry.value
        \/ c.class = "range" /\ entry.key = "lt" /\ record[c.property] < entry.value

(* Unknown directions and operators are exceptions. *)
Refuses(f, entries) ==
    \/ f.class = "order" /\ Direction(f, entries) \notin Directions \cup {""}
    \/ f.class = "range" /\ \E e \in ToSet(entries) : e.key \notin Operators

(* Mutant: the constraint of a filter takes the place of the one before. *)
ConstrainedByLast(f, entries) ==
    [groups EXCEPT ![f.parameter] = {[class |-> f.class, property |-> f.property,
                                      entries |-> entries]}]

Constrained(f, entries) ==
    [groups EXCEPT ![f.parameter] = @ \cup {[class |-> f.class, property |-> f.property,
                                             entries |-> entries]}]

-----------------------------------------------------------------------------
Init ==
    /\ pc = "idle"
    /\ query = <<>>
    /\ granted = {}
    /\ pending = {}
    /\ orderings = <<>>
    /\ groups = [p \in Names |-> {}]

(* filterGrantedFilters: each condition may grant or not. *)
filterGrantedFilters ==
    /\ pc = "idle"
    /\ pc' = "sort"
    /\ query' \in QueryStrings
    /\ granted' \in SUBSET DOMAIN Registered
    /\ UNCHANGED <<pending, orderings, groups>>

(* Mutant: the conditions of the filters are evaluated in vain. *)
SortUngranted ==
    /\ pc = "sort"
    /\ pc' = "apply"
    /\ pending' = {i \in DOMAIN Registered : isset(Registered[i].parameter, query)}
    /\ UNCHANGED <<query, granted, orderings, groups>>

Sort ==
    /\ pc = "sort"
    /\ pc' = "apply"
    /\ pending' = {i \in granted : isset(Registered[i].parameter, query)}
    /\ UNCHANGED <<query, granted, orderings, groups>>

(* One turn of the loop, for the first of the filters that are left. *)
filterProperty(i) ==
    LET f == Registered[i]
        entries == Entries(f.parameter, query)
    IN  /\ pc = "apply"
        /\ \A j \in pending \ {i} : Before(i, j, query)
        /\ pending' = pending \ {i}
        /\ pc' = IF Refuses(f, entries) THEN "refused" ELSE pc
        /\ orderings' = IF f.class = "order" /\ Direction(f, entries) \in Directions
                          THEN SetOrdering(orderings, f.property, Direction(f, entries))
                          ELSE orderings
        /\ groups' = IF f.class # "order" /\ ~Refuses(f, entries)
                       THEN Constrained(f, entries) ELSE groups
        /\ UNCHANGED <<query, granted>>

(* matching: the constraints are joined. *)
Join ==
    /\ pc = "apply"
    /\ pending = {}
    /\ pc' = "found"
    /\ UNCHANGED <<query, granted, pending, orderings, groups>>

Result == {r \in Records : \A p \in Names :
                groups[p] # {} => \E c \in groups[p] : Holds(c, r)}

Finish ==
    /\ pc \in {"found", "refused"}
    /\ pc' = "idle"
    /\ query' = <<>>
    /\ granted' = {}
    /\ pending' = {}
    /\ orderings' = <<>>
    /\ groups' = [p \in Names |-> {}]

Next ==
    \/ filterGrantedFilters
    \/ Sort
    \/ \E i \in pending : filterProperty(i)
    \/ Join
    \/ Finish

Spec == Init /\ [][Next]_vars

-----------------------------------------------------------------------------
(* Properties *)

Properties == {f.property : f \in ToSet(Registered)}

(* Every variable keeps its type: nothing is ordered twice by one property. *)
TypeOK ==
    /\ pc \in {"idle", "sort", "apply", "found", "refused"}
    /\ query \in QueryStrings \cup {<<>>}
    /\ granted \subseteq DOMAIN Registered
    /\ pending \subseteq DOMAIN Registered
    /\ orderings \in Seq([property : Properties, direction : Directions])
    /\ \A i, j \in DOMAIN orderings :
         orderings[i].property = orderings[j].property => i = j
    /\ DOMAIN groups = Names

(* The filters that count. *)
Applied == {Registered[i] : i \in {i \in granted : isset(Registered[i].parameter, query)}}

(* The entries of the query string, from left to right. *)
Places == UNION {{a} \X DOMAIN query[a].entries : a \in DOMAIN query}

Entry(x) == query[x[1]].entries[x[2]]

Precedes(x, y) == \/ x[1] < y[1]
                  \/ x[1] = y[1] /\ x[2] < y[2]

(* What a client asks to order by: the entries for which there is a granted
   order filter with a direction. *)
Wanted == {x \in Places : \E f \in Applied :
               /\ f.class = "order"
               /\ f.parameter = query[x[1]].name
               /\ f.property = Entry(x).key
               /\ Entry(x).value # "" \/ f.direction # ""}

(* The records are ordered first by what the query string names first, by
   each property once, whatever the order in which the filters are declared
   and whichever of them are granted, over all parameters that order. *)
OrderingsAsRequested ==
    pc = "found" =>
        /\ {o.property : o \in ToSet(orderings)} = {Entry(x).key : x \in Wanted}
        /\ \A i, j \in DOMAIN orderings :
             i < j => \E x \in Wanted :
                         /\ Entry(x).key = orderings[i].property
                         /\ \A y \in Wanted :
                              Entry(y).key = orderings[j].property => Precedes(x, y)

(* A record is found if each parameter that filters lets it through, and a
   parameter does if one of its filters does: AND between parameters, OR
   between the properties of one, and nothing by filters that are not granted. *)
FoundAsDocumented ==
    pc = "found" =>
        Result = {r \in Records :
            \A p \in {f.parameter : f \in {f \in Applied : f.class # "order"}} :
                \E f \in Applied, e \in ToSet(Entries(p, query)) :
                    /\ f.parameter = p
                    /\ \/ f.class = "equal" /\ r[f.property] = e.value
                       \/ f.class = "range" /\ e.key = "gt" /\ r[f.property] > e.value
                       \/ f.class = "range" /\ e.key = "lt" /\ r[f.property] < e.value}

(* A query string is refused for what a filter that counts cannot read, and
   never for what a filter does that is not granted. *)
RefusedForReason ==
    /\ pc = "refused" => \E f \in Applied : Refuses(f, Entries(f.parameter, query))
    /\ pc = "found" => \A f \in Applied : ~Refuses(f, Entries(f.parameter, query))
================================================================================
