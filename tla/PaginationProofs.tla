---------------------------- MODULE PaginationProofs ----------------------------
(***************************************************************************)
(* What a client that follows hydra:next is shown, for any settings, query *)
(* parameters and number of records.                                       *)
(***************************************************************************)
EXTENDS Pagination, SequenceTheorems, TLAPS

-----------------------------------------------------------------------------
(* Arithmetic of pages *)

LEMMA Products ==
    ASSUME NEW p \in Int, NEW n \in Int
    PROVE  /\ (p - 1) * n + n = p * n
           /\ (p + 1 - 1) * n = (p - 1) * n + n
           /\ p * n \in Int /\ (p - 1) * n \in Int
  OBVIOUS

(* The last page is the one with the last record. *)
LEMMA Rounded ==
    ASSUME NEW t \in Nat, NEW n \in Nat \ {0}
    PROVE  LET q == (t + n - 1) \div n
           IN  /\ q \in Nat /\ q <= t
               /\ q * n >= t
               /\ t > 0 => q >= 1
               /\ (q - 1) * n < t \/ t = 0
<1> DEFINE q == (t + n - 1) \div n
<1>1. q \in Int /\ n * q <= t + n - 1 /\ t + n - 1 < n * q + n
  OBVIOUS
<1> HIDE DEF q
<1>2. q * n = n * q /\ (q - 1) * n = q * n - n /\ q * n \in Int
  BY <1>1
<1>3. q * n >= t
  BY <1>1, <1>2
<1>4. q >= 0
  BY <1>1
<1>5. t > 0 => q >= 1
  BY <1>1
<1>6. (q - 1) * n < t \/ t = 0
  BY <1>1, <1>2
<1>7. q <= t
  BY <1>1
<1> QED
  BY <1>1, <1>3, <1>4, <1>5, <1>6, <1>7 DEF q

(* A smaller page has a smaller product. *)
LEMMA Monotone ==
    ASSUME NEW p \in Int, NEW q \in Int, NEW n \in Nat, q <= p
    PROVE  q * n <= p * n
  OBVIOUS

(* An offset that is not negative is that of a page. *)
LEMMA PageOfOffset ==
    ASSUME NEW p \in Int, NEW n \in Nat \ {0}, (p - 1) * n >= 0
    PROVE  p >= 1
  OBVIOUS

-----------------------------------------------------------------------------
(* The settings and the parameters of a request *)

(* The parameters have the types they are cast to. *)
Params ==
    /\ DOMAIN parameters \subseteq {"page", "itemsPerPage", "pagination"}
    /\ isset("page") => parameters["page"] \in Int
    /\ isset("itemsPerPage") => parameters["itemsPerPage"] \in Int
    /\ isset("pagination") => parameters["pagination"] \in BOOLEAN

LEMMA LeastOfTwo ==
    ASSUME NEW a \in Int, NEW b \in Int, {a, b} \ {0} # {}
    PROVE  \E n \in {a, b} \ {0} : \A m \in {a, b} \ {0} : n <= m
<1>1. CASE a = 0 \/ (b # 0 /\ b <= a)
  <2>1. b \in {a, b} \ {0} /\ \A m \in {a, b} \ {0} : b <= m
    BY <1>1
  <2> QED
    BY <2>1
<1>2. CASE b = 0 \/ (a # 0 /\ a <= b)
  <2>1. a \in {a, b} \ {0} /\ \A m \in {a, b} \ {0} : a <= m
    BY <1>2
  <2> QED
    BY <2>1
<1> QED
  BY <1>1, <1>2

LEMMA LimitsType ==
    ASSUME settings \in AllSettings, Params
    PROVE  /\ isEnabled \in BOOLEAN /\ getPage \in Int /\ Limits \subseteq Int
           /\ Limits # {} => /\ getNumberOfItemsPerPage \in Limits
                             /\ \A m \in Limits : getNumberOfItemsPerPage <= m
<1> DEFINE size == IF settings.clientItemsPerPage /\ isset("itemsPerPage")
                     THEN parameters["itemsPerPage"]
                     ELSE settings.itemsPerPage
<1>1. /\ settings.serverEnabled \in BOOLEAN
      /\ settings.itemsPerPage \in Int /\ settings.maximumItemsPerPage \in Int
  BY PaginationAssumption
<1>2. isEnabled \in BOOLEAN
  BY <1>1 DEF isEnabled, Params
<1>3. getPage \in Int
  BY DEF getPage, Params
<1>4. size \in Int
  BY <1>1 DEF Params
<1>5. Limits = {settings.maximumItemsPerPage, size} \ {0}
  BY DEF Limits
<1> HIDE DEF size
<1>6. Limits \subseteq Int
  BY <1>1, <1>4, <1>5
<1>7. ASSUME Limits # {}
      PROVE  /\ getNumberOfItemsPerPage \in Limits
             /\ \A m \in Limits : getNumberOfItemsPerPage <= m
  <2>1. \E n \in Limits : \A m \in Limits : n <= m
    BY <1>1, <1>4, <1>5, <1>7, LeastOfTwo
  <2> QED
    BY <2>1 DEF getNumberOfItemsPerPage
<1> QED
  BY <1>2, <1>3, <1>6, <1>7

(* A request that is not refused asks for a page from the first one on, of one
   record or more. *)
LEMMA PageType ==
    ASSUME settings \in AllSettings, Params, ~Refused
    PROVE  /\ getNumberOfItemsPerPage \in Nat \ {0}
           /\ getNumberOfItemsPerPage \in Limits
           /\ \A m \in Limits : getNumberOfItemsPerPage <= m
           /\ getPage \in Nat \ {0}
           /\ getOffset \in Nat
           /\ getOffset = (getPage - 1) * getNumberOfItemsPerPage
           /\ getOffset + getNumberOfItemsPerPage = getPage * getNumberOfItemsPerPage
<1>1. /\ Limits # {} /\ getNumberOfItemsPerPage >= 1 /\ getOffset >= 0
  <2>1. Limits # {}
    BY DEF Refused
  <2>2. getPage \in Int /\ getNumberOfItemsPerPage \in Int
    BY <2>1, LimitsType
  <2>3. getOffset \in Int
    BY <2>2, Products DEF getOffset
  <2> QED
    BY <2>1, <2>2, <2>3 DEF Refused
<1>2. /\ getPage \in Int /\ getNumberOfItemsPerPage \in Limits
      /\ getNumberOfItemsPerPage \in Nat \ {0}
      /\ \A m \in Limits : getNumberOfItemsPerPage <= m
  BY <1>1, LimitsType
<1>3. getOffset = (getPage - 1) * getNumberOfItemsPerPage
  BY DEF getOffset
<1>4. getPage >= 1
  BY <1>1, <1>2, <1>3, PageOfOffset
<1>5. /\ (getPage - 1) * getNumberOfItemsPerPage \in Int
      /\ (getPage - 1) * getNumberOfItemsPerPage + getNumberOfItemsPerPage
           = getPage * getNumberOfItemsPerPage
  BY <1>2, Products
<1> QED
  BY <1>1, <1>2, <1>3, <1>4, <1>5

(* Most steps leave the request as it is. *)
LEMMA SameRequest ==
    ASSUME UNCHANGED <<settings, parameters>>
    PROVE  UNCHANGED <<isEnabled, getPage, Limits, getNumberOfItemsPerPage, getOffset,
                       Refused, Params>>
  BY DEF isEnabled, getPage, Limits, getNumberOfItemsPerPage, getOffset, Refused,
         Params, isset

-----------------------------------------------------------------------------
(* Types *)

(* TypeOK without the view, and what makes it inductive: there are no more
   records than have been created. *)
Typed ==
    /\ settings \in AllSettings
    /\ Params
    /\ created \in InitialItems..MaxItems
    /\ items \in Seq(1..created) /\ Len(items) <= created
    /\ \A i, j \in 1..Len(items) : i < j => items[i] < items[j]
    /\ pc \in {"idle", "members", "total", "view", "answered", "failed"}
    /\ members \in Seq(1..created)
    /\ total \in 0..MaxItems
    /\ seen \subseteq 1..created
    /\ awaited \subseteq 1..created
    /\ repeated \in BOOLEAN

(* The table after a deletion. *)
LEMMA Removed ==
    ASSUME Typed, NEW n \in 1..Len(items), items' = RemoveAt(items, n)
    PROVE  /\ items' \in Seq(1..created)
           /\ Len(items') = Len(items) - 1
           /\ \A i \in 1..Len(items') :
                items'[i] = IF i < n THEN items[i] ELSE items[i + 1]
<1> DEFINE l == SubSeq(items, 1, n - 1)
           r == SubSeq(items, n + 1, Len(items))
<1>1. items \in Seq(1..created) /\ Len(items) \in Nat
  BY LenProperties DEF Typed
<1>2. \A i \in 1..Len(items) : items[i] \in 1..created
  BY <1>1, ElementOfSeq
<1>3. /\ l \in Seq(1..created) /\ Len(l) = n - 1
      /\ \A i \in 1..(n - 1) : l[i] = items[i]
  <2>1. \A i \in 1..(n - 1) : items[i] \in 1..created
    BY <1>1, <1>2
  <2> QED
    BY <2>1, <1>1, SubSeqProperties
<1>4. /\ r \in Seq(1..created) /\ Len(r) = Len(items) - n
      /\ \A i \in 1..(Len(items) - n) : r[i] = items[n + i]
  <2>1. \A i \in (n + 1)..Len(items) : items[i] \in 1..created
    BY <1>1, <1>2
  <2> QED
    BY <2>1, <1>1, SubSeqProperties
<1>5. items' = l \o r
  BY DEF RemoveAt
<1> HIDE DEF l, r
<1>6. /\ items' \in Seq(1..created) /\ Len(items') = Len(items) - 1
      /\ \A i \in 1..Len(items') : items'[i] = IF i <= n - 1 THEN l[i] ELSE r[i - (n - 1)]
  BY <1>1, <1>3, <1>4, <1>5, ConcatProperties
<1>7. ASSUME NEW i \in 1..Len(items')
      PROVE  items'[i] = IF i < n THEN items[i] ELSE items[i + 1]
  <2>1. CASE i < n
    BY <1>1, <1>3, <1>6, <2>1
  <2>2. CASE i >= n
    <3>1. i - (n - 1) \in 1..(Len(items) - n) /\ n + (i - (n - 1)) = i + 1
      BY <1>1, <1>6, <2>2
    <3>2. r[i - (n - 1)] = items[i + 1]
      BY <1>4, <3>1
    <3> QED
      BY <1>1, <1>6, <2>2, <3>2
  <2> QED
    BY <2>1, <2>2
<1> QED
  BY <1>6, <1>7

(* The table after a creation. *)
LEMMA Appended ==
    ASSUME Typed, Create
    PROVE  /\ created' = created + 1 /\ created' \in InitialItems..MaxItems
           /\ items' \in Seq(1..created')
           /\ Len(items') = Len(items) + 1
           /\ \A i \in 1..Len(items) : items'[i] = items[i]
           /\ items'[Len(items) + 1] = created + 1
<1>1. created \in Nat /\ created' = created + 1 /\ created' \in InitialItems..MaxItems
  BY PaginationAssumption DEF Typed, Create
<1>2. 1..created \subseteq 1..created' /\ created + 1 \in 1..created'
  BY <1>1
<1>3. items \in Seq(1..created')
  BY <1>2, SeqMonotonic DEF Typed
<1>4. items' = Append(items, created + 1)
  BY DEF Create
<1> QED
  BY <1>1, <1>2, <1>3, <1>4, AppendProperties

(* The page that is read: N records from the offset on, or what there is. *)
LEMMA PageRead ==
    ASSUME Typed, pc = "members", isEnabled, ~Refused, GetMembers
    PROVE  /\ members' \in Seq(1..created)
           /\ Len(members') \in Nat /\ Len(members') <= getNumberOfItemsPerPage
           /\ \A i \in 1..Len(members') :
                /\ getOffset + i \in 1..Len(items)
                /\ members'[i] = items[getOffset + i]
           /\ \A k \in (getOffset + 1)..Len(items) :
                k <= getOffset + getNumberOfItemsPerPage => k - getOffset \in 1..Len(members')
<1> DEFINE end == getOffset + getNumberOfItemsPerPage
           last == IF end < Len(items) THEN end ELSE Len(items)
<1>1. getNumberOfItemsPerPage \in Nat \ {0} /\ getOffset \in Nat
  BY PageType DEF Typed
<1>2. items \in Seq(1..created) /\ Len(items) \in Nat
  BY LenProperties DEF Typed
<1>3. members' = SubSeq(items, getOffset + 1, last)
  BY DEF GetMembers
<1>4. end \in Nat /\ last \in Nat /\ last <= Len(items) /\ last <= end
  BY <1>1, <1>2
<1>5. \A i \in (getOffset + 1)..last : items[i] \in 1..created
  <2>1. (getOffset + 1)..last \subseteq 1..Len(items)
    BY <1>1, <1>2, <1>4
  <2> QED
    BY <1>2, <2>1, ElementOfSeq
<1>6. \A k \in (getOffset + 1)..Len(items) : k <= end => k <= last
  BY <1>1, <1>2
<1>7. last - (getOffset + 1) + 1 = last - getOffset /\ last - getOffset <= getNumberOfItemsPerPage
  BY <1>1, <1>2, <1>4
<1> HIDE DEF last
<1>8. /\ members' \in Seq(1..created)
      /\ Len(members') = IF getOffset + 1 <= last THEN last - getOffset ELSE 0
      /\ \A i \in 1..(last - getOffset) : members'[i] = items[getOffset + 1 + i - 1]
  BY <1>1, <1>3, <1>4, <1>5, <1>7, SubSeqProperties
<1>9. Len(members') \in Nat /\ Len(members') <= getNumberOfItemsPerPage
  BY <1>1, <1>4, <1>7, <1>8
<1>10. ASSUME NEW i \in 1..Len(members')
       PROVE  getOffset + i \in 1..Len(items) /\ members'[i] = items[getOffset + i]
  <2>1. i \in 1..(last - getOffset)
    BY <1>1, <1>4, <1>8
  <2>2. getOffset + 1 + i - 1 = getOffset + i /\ getOffset + i \in 1..Len(items)
    BY <1>1, <1>2, <1>4, <2>1
  <2> QED
    BY <1>8, <2>1, <2>2
<1>11. ASSUME NEW k \in (getOffset + 1)..Len(items), k <= end
       PROVE  k - getOffset \in 1..Len(members')
  <2>1. k <= last
    BY <1>6, <1>11
  <2> QED
    BY <1>1, <1>2, <1>4, <1>8, <2>1
<1> QED
  BY <1>8, <1>9, <1>10, <1>11

LEMMA InitTyped == Init => Typed
<1> SUFFICES ASSUME Init PROVE Typed
  OBVIOUS
<1>1. InitialItems \in Nat /\ created = InitialItems /\ created \in InitialItems..MaxItems
  BY PaginationAssumption DEF Init
<1>2. items = [i \in 1..InitialItems |-> i]
  BY DEF Init
<1>3. items \in Seq(1..created) /\ Len(items) = created
  BY <1>1, <1>2
<1>4. \A i, j \in 1..Len(items) : i < j => items[i] < items[j]
  BY <1>1, <1>2, <1>3
<1>5. Params
  BY DEF Init, NoView, Params, isset
<1>6. 0 \in 0..MaxItems
  BY PaginationAssumption
<1>7. <<>> \in Seq(1..created) /\ Len(items) <= created
  BY <1>1, <1>3
<1>8. /\ settings \in AllSettings /\ pc = "idle" /\ members = <<>> /\ total = 0
      /\ seen = {} /\ awaited = {} /\ repeated = FALSE
  BY DEF Init
<1> QED
  BY <1>1, <1>3, <1>4, <1>5, <1>6, <1>7, <1>8 DEF Typed

(* Types of the steps of the client, which leave the table alone. *)
LEMMA ReaderTyped ==
    ASSUME Typed, UNCHANGED <<settings, table>>,
           Params',
           pc' \in {"idle", "members", "total", "view", "answered", "failed"},
           members' \in Seq(1..created), total' \in 0..MaxItems,
           seen' \subseteq 1..created, awaited' \subseteq 1..created, repeated' \in BOOLEAN
    PROVE  Typed'
  BY DEF Typed, table

LEMMA ElementsType ==
    ASSUME NEW S, NEW s \in Seq(S) PROVE Elements(s) \subseteq S
  BY ElementOfSeq DEF Elements

(* The client is in one phase of its request, and the view is that of the answer.
   A request that is refused is the first of a reading, for the pages a view
   names are not refused. *)
Asked ==
    /\ pc \in {"idle", "members", "failed"} => members = <<>>
    /\ pc # "answered" => view = NoView
    /\ pc = "answered" => view = IF isEnabled THEN View ELSE NoView
    /\ pc \in {"total", "view", "answered"} /\ isEnabled =>
         ~Refused /\ Len(members) <= getNumberOfItemsPerPage
    /\ pc \in {"members", "total", "view"} /\ ~isEnabled => seen = {}
    /\ pc = "idle" => seen = {} /\ ~repeated

(* What the view says of the pages. *)
LEMMA ViewType ==
    ASSUME Typed, ~Refused
    PROVE  /\ LastPage \in Nat /\ LastPage <= total
           /\ LastPage * getNumberOfItemsPerPage >= total
           /\ total > 0 => /\ LastPage >= 1
                           /\ (LastPage - 1) * getNumberOfItemsPerPage < total
           /\ View["last"] = LastPage
           /\ View["pages"] = range(LastPage)
           /\ DOMAIN View \subseteq {"first", "last", "prev", "next", "pages"}
           /\ "next" \in DOMAIN View => View["next"] = getPage + 1
           /\ "next" \in DOMAIN View <=> getPage < LastPage
<1>1. getNumberOfItemsPerPage \in Nat \ {0}
  BY PageType DEF Typed
<1>2. total \in Nat
  BY PaginationAssumption DEF Typed
<1>3. /\ LastPage \in Nat /\ LastPage <= total
      /\ LastPage * getNumberOfItemsPerPage >= total
      /\ total > 0 => /\ LastPage >= 1
                      /\ (LastPage - 1) * getNumberOfItemsPerPage < total
  BY <1>1, <1>2, Rounded DEF LastPage
<1>4. View["last"] = LastPage
  BY DEF View
<1>5. View["pages"] = range(LastPage)
  BY DEF View
<1>6. /\ DOMAIN View \subseteq {"first", "last", "prev", "next", "pages"}
      /\ "next" \in DOMAIN View => View["next"] = getPage + 1
  BY DEF View, NextPage
<1>7. "next" \in DOMAIN View <=> getPage < LastPage
  BY DEF View
<1> QED
  BY <1>3, <1>4, <1>5, <1>6, <1>7

(* The client follows the view of an answer with pagination. *)
LEMMA FollowsNext ==
    ASSUME Typed, Asked, Follow
    PROVE  /\ isEnabled /\ ~Refused
           /\ view["next"] = getPage + 1 /\ view["next"] \in Int
<1>1. view = (IF isEnabled THEN View ELSE NoView) /\ "next" \in DOMAIN view
  BY DEF Asked, Follow
<1>2. isEnabled
  BY <1>1 DEF NoView
<1>3. ~Refused
  BY <1>2 DEF Asked, Follow
<1>4. getPage \in Nat
  BY <1>3, PageType DEF Typed
<1> QED
  BY <1>1, <1>2, <1>3, <1>4, ViewType

LEMMA NextTyped == Typed /\ Asked /\ [Next]_vars => Typed'
<1> SUFFICES ASSUME Typed, Asked, [Next]_vars PROVE Typed'
  OBVIOUS
<1>1. Len(items) \in Nat /\ 0 \in 0..MaxItems /\ <<>> \in Seq(1..created)
  BY LenProperties, PaginationAssumption DEF Typed
<1>2. CASE UNCHANGED vars
  <2>1. Params'
    BY <1>2, SameRequest DEF vars, Typed
  <2> QED
    BY <1>2, <2>1 DEF vars, Typed
<1>3. CASE Begin
  <2>1. Params'
    BY <1>3, PaginationAssumption DEF Begin, Params, isset
  <2>2. awaited' \subseteq 1..created
    BY <1>3, ElementsType DEF Begin, Typed
  <2> QED
    BY <1>3, <2>1, <2>2, ReaderTyped DEF Begin, Typed, response
<1>4. CASE GetMembers
  <2>1. Params'
    BY <1>4, SameRequest DEF GetMembers, Typed
  <2>2. members' \in Seq(1..created)
    <3>1. CASE isEnabled /\ Refused
      BY <1>4, <3>1 DEF GetMembers, Typed
    <3>2. CASE isEnabled /\ ~Refused
      BY <1>4, <3>2, PageRead DEF GetMembers
    <3>3. CASE ~isEnabled
      BY <1>4, <3>3 DEF GetMembers, Typed
    <3> QED
      BY <3>1, <3>2, <3>3
  <2>3. pc' \in {"failed", "total"}
    BY <1>4 DEF GetMembers
  <2> QED
    BY <1>4, <2>1, <2>2, <2>3, ReaderTyped DEF GetMembers, Typed, history
<1>5. CASE GetTotalItems
  <2>1. Params'
    BY <1>5, SameRequest DEF GetTotalItems, Typed
  <2>2. total' \in 0..MaxItems
    BY <1>1, <1>5, PaginationAssumption DEF GetTotalItems, Typed
  <2> QED
    BY <1>5, <2>1, <2>2, ReaderTyped DEF GetTotalItems, Typed, history
<1>6. CASE GetView
  <2>1. Params'
    BY <1>6, SameRequest DEF GetView, Typed
  <2>2. Elements(members) \subseteq 1..created
    BY ElementsType DEF Typed
  <2> QED
    BY <1>6, <2>1, <2>2, ReaderTyped DEF GetView, Typed
<1>7. CASE Follow
  <2>1. Params'
    <3>1. parameters' = [k \in DOMAIN parameters \cup {"page"} |->
                           IF k = "page" THEN view["next"] ELSE parameters[k]]
      BY <1>7 DEF Follow
    <3>2. view["next"] \in Int
      BY <1>7, FollowsNext DEF Typed
    <3> QED
      BY <3>1, <3>2 DEF Typed, Params, isset
  <2> QED
    BY <1>1, <1>7, <2>1, ReaderTyped DEF Follow, Typed, history
<1>8. CASE Finish
  <2>1. Params'
    BY <1>8 DEF Finish, NoView, Params, isset
  <2> QED
    BY <1>1, <1>8, <2>1, ReaderTyped DEF Finish, Typed
<1>9. CASE Create
  <2>1. Params'
    BY <1>9, SameRequest DEF Create, Typed
  <2>2. /\ created' = created + 1 /\ created' \in InitialItems..MaxItems
        /\ items' \in Seq(1..created') /\ Len(items') = Len(items) + 1
        /\ \A i \in 1..Len(items) : items'[i] = items[i]
        /\ items'[Len(items) + 1] = created + 1
    BY <1>9, Appended
  <2>3. created \in Nat /\ 1..created \subseteq 1..created'
    BY <2>2, PaginationAssumption DEF Typed
  <2>4. ASSUME NEW i \in 1..Len(items'), NEW j \in 1..Len(items'), i < j
        PROVE  items'[i] < items'[j]
    <3>1. i \in 1..Len(items)
      BY <1>1, <2>2, <2>4
    <3>4. items[i] \in 1..created
      BY <3>1, ElementOfSeq DEF Typed
    <3>2. CASE j = Len(items) + 1
      BY <2>2, <2>3, <3>1, <3>2, <3>4
    <3>3. CASE j # Len(items) + 1
      <4>1. j \in 1..Len(items)
        BY <1>1, <2>2, <3>3
      <4> QED
        BY <2>2, <2>4, <3>1, <4>1 DEF Typed
    <3> QED
      BY <3>2, <3>3
  <2>5. members \in Seq(1..created')
    BY <2>3, SeqMonotonic DEF Typed
  <2>6. UNCHANGED <<settings, pc, members, total, seen, awaited, repeated>>
    BY <1>9 DEF Create, response, history
  <2> QED
    BY <1>1, <2>1, <2>2, <2>3, <2>4, <2>5, <2>6 DEF Typed
<1>10. CASE Delete
  <2>1. Params'
    BY <1>10, SameRequest DEF Delete, Typed
  <2>2. PICK n \in 1..Len(items) : items' = RemoveAt(items, n)
    BY <1>10 DEF Delete
  <2>3. /\ items' \in Seq(1..created) /\ Len(items') = Len(items) - 1
        /\ \A i \in 1..Len(items') : items'[i] = IF i < n THEN items[i] ELSE items[i + 1]
    BY <2>2, Removed
  <2>4. ASSUME NEW i \in 1..Len(items'), NEW j \in 1..Len(items'), i < j
        PROVE  items'[i] < items'[j]
    <3> DEFINE a == IF i < n THEN i ELSE i + 1
               b == IF j < n THEN j ELSE j + 1
    <3>1. a \in 1..Len(items) /\ b \in 1..Len(items) /\ a < b
      BY <1>1, <2>3, <2>4
    <3>2. items'[i] = items[a] /\ items'[j] = items[b]
      BY <2>3
    <3> QED
      BY <3>1, <3>2 DEF Typed
  <2>5. /\ UNCHANGED <<settings, created, pc, members, total, seen, repeated>>
        /\ awaited' = {}
    BY <1>10 DEF Delete, response
  <2>6. Len(items') <= created
    BY <1>1, <2>3, PaginationAssumption DEF Typed
  <2> QED
    BY <2>1, <2>3, <2>4, <2>5, <2>6 DEF Typed
<1> QED
  BY <1>2, <1>3, <1>4, <1>5, <1>6, <1>7, <1>8, <1>9, <1>10 DEF Next, Reader

-----------------------------------------------------------------------------
(* Phases *)

(* hydra:next is the page that begins where the last one ends. *)
LEMMA NextPageRequest ==
    ASSUME Typed, Asked, Follow
    PROVE  /\ isEnabled /\ isEnabled' /\ ~Refused /\ ~Refused'
           /\ getNumberOfItemsPerPage' = getNumberOfItemsPerPage
           /\ getOffset' = getOffset + getNumberOfItemsPerPage
<1>1. /\ isEnabled /\ ~Refused
      /\ view["next"] = getPage + 1 /\ view["next"] \in Int
  BY FollowsNext
<1>2. /\ getNumberOfItemsPerPage \in Nat \ {0} /\ getPage \in Nat /\ getOffset \in Nat
      /\ getOffset = (getPage - 1) * getNumberOfItemsPerPage
  BY <1>1, PageType DEF Typed
<1>3. /\ settings' = settings
      /\ parameters' = [k \in DOMAIN parameters \cup {"page"} |->
                          IF k = "page" THEN view["next"] ELSE parameters[k]]
  BY DEF Follow
<1>4. getPage' = getPage + 1
  BY <1>1, <1>3 DEF getPage, isset
<1>5. isEnabled' = isEnabled
  BY <1>3 DEF isEnabled, isset
<1>6. Limits' = Limits
  BY <1>3 DEF Limits, isset
<1>7. getNumberOfItemsPerPage' = getNumberOfItemsPerPage
  BY <1>6 DEF getNumberOfItemsPerPage
<1>8. getOffset' = (getPage + 1 - 1) * getNumberOfItemsPerPage
  <2>1. getOffset' = (getPage' - 1) * getNumberOfItemsPerPage'
    BY DEF getOffset
  <2> QED
    BY <1>2, <1>4, <1>7, <2>1
<1>9. getOffset' = getOffset + getNumberOfItemsPerPage
  BY <1>2, <1>8, Products
<1>10. ~Refused'
  BY <1>1, <1>2, <1>6, <1>7, <1>9 DEF Refused
<1> QED
  BY <1>1, <1>5, <1>7, <1>9, <1>10

LEMMA SameView ==
    ASSUME UNCHANGED <<settings, parameters, total>> PROVE UNCHANGED View
<1>1. UNCHANGED <<getPage, getNumberOfItemsPerPage>>
  BY SameRequest
<1>2. UNCHANGED LastPage
  BY <1>1 DEF LastPage
<1> QED
  BY <1>1, <1>2 DEF View

LEMMA InitAsked == Init => Asked
  BY DEF Init, Asked

(* A step that leaves the client where it is. *)
LEMMA SameAsked ==
    ASSUME Asked, UNCHANGED <<settings, pc, parameters, members, total, view, seen, repeated>>
    PROVE  Asked'
<1>1. UNCHANGED <<isEnabled, Refused, getNumberOfItemsPerPage, View>>
  BY SameRequest, SameView
<1> QED
  BY <1>1 DEF Asked, NoView

LEMMA NextAsked == Typed /\ Asked /\ [Next]_vars => Asked'
<1> SUFFICES ASSUME Typed, Asked, [Next]_vars PROVE Asked'
  OBVIOUS
<1>1. CASE UNCHANGED vars
  BY <1>1, SameAsked DEF vars
<1>2. CASE Begin
  BY <1>2 DEF Begin, Asked, NoView, response
<1>3. CASE GetMembers
  <2>1. UNCHANGED <<isEnabled, Refused, getNumberOfItemsPerPage>>
    BY <1>3, SameRequest DEF GetMembers
  <2>2. UNCHANGED <<view, seen, repeated>> /\ pc = "members"
    BY <1>3 DEF GetMembers, history
  <2>3. CASE isEnabled /\ Refused
    BY <1>3, <2>2, <2>3 DEF GetMembers, Asked, NoView
  <2>4. CASE isEnabled /\ ~Refused
    <3>1. Len(members') <= getNumberOfItemsPerPage
      BY <1>3, <2>2, <2>4, PageRead
    <3>2. pc' = "total"
      BY <1>3, <2>4 DEF GetMembers
    <3> QED
      BY <2>1, <2>2, <2>4, <3>1, <3>2 DEF Asked, NoView
  <2>5. CASE ~isEnabled
    BY <1>3, <2>1, <2>2, <2>5 DEF GetMembers, Asked, NoView
  <2> QED
    BY <2>3, <2>4, <2>5
<1>4. CASE GetTotalItems
  <2>1. UNCHANGED <<isEnabled, Refused, getNumberOfItemsPerPage>>
    BY <1>4, SameRequest DEF GetTotalItems
  <2> QED
    BY <1>4, <2>1 DEF GetTotalItems, Asked, NoView, history
<1>5. CASE GetView
  <2>1. UNCHANGED <<isEnabled, Refused, getNumberOfItemsPerPage, View>>
    BY <1>5, SameRequest, SameView DEF GetView
  <2>2. /\ pc = "view" /\ pc' = "answered" /\ members' = members
        /\ view' = IF isEnabled THEN View ELSE NoView
    BY <1>5 DEF GetView
  <2> QED
    BY <2>1, <2>2 DEF Asked, NoView
<1>6. CASE Follow
  <2>1. isEnabled'
    BY <1>6, NextPageRequest
  <2>2. pc' = "members" /\ members' = <<>> /\ view' = NoView
    BY <1>6 DEF Follow
  <2> QED
    BY <2>1, <2>2 DEF Asked, NoView
<1>7. CASE Finish
  BY <1>7 DEF Finish, Asked, NoView
<1>8. CASE Create
  BY <1>8, SameAsked DEF Create, response, history
<1>9. CASE Delete
  BY <1>9, SameAsked DEF Delete, response
<1> QED
  BY <1>1, <1>2, <1>3, <1>4, <1>5, <1>6, <1>7, <1>8, <1>9 DEF Next, Reader

-----------------------------------------------------------------------------
(* Nothing is repeated *)

(* With pagination, and not to be refused. *)
Paged == isEnabled /\ ~Refused

(* Where the records begin that the client has not been shown, and those it has
   been or is about to be. *)
Border == IF pc = "members" THEN getOffset ELSE getOffset + getNumberOfItemsPerPage
Shown  == IF pc \in {"total", "view"} THEN seen \cup Elements(members) ELSE seen

(* A deletion only moves records towards the beginning, and a creation only adds
   them at the end. *)
Unseen ==
    /\ ~repeated
    /\ pc \in {"total", "view"} => Elements(members) \cap seen = {}
    /\ pc \in {"members", "total", "view", "answered"} /\ Paged =>
         \A i \in 1..Len(items) : i > Border => items[i] \notin Shown

LEMMA InitUnseen == Init => Unseen
  BY DEF Init, Unseen

LEMMA SameUnseen ==
    ASSUME Unseen, UNCHANGED <<settings, pc, parameters, members, seen, repeated>>
    PROVE  /\ ~repeated'
           /\ pc' \in {"total", "view"} => Elements(members') \cap seen' = {}
           /\ Paged' = Paged /\ Border' = Border /\ Shown' = Shown
<1>1. UNCHANGED <<isEnabled, Refused, getOffset, getNumberOfItemsPerPage>>
  BY SameRequest
<1> QED
  BY <1>1 DEF Unseen, Paged, Border, Shown, Elements

LEMMA NextUnseen == Typed /\ Asked /\ Unseen /\ [Next]_vars => Unseen'
<1> SUFFICES ASSUME Typed, Asked, Unseen, [Next]_vars PROVE Unseen'
  OBVIOUS
<1>1. Len(items) \in Nat
  BY LenProperties DEF Typed
<1>2. CASE UNCHANGED vars
  <2>1. /\ ~repeated'
        /\ pc' \in {"total", "view"} => Elements(members') \cap seen' = {}
        /\ Paged' = Paged /\ Border' = Border /\ Shown' = Shown
    BY <1>2, SameUnseen DEF vars
  <2> QED
    BY <1>2, <2>1 DEF Unseen, vars
<1>3. CASE Begin
  <2>1. seen' = {} /\ ~repeated' /\ pc' = "members"
    BY <1>3 DEF Begin, Asked
  <2>2. Shown' = {}
    BY <2>1 DEF Shown
  <2> QED
    BY <2>1, <2>2 DEF Unseen
<1>4. CASE GetMembers
  <2>1. pc = "members" /\ UNCHANGED <<settings, items, parameters, seen, repeated>>
    BY <1>4 DEF GetMembers, table, history
  <2>2. UNCHANGED <<isEnabled, Refused, getOffset, getNumberOfItemsPerPage>>
    BY <2>1, SameRequest
  <2>3. CASE isEnabled /\ Refused
    BY <1>4, <2>1, <2>2, <2>3 DEF GetMembers, Unseen, Paged
  <2>4. CASE ~isEnabled
    <3>1. pc' = "total" /\ seen = {} /\ ~Paged'
      BY <1>4, <2>1, <2>2, <2>4 DEF GetMembers, Asked, Paged
    <3> QED
      BY <2>1, <3>1 DEF Unseen
  <2>5. CASE isEnabled /\ ~Refused
    <3>1. pc' = "total"
      BY <1>4, <2>5 DEF GetMembers
    <3>2. /\ \A i \in 1..Len(members') :
               /\ getOffset + i \in 1..Len(items)
               /\ members'[i] = items[getOffset + i]
          /\ Len(members') \in Nat /\ Len(members') <= getNumberOfItemsPerPage
      BY <1>4, <2>1, <2>5, PageRead
    <3>3. getOffset \in Nat /\ getNumberOfItemsPerPage \in Nat
      BY <2>5, PageType DEF Typed
    <3>4. \A i \in 1..Len(items) : i > getOffset => items[i] \notin seen
      BY <2>1, <2>5 DEF Unseen, Paged, Border, Shown
    <3>5. Elements(members') \cap seen' = {}
      <4>1. ASSUME NEW i \in 1..Len(members') PROVE members'[i] \notin seen
        BY <3>2, <3>3, <3>4
      <4> QED
        BY <2>1, <4>1 DEF Elements
    <3>6. ASSUME NEW k \in 1..Len(items), k > getOffset + getNumberOfItemsPerPage
          PROVE  items[k] \notin seen \cup Elements(members')
      <4>1. k > getOffset
        BY <3>3, <3>6
      <4>2. ASSUME NEW i \in 1..Len(members') PROVE members'[i] # items[k]
        <5>1. getOffset + i \in 1..Len(items) /\ getOffset + i < k
          BY <3>2, <3>3, <3>6
        <5>2. items[getOffset + i] < items[k]
          BY <5>1 DEF Typed
        <5>3. items[getOffset + i] \in Int /\ items[k] \in Int
          BY <5>1, ElementOfSeq DEF Typed
        <5> QED
          BY <3>2, <5>2, <5>3
      <4> QED
        BY <3>4, <4>1, <4>2 DEF Elements
    <3>7. /\ Border' = getOffset + getNumberOfItemsPerPage
          /\ Shown' = seen \cup Elements(members')
      BY <2>1, <2>2, <3>1 DEF Border, Shown, Elements
    <3> QED
      BY <2>1, <3>1, <3>5, <3>6, <3>7 DEF Unseen
  <2> QED
    BY <2>3, <2>4, <2>5
<1>5. CASE GetTotalItems
  <2>1. /\ pc = "total" /\ pc' = "view"
        /\ UNCHANGED <<settings, items, parameters, members, seen, repeated>>
    BY <1>5 DEF GetTotalItems, table, history
  <2>2. UNCHANGED <<isEnabled, Refused, getOffset, getNumberOfItemsPerPage>>
    BY <2>1, SameRequest
  <2> QED
    BY <2>1, <2>2 DEF Unseen, Paged, Border, Shown, Elements
<1>6. CASE GetView
  <2>1. /\ pc = "view" /\ pc' = "answered"
        /\ seen' = seen \cup Elements(members)
        /\ repeated' = (repeated \/ seen \cap Elements(members) # {})
        /\ UNCHANGED <<settings, items, parameters>>
    BY <1>6 DEF GetView, table
  <2>2. UNCHANGED <<isEnabled, Refused, getOffset, getNumberOfItemsPerPage>>
    BY <2>1, SameRequest
  <2>3. ~repeated'
    BY <2>1 DEF Unseen, Typed
  <2> QED
    BY <2>1, <2>2, <2>3 DEF Unseen, Paged, Border, Shown
<1>7. CASE Follow
  <2>1. /\ isEnabled /\ ~Refused
        /\ getOffset' = getOffset + getNumberOfItemsPerPage
    BY <1>7, NextPageRequest
  <2>2. pc = "answered" /\ pc' = "members" /\ UNCHANGED <<items, seen, repeated>>
    BY <1>7 DEF Follow, table, history
  <2> QED
    BY <2>1, <2>2 DEF Unseen, Paged, Border, Shown
<1>8. CASE Finish
  BY <1>8 DEF Finish, Unseen
<1>9. CASE Create
  <2>1. /\ ~repeated'
        /\ pc' \in {"total", "view"} => Elements(members') \cap seen' = {}
        /\ Paged' = Paged /\ Border' = Border /\ Shown' = Shown
    BY <1>9, SameUnseen DEF Create, response, history
  <2>2. /\ Len(items') = Len(items) + 1
        /\ \A i \in 1..Len(items) : items'[i] = items[i]
        /\ items'[Len(items) + 1] = created + 1
    BY <1>9, Appended
  <2>3. created + 1 \notin Shown
    <3>1. seen \cup Elements(members) \subseteq 1..created /\ created \in Nat
      <4>1. members \in Seq(1..created) /\ seen \subseteq 1..created
        BY DEF Typed
      <4>2. Elements(members) \subseteq 1..created
        BY <4>1, ElementsType
      <4>3. created \in Nat
        BY PaginationAssumption DEF Typed
      <4> QED
        BY <4>1, <4>2, <4>3
    <3>2. created + 1 \notin 1..created
      BY <3>1
    <3> QED
      BY <3>1, <3>2 DEF Shown
  <2>4. ASSUME NEW i \in 1..Len(items'), i > Border,
               pc \in {"members", "total", "view", "answered"}, Paged
        PROVE  items'[i] \notin Shown
    <3>1. CASE i = Len(items) + 1
      BY <2>2, <2>3, <3>1
    <3>2. CASE i # Len(items) + 1
      <4>1. i \in 1..Len(items)
        BY <1>1, <2>2, <3>2
      <4> QED
        BY <2>2, <2>4, <4>1 DEF Unseen
    <3> QED
      BY <3>1, <3>2
  <2>5. pc' = pc
    BY <1>9 DEF Create
  <2> QED
    BY <2>1, <2>4, <2>5 DEF Unseen
<1>10. CASE Delete
  <2>1. /\ ~repeated'
        /\ pc' \in {"total", "view"} => Elements(members') \cap seen' = {}
        /\ Paged' = Paged /\ Border' = Border /\ Shown' = Shown
    BY <1>10, SameUnseen DEF Delete, response
  <2>2. PICK n \in 1..Len(items) : items' = RemoveAt(items, n)
    BY <1>10 DEF Delete
  <2>3. /\ Len(items') = Len(items) - 1
        /\ \A i \in 1..Len(items') : items'[i] = IF i < n THEN items[i] ELSE items[i + 1]
    BY <2>2, Removed
  <2>4. ASSUME NEW i \in 1..Len(items'), i > Border,
               pc \in {"members", "total", "view", "answered"}, Paged
        PROVE  items'[i] \notin Shown
    <3>1. Border \in Nat
      <4>1. getOffset \in Nat /\ getNumberOfItemsPerPage \in Nat
        BY <2>4, PageType DEF Paged, Typed
      <4>2. getOffset + getNumberOfItemsPerPage \in Nat
        BY <4>1
      <4> QED
        BY <4>1, <4>2 DEF Border
    <3>2. i \in 1..Len(items) /\ i + 1 \in 1..Len(items) /\ i + 1 > Border
      BY <1>1, <2>3, <2>4, <3>1
    <3>3. items[i] \notin Shown /\ items[i + 1] \notin Shown
      BY <2>4, <3>2 DEF Unseen
    <3> QED
      BY <2>3, <3>3
  <2>5. pc' = pc
    BY <1>10 DEF Delete
  <2> QED
    BY <2>1, <2>4, <2>5 DEF Unseen
<1> QED
  BY <1>2, <1>3, <1>4, <1>5, <1>6, <1>7, <1>8, <1>9, <1>10 DEF Next, Reader

-----------------------------------------------------------------------------
(* Nothing is missed *)

(* The records at the positions k + 1 to l. *)
Between(k, l) == {items[i] : i \in (k + 1)..l}

(* The client has been shown the records it must be shown, or is about to be,
   or has them before it. *)
Pending ==
    /\ pc = "members" /\ Paged => awaited \subseteq seen \cup Between(getOffset, Len(items))
    /\ pc = "members" /\ ~isEnabled => awaited \subseteq Elements(items)
    /\ pc = "total" /\ Paged =>
         awaited \subseteq Shown \cup Between(Border, Len(items))
    /\ pc \in {"view", "answered"} /\ Paged =>
         awaited \subseteq Shown \cup Between(Border, total)
    /\ pc \in {"total", "view", "answered"} /\ ~isEnabled => awaited \subseteq Shown
    /\ pc \in {"view", "answered"} /\ awaited # {} => total \in 0..Len(items)

LEMMA InitPending == Init => Pending
  BY DEF Init, Pending

(* The records from k on to the end of the table, or further. *)
LEMMA BetweenLonger ==
    ASSUME NEW k \in Nat, NEW l \in Nat, NEW m \in Nat, l <= m
    PROVE  Between(k, l) \subseteq Between(k, m)
<1>1. (k + 1)..l \subseteq (k + 1)..m
  OBVIOUS
<1> QED
  BY <1>1 DEF Between

LEMMA CreatePending == Typed /\ Asked /\ Pending /\ Create => Pending'
<1> SUFFICES ASSUME Typed, Asked, Pending, Create PROVE Pending'
  OBVIOUS
<1>1. Len(items) \in Nat /\ Len(items') = Len(items) + 1
      /\ \A i \in 1..Len(items) : items'[i] = items[i]
  BY LenProperties, Appended DEF Typed
<1>2. UNCHANGED <<settings, pc, parameters, members, total, seen, awaited>>
  BY DEF Create, response, history
<1>3. UNCHANGED <<isEnabled, Refused, getOffset, getNumberOfItemsPerPage>>
  BY <1>2, SameRequest
<1>4. UNCHANGED <<Paged, Border, Shown>>
  BY <1>2, <1>3 DEF Paged, Border, Shown, Elements
<1>5. Elements(items) \subseteq Elements(items')
  BY <1>1 DEF Elements
<1>6. Paged => getOffset \in Nat /\ Border \in Nat
  <2> SUFFICES ASSUME Paged PROVE getOffset \in Nat /\ Border \in Nat
    OBVIOUS
  <2>1. getOffset \in Nat /\ getNumberOfItemsPerPage \in Nat
    BY PageType DEF Paged, Typed
  <2>2. getOffset + getNumberOfItemsPerPage \in Nat
    BY <2>1
  <2> QED
    BY <2>1, <2>2 DEF Border
<1>7. ASSUME NEW k \in Nat PROVE Between(k, Len(items)) \subseteq Between(k, Len(items))'
  <2>1. Between(k, Len(items)) \subseteq {items'[i] : i \in (k + 1)..Len(items)}
    BY <1>1 DEF Between
  <2>2. (k + 1)..Len(items) \subseteq (k + 1)..Len(items')
    BY <1>1
  <2> QED
    BY <2>1, <2>2 DEF Between
<1>8. ASSUME NEW k \in Nat, total \in 0..Len(items)
      PROVE  Between(k, total) \subseteq Between(k, total)'
  BY <1>1, <1>2, <1>8 DEF Between
<1>9. CASE awaited = {}
  BY <1>2, <1>9 DEF Pending
<1>10. CASE awaited # {}
  <2>1. pc \in {"view", "answered"} => total \in 0..Len(items) /\ total' \in 0..Len(items')
    BY <1>1, <1>2, <1>10 DEF Pending
  <2>2. /\ pc = "members" /\ Paged =>
             awaited \subseteq seen \cup Between(getOffset, Len(items))'
        /\ pc = "total" /\ Paged =>
             awaited \subseteq Shown \cup Between(Border, Len(items))'
        /\ pc \in {"view", "answered"} /\ Paged =>
             awaited \subseteq Shown \cup Between(Border, total)'
    BY <1>6, <1>7, <1>8, <2>1, <1>3, <1>4 DEF Pending
  <2> QED
    BY <1>2, <1>3, <1>4, <1>5, <2>1, <2>2 DEF Pending
<1> QED
  BY <1>9, <1>10

(* The offset is that of a page. *)
PageOffset ==
    /\ getPage \in Nat \ {0} /\ getNumberOfItemsPerPage \in Nat
    /\ getOffset = (getPage - 1) * getNumberOfItemsPerPage

LEMMA TypedPage == Typed /\ ~Refused => PageOffset
  BY PageType DEF Typed, PageOffset

LEMMA NextPending == Typed /\ Asked /\ Pending /\ [Next]_vars => Pending'
<1> SUFFICES ASSUME Typed, Asked, Pending, [Next]_vars PROVE Pending'
  OBVIOUS
<1>1. Len(items) \in Nat
  BY LenProperties DEF Typed
<1>2. CASE UNCHANGED vars
  <2>1. UNCHANGED <<isEnabled, Refused, getOffset, getNumberOfItemsPerPage>>
    BY <1>2, SameRequest DEF vars
  <2> QED
    BY <1>2, <2>1 DEF Pending, Paged, Border, Shown, Elements, Between, vars
<1>3. CASE Begin
  <2>1. /\ pc' = "members" /\ UNCHANGED <<settings, items>>
        /\ awaited' = IF getPage' > 1 THEN {} ELSE Elements(items)
    BY <1>3 DEF Begin, table
  <2>2. Elements(items)' = Elements(items)
    BY <2>1 DEF Elements
  <2>3. ASSUME Paged' PROVE awaited' \subseteq Between(getOffset, Len(items))'
    <3>1. Typed'
      BY NextTyped
    <3>2. ~Refused'
      BY <2>3 DEF Paged
    <3>3. /\ getPage' \in Nat \ {0} /\ getNumberOfItemsPerPage' \in Nat
          /\ getOffset' = (getPage' - 1) * getNumberOfItemsPerPage'
      <4>1. PageOffset'
        BY <3>1, <3>2, TypedPage, PTL
      <4> QED
        BY <4>1 DEF PageOffset
    <3>4. CASE getPage' > 1
      BY <2>1, <3>4
    <3>5. CASE ~(getPage' > 1)
      <4>1. getPage' = 1
        BY <3>3, <3>5
      <4>2. getOffset' = 0
        <5>1. \A n \in Nat : (1 - 1) * n = 0
          OBVIOUS
        <5>2. getOffset' = (1 - 1) * getNumberOfItemsPerPage'
          BY <3>3, <4>1
        <5> QED
          BY <3>3, <5>1, <5>2
      <4>3. Between(getOffset, Len(items))' = Elements(items)
        BY <1>1, <2>1, <4>2 DEF Between, Elements
      <4> QED
        BY <2>1, <3>5, <4>3
    <3> QED
      BY <3>4, <3>5
  <2> QED
    BY <2>1, <2>2, <2>3 DEF Pending
<1>4. CASE GetMembers
  <2>1. pc = "members" /\ UNCHANGED <<settings, items, parameters, seen, awaited>>
    BY <1>4 DEF GetMembers, table, history
  <2>2. UNCHANGED <<isEnabled, Refused, getOffset, getNumberOfItemsPerPage>>
    BY <2>1, SameRequest
  <2>3. CASE isEnabled /\ Refused
    BY <1>4, <2>1, <2>2, <2>3 DEF GetMembers, Pending, Paged
  <2>4. CASE ~isEnabled
    <3>1. pc' = "total" /\ members' = items /\ ~Paged' /\ ~isEnabled'
      BY <1>4, <2>2, <2>4 DEF GetMembers, Paged
    <3>2. awaited \subseteq Elements(items)
      BY <2>1, <2>4 DEF Pending
    <3>3. Elements(items) \subseteq Shown'
      BY <3>1 DEF Shown, Elements
    <3> QED
      BY <2>1, <3>1, <3>2, <3>3 DEF Pending
  <2>5. CASE isEnabled /\ ~Refused
    <3>1. pc' = "total" /\ isEnabled'
      BY <1>4, <2>2, <2>5 DEF GetMembers
    <3>2. /\ \A i \in 1..Len(members') : members'[i] = items[getOffset + i]
          /\ \A k \in (getOffset + 1)..Len(items) :
               k <= getOffset + getNumberOfItemsPerPage => k - getOffset \in 1..Len(members')
      BY <1>4, <2>1, <2>5, PageRead
    <3>3. getOffset \in Nat /\ getNumberOfItemsPerPage \in Nat
      BY <2>5, PageType DEF Typed
    <3>4. awaited \subseteq seen \cup Between(getOffset, Len(items))
      BY <2>1, <2>5 DEF Pending, Paged
    <3>5. /\ Border' = getOffset + getNumberOfItemsPerPage
          /\ Shown' = seen \cup Elements(members')
      BY <2>1, <2>2, <3>1 DEF Border, Shown, Elements
    <3>6. ASSUME NEW k \in (getOffset + 1)..Len(items)
          PROVE  items[k] \in Elements(members')
                               \cup Between(getOffset + getNumberOfItemsPerPage, Len(items))
      <4>1. CASE k <= getOffset + getNumberOfItemsPerPage
        <5>1. k - getOffset \in 1..Len(members') /\ getOffset + (k - getOffset) = k
          BY <3>2, <3>3, <4>1
        <5>2. members'[k - getOffset] = items[k]
          BY <3>2, <5>1
        <5> QED
          BY <5>1, <5>2 DEF Elements
      <4>2. CASE k > getOffset + getNumberOfItemsPerPage
        <5>1. k \in (getOffset + getNumberOfItemsPerPage + 1)..Len(items)
          BY <1>1, <3>3, <4>2
        <5> QED
          BY <5>1 DEF Between
      <4> QED
        BY <3>3, <4>1, <4>2
    <3>7. Between(getOffset, Len(items)) \subseteq
            Elements(members') \cup Between(getOffset + getNumberOfItemsPerPage, Len(items))
      BY <3>6 DEF Between
    <3>8. Between(Border, Len(items))' =
            Between(getOffset + getNumberOfItemsPerPage, Len(items))
      BY <2>1, <3>5 DEF Between
    <3> QED
      BY <2>1, <3>1, <3>4, <3>5, <3>7, <3>8 DEF Pending
  <2> QED
    BY <2>3, <2>4, <2>5
<1>5. CASE GetTotalItems
  <2>1. /\ pc = "total" /\ pc' = "view" /\ total' = Len(items)
        /\ UNCHANGED <<settings, items, parameters, members, seen, awaited>>
    BY <1>5 DEF GetTotalItems, table, history
  <2>2. UNCHANGED <<isEnabled, Refused, getOffset, getNumberOfItemsPerPage>>
    BY <2>1, SameRequest
  <2>3. UNCHANGED <<Paged, Border, Shown>>
    BY <2>1, <2>2 DEF Paged, Border, Shown, Elements
  <2>4. Between(Border, total)' = Between(Border, Len(items))
    BY <2>1, <2>3 DEF Between
  <2> QED
    BY <1>1, <2>1, <2>2, <2>3, <2>4 DEF Pending
<1>6. CASE GetView
  <2>1. /\ pc = "view" /\ pc' = "answered"
        /\ seen' = seen \cup Elements(members)
        /\ UNCHANGED <<settings, items, parameters, total, awaited>>
    BY <1>6 DEF GetView, table
  <2>2. UNCHANGED <<isEnabled, Refused, getOffset, getNumberOfItemsPerPage>>
    BY <2>1, SameRequest
  <2>3. UNCHANGED <<Paged, Border, Shown>>
    BY <2>1, <2>2 DEF Paged, Border, Shown
  <2>4. Between(Border, total)' = Between(Border, total)
    BY <2>1, <2>3 DEF Between
  <2> QED
    BY <2>1, <2>2, <2>3, <2>4 DEF Pending
<1>7. CASE Follow
  <2>1. /\ isEnabled /\ isEnabled' /\ ~Refused /\ ~Refused'
        /\ getOffset' = getOffset + getNumberOfItemsPerPage
    BY <1>7, NextPageRequest
  <2>2. pc = "answered" /\ pc' = "members" /\ UNCHANGED <<items, seen, awaited>>
    BY <1>7 DEF Follow, table, history
  <2>3. getOffset + getNumberOfItemsPerPage \in Nat
    <3>1. getOffset \in Nat /\ getNumberOfItemsPerPage \in Nat
      BY <2>1, PageType DEF Typed
    <3> QED
      BY <3>1
  <2>4. /\ awaited \subseteq
             seen \cup Between(getOffset + getNumberOfItemsPerPage, total)
        /\ awaited # {} => total \in 0..Len(items)
    BY <2>1, <2>2 DEF Pending, Paged, Border, Shown
  <2>5. awaited \subseteq
          seen \cup Between(getOffset + getNumberOfItemsPerPage, Len(items))
    <3>1. ASSUME total \in 0..Len(items)
          PROVE  Between(getOffset + getNumberOfItemsPerPage, total) \subseteq
                   Between(getOffset + getNumberOfItemsPerPage, Len(items))
      BY <1>1, <2>3, <3>1, BetweenLonger
    <3> QED
      BY <2>4, <3>1
  <2>6. Between(getOffset, Len(items))' =
          Between(getOffset + getNumberOfItemsPerPage, Len(items))
    BY <2>1, <2>2 DEF Between
  <2> QED
    BY <2>1, <2>2, <2>5, <2>6 DEF Pending, Paged
<1>8. CASE Finish
  BY <1>8 DEF Finish, Pending
<1>9. CASE Create
  BY <1>9, CreatePending
<1>10. CASE Delete
  BY <1>10 DEF Delete, Pending
<1> QED
  BY <1>2, <1>3, <1>4, <1>5, <1>6, <1>7, <1>8, <1>9, <1>10 DEF Next, Reader

-----------------------------------------------------------------------------
(* Theorems *)

Inv == Typed /\ Asked /\ Unseen /\ Pending

LEMMA Invariant == Spec => []Inv
<1>1. Init => Inv
  BY InitTyped, InitAsked, InitUnseen, InitPending DEF Inv
<1>2. Inv /\ [Next]_vars => Inv'
  BY NextTyped, NextAsked, NextUnseen, NextPending DEF Inv
<1> QED
  BY <1>1, <1>2, PTL DEF Spec

(* Every variable keeps its type, and the records the order of their creation. *)
THEOREM TypeCorrect == Spec => []TypeOK
<1>1. Inv => TypeOK
  <2> SUFFICES ASSUME Inv PROVE TypeOK
    OBVIOUS
  <2>1. DOMAIN parameters \subseteq {"page", "itemsPerPage", "pagination"}
    BY DEF Inv, Typed, Params
  <2>2. CASE pc = "answered" /\ isEnabled
    <3>1. view = View /\ ~Refused
      BY <2>2 DEF Inv, Asked
    <3>2. /\ LastPage \in Nat /\ LastPage <= total /\ View["last"] = LastPage
          /\ DOMAIN View \subseteq {"first", "last", "prev", "next", "pages"}
      BY <3>1, ViewType DEF Inv
    <3>3. LastPage \in 0..MaxItems
      BY <3>2, PaginationAssumption DEF Inv, Typed
    <3> QED
      BY <2>1, <3>1, <3>2, <3>3 DEF Inv, Typed, TypeOK
  <2>3. CASE ~(pc = "answered" /\ isEnabled)
    <3>1. view = NoView /\ DOMAIN view = {}
      BY <2>3 DEF Inv, Asked, NoView
    <3> QED
      BY <2>1, <3>1 DEF Inv, Typed, TypeOK
  <2> QED
    BY <2>2, <2>3
<1> QED
  BY <1>1, Invariant, PTL

(* A client that follows hydra:next is shown no record twice, whatever is created
   and deleted between its pages and between the two queries of a page. *)
THEOREM ShownOnce == Spec => []NothingRepeated
<1>1. Inv => NothingRepeated
  BY DEF Inv, Unseen, NothingRepeated
<1> QED
  BY <1>1, Invariant, PTL

(* A client that follows hydra:next from the first page to the end is shown every
   record that was there when it began, if none is deleted meanwhile. *)
THEOREM ShownAll == Spec => []NothingMissed
<1>1. Inv => NothingMissed
  <2> SUFFICES ASSUME Inv, AtTheEnd PROVE awaited \subseteq seen
    BY DEF NothingMissed
  <2>1. pc = "answered" /\ "next" \notin DOMAIN view /\ Shown = seen
    BY DEF AtTheEnd, Shown
  <2>2. CASE ~isEnabled
    BY <2>1, <2>2 DEF Inv, Pending
  <2>3. CASE isEnabled
    <3>1. view = View /\ ~Refused
      BY <2>1, <2>3 DEF Inv, Asked
    <3>2. /\ getPage >= LastPage /\ LastPage \in Nat /\ getPage \in Nat
          /\ LastPage * getNumberOfItemsPerPage >= total
          /\ getNumberOfItemsPerPage \in Nat /\ getOffset \in Nat
          /\ getOffset + getNumberOfItemsPerPage = getPage * getNumberOfItemsPerPage
      <4>1. /\ LastPage \in Nat /\ LastPage * getNumberOfItemsPerPage >= total
            /\ ~(getPage < LastPage)
        BY <2>1, <3>1, ViewType DEF Inv
      <4>2. /\ getNumberOfItemsPerPage \in Nat /\ getOffset \in Nat /\ getPage \in Nat
            /\ getOffset + getNumberOfItemsPerPage = getPage * getNumberOfItemsPerPage
        BY <3>1, PageType DEF Inv, Typed
      <4> QED
        BY <4>1, <4>2
    <3>3. /\ LastPage * getNumberOfItemsPerPage <= getPage * getNumberOfItemsPerPage
          /\ LastPage * getNumberOfItemsPerPage \in Int
      BY <3>2, Monotone
    <3>4. Border \in Int /\ total <= Border /\ total \in Int
      BY <2>1, <3>2, <3>3, PaginationAssumption DEF Border, Inv, Typed
    <3>5. Between(Border, total) = {}
      BY <3>4 DEF Between
    <3> QED
      BY <2>1, <2>3, <3>1, <3>5 DEF Inv, Pending, Paged
  <2> QED
    BY <2>2, <2>3
<1> QED
  BY <1>1, Invariant, PTL

(* No client is given more records in one answer than the resource allows. *)
THEOREM NeverMoreThanMaximum == Spec => []MaximumRespected
<1>1. Inv => MaximumRespected
  <2> SUFFICES ASSUME Inv, isEnabled, settings.maximumItemsPerPage > 0
               PROVE  Len(members) <= settings.maximumItemsPerPage
    BY DEF MaximumRespected
  <2>1. settings.maximumItemsPerPage \in Nat
    BY PaginationAssumption DEF Inv, Typed
  <2>2. CASE pc \in {"idle", "members", "failed"}
    BY <2>1, <2>2 DEF Inv, Asked
  <2>3. CASE pc \in {"total", "view", "answered"}
    <3>1. ~Refused /\ Len(members) <= getNumberOfItemsPerPage /\ Len(members) \in Nat
      BY <2>3, LenProperties DEF Inv, Asked, Typed
    <3>2. settings.maximumItemsPerPage \in Limits
      BY <2>1 DEF Limits
    <3>3. /\ getNumberOfItemsPerPage \in Nat
          /\ getNumberOfItemsPerPage <= settings.maximumItemsPerPage
      BY <3>1, <3>2, PageType DEF Inv, Typed
    <3> QED
      BY <2>1, <3>1, <3>3
  <2> QED
    BY <2>2, <2>3 DEF Inv, Typed
<1> QED
  BY <1>1, Invariant, PTL

(* The view names the pages that have records, and no other. *)
THEOREM ViewNamesPages == Spec => []ViewFitsTotal
<1>1. Inv => ViewFitsTotal
  <2> SUFFICES ASSUME Inv, pc = "answered", isEnabled, total > 0
               PROVE  /\ view["last"] * getNumberOfItemsPerPage >= total
                      /\ (view["last"] - 1) * getNumberOfItemsPerPage < total
                      /\ view["pages"] = 1..view["last"]
    BY DEF ViewFitsTotal
  <2>1. view = View /\ ~Refused
    BY DEF Inv, Asked
  <2>2. /\ LastPage * getNumberOfItemsPerPage >= total
        /\ LastPage >= 1 /\ (LastPage - 1) * getNumberOfItemsPerPage < total
        /\ View["last"] = LastPage /\ View["pages"] = range(LastPage)
    BY <2>1, ViewType DEF Inv
  <2> QED
    BY <2>1, <2>2 DEF range
<1> QED
  BY <1>1, Invariant, PTL
=============================================================================
