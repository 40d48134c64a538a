------------------------------- MODULE Pagination -------------------------------
(***************************************************************************)
(* A client that reads a collection page by page: GET on a collection with *)
(* the settings of Pagination, the members and the total that              *)
(* AbstractCollectionResponse reads with two queries, and the hydra:view   *)
(* that HydraCollectionResponse makes of them and that the client follows, *)
(* while others create and delete records of the collection.               *)
(***************************************************************************)
EXTENDS Integers, Sequences, SequencesExt

CONSTANTS
    AllSettings,        \* the resources: what their Pagination may be set to
    Pages,              \* pages a client may ask for, as PHP casts them
    Sizes,              \* sizes of a page a client may ask for, likewise
    InitialItems,       \* number of records at first
    MaxItems            \* bound: number of records that are ever created

ASSUME PaginationAssumption ==
    /\ AllSettings \subseteq [serverEnabled : BOOLEAN, clientEnabled : BOOLEAN,
                              clientItemsPerPage : BOOLEAN, itemsPerPage : Nat,
                              maximumItemsPerPage : Nat]
    /\ Pages \subseteq Int
    /\ Sizes \subseteq Int
    /\ InitialItems \in Nat
    /\ MaxItems \in Nat /\ InitialItems <= MaxItems

VARIABLES
    settings,       \* the Pagination of the resource
    items,          \* the records that match the query, in its order
    created,        \* number of records created so far; they are 1..created
    pc,             \* the next call of the response, or where the client is
    parameters,     \* the query parameters: those that are set
    members,        \* membersCache
    total,          \* totalItemsCache
    view,           \* hydra:view; the empty function without pagination
    seen,           \* history: the records the client has been shown
    awaited,        \* history: records the client must be shown to the end
    repeated        \* history: the client has been shown a record twice

vars == <<settings, items, created, pc, parameters, members, total, view,
          seen, awaited, repeated>>

-----------------------------------------------------------------------------
(* Pagination *)

isset(name) == name \in DOMAIN parameters

isEnabled == IF settings.clientEnabled /\ isset("pagination")
               THEN parameters["pagination"]
               ELSE settings.serverEnabled

getPage == IF isset("page") THEN parameters["page"] ELSE 1

(* What remains of the two limits after array_filter. *)
Limits ==
    LET size == IF settings.clientItemsPerPage /\ isset("itemsPerPage")
                  THEN parameters["itemsPerPage"]
                  ELSE settings.itemsPerPage
    IN  {settings.maximumItemsPerPage, size} \ {0}

(* Mutant: max where min is meant. *)
LargestLimit == CHOOSE n \in Limits : \A m \in Limits : m <= n

getNumberOfItemsPerPage == CHOOSE n \in Limits : \A m \in Limits : n <= m

(* Mutant: pages count from zero. *)
OffsetFromZero == getPage * getNumberOfItemsPerPage

getOffset == (getPage - 1) * getNumberOfItemsPerPage

(* min([]), Query::setLimit and Query::setOffset throw: a 500. *)
Refused == \/ Limits = {}
           \/ getNumberOfItemsPerPage < 1
           \/ getOffset < 0

-----------------------------------------------------------------------------
(* HydraCollectionResponse *)

(* Mutant: a page more, where the last one is full. *)
LastPageRoundedDown == (total \div getNumberOfItemsPerPage) + 1

LastPage == (total + getNumberOfItemsPerPage - 1) \div getNumberOfItemsPerPage

(* Mutant: hydra:next is the page the client is on. *)
SamePage(page) == page

NextPage(page) == page + 1

(* PHP's range(1, n) as a set: it counts downwards for an n below 1. *)
range(n) == IF n >= 1 THEN 1..n ELSE n..1

View ==
    LET optional == (IF getPage > 1 THEN {"prev"} ELSE {})
                      \cup (IF getPage < LastPage THEN {"next"} ELSE {})
    IN  [k \in {"first", "last", "pages"} \cup optional |->
           CASE k = "first" -> 1
             [] k = "last"  -> LastPage
             [] k = "prev"  -> getPage - 1
             [] k = "next"  -> NextPage(getPage)
             [] k = "pages" -> range(LastPage)]

NoView == [k \in {} |-> 0]

-----------------------------------------------------------------------------
Init ==
    /\ settings \in AllSettings
    /\ items = [i \in 1..InitialItems |-> i]
    /\ created = InitialItems
    /\ pc = "idle"
    /\ parameters = NoView
    /\ members = <<>>
    /\ total = 0
    /\ view = NoView
    /\ seen = {}
    /\ awaited = {}
    /\ repeated = FALSE

Elements(s) == {s[i] : i \in 1..Len(s)}

table    == <<items, created>>
response == <<members, total, view>>
history  == <<seen, awaited, repeated>>

(* The client has an answer without hydra:next. *)
AtTheEnd == pc = "answered" /\ "next" \notin DOMAIN view

(* A client starts to read, with any of the query parameters. *)
Begin ==
    /\ pc = "idle"
    /\ pc' = "members"
    /\ \E names \in SUBSET {"page", "itemsPerPage", "pagination"},
          page \in Pages, size \in Sizes, enabled \in BOOLEAN :
         parameters' = [k \in names |-> CASE k = "page"         -> page
                                          [] k = "itemsPerPage" -> size
                                          [] k = "pagination"   -> enabled]
    /\ awaited' = IF getPage' > 1 THEN {} ELSE Elements(items)
    /\ UNCHANGED <<settings, table, response, seen, repeated>>

(* getMembers, which applies the pagination to a clone of the query. *)
GetMembers ==
    /\ pc = "members"
    /\ IF isEnabled /\ Refused
         THEN pc' = "failed" /\ UNCHANGED members
       ELSE /\ pc' = "total"
            /\ members' =
                 IF isEnabled
                   THEN LET end == getOffset + getNumberOfItemsPerPage
                        IN  SubSeq(items, getOffset + 1,
                                   IF end < Len(items) THEN end ELSE Len(items))
                   ELSE items
    /\ UNCHANGED <<settings, table, parameters, total, view, history>>

GetTotalItems ==
    /\ pc = "total"
    /\ pc' = "view"
    /\ total' = Len(items)
    /\ UNCHANGED <<settings, table, parameters, members, view, history>>

(* getView, and the client has the answer. *)
GetView ==
    /\ pc = "view"
    /\ pc' = "answered"
    /\ view' = IF isEnabled THEN View ELSE NoView
    /\ seen' = seen \cup Elements(members)
    /\ repeated' = (repeated \/ seen \cap Elements(members) # {})
    /\ UNCHANGED <<settings, table, parameters, members, total, awaited>>

(* The client follows hydra:next, which keeps the other parameters. *)
Follow ==
    /\ pc = "answered"
    /\ "next" \in DOMAIN view
    /\ pc' = "members"
    /\ parameters' = [k \in DOMAIN parameters \cup {"page"} |->
                        IF k = "page" THEN view["next"] ELSE parameters[k]]
    /\ members' = <<>>
    /\ total' = 0
    /\ view' = NoView
    /\ UNCHANGED <<settings, table, history>>

(* Or has reached the end; it may then read again. *)
Finish ==
    /\ pc = "failed" \/ AtTheEnd
    /\ pc' = "idle"
    /\ parameters' = NoView
    /\ members' = <<>>
    /\ total' = 0
    /\ view' = NoView
    /\ seen' = {}
    /\ awaited' = {}
    /\ repeated' = FALSE
    /\ UNCHANGED <<settings, table>>

(* Others create records, which come last in the order of the query, and
   delete records, which the client then need not be shown. *)
Create ==
    /\ created < MaxItems
    /\ created' = created + 1
    /\ items' = Append(items, created + 1)
    /\ UNCHANGED <<settings, pc, parameters, response, history>>

Delete ==
    /\ \E n \in 1..Len(items) : items' = RemoveAt(items, n)
    /\ awaited' = {}
    /\ UNCHANGED <<settings, created, pc, parameters, response, seen, repeated>>

Reader == GetMembers \/ GetTotalItems \/ GetView \/ Follow

Next == Begin \/ Reader \/ Finish \/ Create \/ Delete

Spec == Init /\ [][Next]_vars

(* The server answers and the client goes on reading to the end. *)
FairSpec == Spec /\ WF_vars(Reader)

-----------------------------------------------------------------------------
(* Properties *)

(* Every variable keeps its type; the records are in the order of creation. *)
TypeOK ==
    /\ settings \in AllSettings
    /\ created \in InitialItems..MaxItems
    /\ items \in Seq(1..created)
    /\ \A i, j \in 1..Len(items) : i < j => items[i] < items[j]
    /\ pc \in {"idle", "members", "total", "view", "answered", "failed"}
    /\ DOMAIN parameters \subseteq {"page", "itemsPerPage", "pagination"}
    /\ members \in Seq(1..created)
    /\ total \in 0..MaxItems
    /\ DOMAIN view \subseteq {"first", "last", "prev", "next", "pages"}
    /\ view # NoView => view["last"] \in 0..MaxItems
    /\ seen \subseteq 1..created
    /\ awaited \subseteq 1..created
    /\ repeated \in BOOLEAN

(* A client that follows hydra:next from the first page to the end has been
   shown every record that was there when it began, whatever was created
   meanwhile (a deletion moves records to pages the client has left behind). *)
NothingMissed == AtTheEnd => awaited \subseteq seen

(* No record is shown twice to a client that follows hydra:next, whatever is
   created or deleted meanwhile. *)
NothingRepeated == ~repeated

(* An answer never has more members than the maximum, whatever the client asks
   for, unless pagination is switched off. *)
MaximumRespected ==
    isEnabled /\ settings.maximumItemsPerPage > 0
      => Len(members) <= settings.maximumItemsPerPage

(* The pages of the view are those that have records: the last one has the
   last record of the total, and none comes after it. *)
ViewFitsTotal ==
    pc = "answered" /\ isEnabled /\ total > 0 =>
      /\ view["last"] * getNumberOfItemsPerPage >= total
      /\ (view["last"] - 1) * getNumberOfItemsPerPage < total
      /\ view["pages"] = 1..view["last"]

(* A client that follows hydra:next comes to an end. *)
ReadingEnds == pc = "members" ~> (pc = "failed" \/ AtTheEnd)

(* Every page the view names can be read: its offset is not negative. *)
PagesCanBeRead ==
    pc = "answered" /\ isEnabled =>
      \A n \in view["pages"] : (n - 1) * getNumberOfItemsPerPage >= 0
================================================================================
