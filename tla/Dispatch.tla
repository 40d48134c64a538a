--------------------------------- MODULE Dispatch ---------------------------------
(***************************************************************************)
(* One PHP process and the operations it runs: the middlewares resolve the *)
(* language and hand the request to Bootstrap, which matches it with the   *)
(* routes of the resources and gives the operation to the first handler    *)
(* that supports it.  While an operation runs, the listeners of its events *)
(* may run others with the HeadlessDispatcher, and a page that is rendered *)
(* runs one for each of its inline view helpers: all of them on the one    *)
(* CommonRepository that the container of the process shares.              *)
(*                                                                         *)
(* Operations.tla has what a handler does to the table; here it is only    *)
(* how often, for whom, and with whose settings.                           *)
(***************************************************************************)
EXTENDS Integers, Sequences, SequencesExt

CONSTANTS
    Routes,         \* the operations in the order in which routes are tried
    Registered,     \* the configured handlers: [class, priority]
    CustomSupports, \* the operations that the project's own handler supports
    Languages,      \* the languages of the site
    Default,        \* its default language
    RootLanguage,   \* the language with the base "/", or NoLanguage
    NoLanguage,     \* no X-Locale header, no such language
    Unknown,        \* a header that names no language of the site
    NoOperation,
    MaxCalls        \* bound: the headless calls of one request to the API (a page:
                    \* one more)

ASSUME DispatchAssumption ==
    /\ \A k \in DOMAIN Routes :
         /\ Routes[k].kind \in {"item", "collection"}
         /\ Routes[k].resource \in Nat
         /\ Routes[k].main \in Nat /\ Routes[k].pages \subseteq Nat
         /\ \/ Routes[k].main \in Routes[k].pages
            \/ Routes[k].main = 0 /\ Routes[k].pages = {}
    /\ \A k \in 1 .. Len(Routes) - 1 : Routes[k].resource <= Routes[k + 1].resource
    /\ \A i \in DOMAIN Registered : i \in Nat /\ Registered[i].priority \in Int
    /\ Default \in Languages
    /\ {NoLanguage, Unknown} \cap Languages = {}
    /\ MaxCalls \in Nat

VARIABLES
    pc,             \* "idle", "middleware", "run", "page", "answered", "uncaught"
    url,            \* the language whose base the URL starts with
    header,         \* the language of the X-Locale header
    language,       \* the language attribute of the request
    stack,          \* the operations that are running, the innermost last
    repository,     \* the shared CommonRepository
    status,         \* the status of Bootstrap's response
    calls,          \* how often the HeadlessDispatcher has been called
    writes          \* history: what has been written for which operation

vars == <<pc, url, header, language, stack, repository, status, calls, writes>>

locale == <<url, header, language>>

Operations == ToSet(Routes)
Paths      == {o.path : o \in Operations}
Methods    == {o.method : o \in Operations} \cup {"OPTIONS"}
Pids       == {0} \cup UNION {o.pages : o \in Operations}

NoSettings == [entity |-> NoOperation, pages |-> {}]
Settings(o) == [entity |-> o.entity, pages |-> o.pages]

(* What is asked of a dispatcher: only a body can name a page. *)
Requests ==
    {q \in [method : Methods, path : Paths, pid : Pids] :
        q.pid # 0 => q.method \in {"POST", "PUT"}}

(* An operation on the stack: the request, the first resource to match it
   with, then the operation and its handler, the next step of the handler, the
   settings of its query, and whether another one ran since it has got the
   repository. *)
Frame(q) == [request |-> q, next |-> 1, operation |-> NoOperation, handler |-> "none",
             at |-> "match", query |-> NoSettings, interrupted |-> FALSE]

Top == stack[Len(stack)]

-----------------------------------------------------------------------------
(* Configuration *)

(* Mutant: the lowest priority first. *)
LowestPriorityFirst(i, j) ==
    \/ Registered[i].priority < Registered[j].priority
    \/ Registered[i].priority = Registered[j].priority /\ i < j

(* The order of getClassNamesSortedByPriority.  usort is stable: equal priorities
   stay in the order of registration. *)
SortedBefore(i, j) ==
    \/ Registered[i].priority > Registered[j].priority
    \/ Registered[i].priority = Registered[j].priority /\ i < j

(* supports of the handlers.  But for OPTIONS they look at the operation, not
   at the method of the request; both handlers that refuse are item handlers. *)
supports(handler, o, method) ==
    CASE handler = "Options"    -> method = "OPTIONS"
      [] handler = "FileUpload" -> o.kind = "collection" /\ o.method = "POST" /\ o.file
      [] handler = "CollectionGet"  -> o.kind = "collection" /\ o.method = "GET"
      [] handler = "CollectionPost" -> o.kind = "collection" /\ o.method = "POST"
      [] handler = "ItemGet"    -> o.kind = "item" /\ o.method = "GET"
      [] handler = "ItemPut"    -> o.kind = "item" /\ o.method = "PUT"
      [] handler = "ItemPatch"  -> o.kind = "item" /\ o.method = "PATCH"
      [] handler = "ItemDelete" -> o.kind = "item" /\ o.method = "DELETE"
      [] handler \in {"CollectionMethodNotAllowed", "ItemMethodNotAllowed"} -> o.kind = "item"
      [] handler = "Custom"     -> o \in CustomSupports

getHandlersSupportingOperation(o, method) ==
    {i \in DOMAIN Registered : supports(Registered[i].class, o, method)}

-----------------------------------------------------------------------------
(* The end of an operation *)

(* Mutant: headless calls are given the response of the process. *)
SetStatusAnyway(code) == status' = code

(* Bootstrap's response: a headless call has none. *)
SetStatus(code) ==
    status' = IF pc = "run" /\ Len(stack) = 1 THEN code ELSE status

Goto(step) == stack' = [stack EXCEPT ![Len(stack)].at = step]

(* An exception unwinds the stack to a listener that catches it or to
   Bootstrap::process.  What cannot be serialized is thrown again, and a page
   has no Bootstrap. *)
Throw(code) ==
    \/ \E d \in 1 .. Len(stack) - 1 : stack' = SubSeq(stack, 1, d) /\ UNCHANGED <<pc, status>>
    \/ /\ stack' = <<>>
       /\ \/ pc = "run" /\ pc' = "answered" /\ status' = code
          \/ pc = "run" /\ code = 500 /\ pc' = "uncaught" /\ UNCHANGED status
          \/ pc = "page" /\ pc' = "uncaught" /\ UNCHANGED status

(* The result goes to whoever called the dispatcher. *)
Return ==
    /\ stack' = Front(stack)
    /\ pc' = IF pc = "run" /\ Len(stack) = 1 THEN "answered" ELSE pc

(* Mutant: the resources are tried from the first one again. *)
MatchAgain == stack' = [stack EXCEPT ![Len(stack)].at = "match"]

(* Symfony's exceptions of routing that come out of a handler are taken for
   those of the matcher: the following resources are tried. *)
MatchNext ==
    stack' = [stack EXCEPT ![Len(stack)].at = "match",
                           ![Len(stack)].next = Top.operation.resource + 1]

-----------------------------------------------------------------------------
(* The repository *)

(* Mutants: only a restriction is set, never taken back; the operation stays
   the one the repository was made for. *)
AcquiredRestricted(o) ==
    [operation |-> o, entity |-> o.entity,
     pages |-> IF o.pages = {} THEN repository.pages ELSE o.pages]

AcquiredOnce(o) ==
    [operation |-> IF repository.operation = NoOperation THEN o ELSE repository.operation,
     entity |-> o.entity, pages |-> o.pages]

(* getInstanceForOperation: the one instance there is gets the settings. *)
Acquired(o) == [operation |-> o, entity |-> o.entity, pages |-> o.pages]

Nowhere == -1

(* CommonRepository::add: the page of an object, or Nowhere: an exception. *)
AddedPid(pid) ==
    IF pid = 0 /\ repository.operation.main > 0 THEN repository.operation.main
    ELSE IF pid > 0 /\ repository.pages # {} /\ pid \notin repository.pages THEN Nowhere
    ELSE pid

Write(pid) ==
    writes' = writes \cup {[operation |-> Top.operation, method |-> Top.request.method,
                            pid |-> pid, interrupted |-> Top.interrupted]}

-----------------------------------------------------------------------------
(* Middlewares and routes *)

(* A request for a page or for the API reaches the process. *)
Receive ==
    /\ pc = "idle"
    /\ pc' \in {"middleware", "page"}
    /\ url' \in Languages
    /\ header' \in Languages \cup {NoLanguage, Unknown}
    /\ pc' = "page" => url' = Default /\ header' = NoLanguage
    /\ language' = url'
    /\ \E q \in Requests : stack' = IF pc' = "page" THEN <<>> ELSE <<Frame(q)>>
    /\ UNCHANGED <<repository, status, calls, writes>>

(* T3apiRequestLanguageResolver: outside of Bootstrap's try. *)
ResolveLanguage ==
    /\ pc = "middleware"
    /\ language' = IF header \in Languages THEN header ELSE url
    /\ IF header = Unknown
         THEN pc' = "uncaught" /\ stack' = <<>>
         ELSE pc' = "run" /\ UNCHANGED stack
    /\ UNCHANGED <<url, header, repository, status, calls, writes>>

(* Mutant: always the default language, as for a request with the header. *)
DefaultLanguagePrefix == IF Default \in {RootLanguage, url} THEN Default ELSE NoLanguage

(* getLanguageBasePath: the base of the request's language if the path starts
   with it, else nothing.  The attribute t3apiHeaderLanguageRequest is never
   set: withAttribute returns a request that the middleware throws away. *)
getLanguageBasePath == IF language \in {RootLanguage, url} THEN language ELSE NoLanguage

(* Whether the routes, which start with that base, are those of the URL: the
   base "/" is trimmed and adds nothing. *)
Prefixed ==
    LET Trimmed(l) == IF l = RootLanguage THEN NoLanguage ELSE l
    IN  Trimmed(getLanguageBasePath) = Trimmed(url)

Matches(o) ==
    /\ o.resource >= Top.next
    /\ o.path = Top.request.path
    /\ Top.request.method \in {o.method, "OPTIONS"}
    /\ pc = "run" /\ Len(stack) = 1 => Prefixed

-----------------------------------------------------------------------------
(* Handlers *)

(* processOperation for the first supporting handler. *)
Start(o, handler) ==
    LET step == [Top EXCEPT !.operation = o, !.handler = handler, !.interrupted = FALSE]
        Continue(at) == stack' = [stack EXCEPT ![Len(stack)] = [step EXCEPT !.at = at]]
    IN  CASE handler = "Options" ->
               /\ \E code \in {status, 405} : SetStatus(code)
               /\ Continue("after") /\ UNCHANGED <<pc, repository>>
          [] handler \in {"CollectionMethodNotAllowed", "ItemMethodNotAllowed"} ->
               Throw(405) /\ UNCHANGED repository
          [] handler = "Custom" ->
               /\ Continue("custom") /\ UNCHANGED <<pc, status, repository>>
          [] handler \in {"ItemGet", "ItemPut", "ItemPatch", "ItemDelete"} ->
               /\ repository' = Acquired(o)
               /\ \/ Throw(404)
                  \/ Continue("security") /\ UNCHANGED <<pc, status>>
          [] OTHER -> Continue("security") /\ UNCHANGED <<pc, status, repository>>

Match ==
    /\ stack # <<>> /\ pc \in {"run", "page"}
    /\ Top.at = "match"
    /\ LET matching == {k \in DOMAIN Routes : Matches(Routes[k])}
       IN  \/ matching = {} /\ Throw(404) /\ UNCHANGED repository
           \/ \E k \in matching :
                /\ \A l \in matching \ {k} : k < l
                /\ LET handlers == getHandlersSupportingOperation(Routes[k], Top.request.method)
                   IN  \/ handlers = {} /\ Throw(500) /\ UNCHANGED repository
                       \/ \E i \in handlers :
                            /\ \A j \in handlers \ {i} : SortedBefore(i, j)
                            /\ Start(Routes[k], Registered[i].class)
    /\ UNCHANGED <<locale, calls, writes>>

At(step) == stack # <<>> /\ Top.at = step

(* What a project's handler does: anything, without CommonRepository. *)
Custom ==
    /\ At("custom")
    /\ \/ Goto("after") /\ UNCHANGED <<pc, status>>
       \/ Throw(500)
       \/ MatchNext /\ UNCHANGED <<pc, status>>
    /\ UNCHANGED <<locale, repository, calls, writes>>

(* isGranted, and what follows up to the next event. *)
Security ==
    /\ At("security")
    /\ \/ Throw(403) /\ UNCHANGED <<repository, writes>>
       \/ /\ Top.handler = "ItemGet"
          /\ Goto("after") /\ UNCHANGED <<pc, status, repository, writes>>
       \/ /\ Top.handler = "ItemDelete"
          /\ Write(Nowhere)
          /\ Goto("after") /\ UNCHANGED <<pc, status, repository>>
       \/ /\ Top.handler \in {"ItemPut", "ItemPatch"}
          /\ Goto("deserialize") /\ UNCHANGED <<pc, status, repository, writes>>
       \/ /\ Top.handler = "CollectionPost"
          /\ repository' = Acquired(Top.operation)
          /\ stack' = [stack EXCEPT ![Len(stack)].at = "deserialize",
                                    ![Len(stack)].interrupted = FALSE]
          /\ UNCHANGED <<pc, status, writes>>
       \/ /\ Top.handler = "CollectionGet"
          /\ repository' = Acquired(Top.operation)
          /\ Goto("query") /\ UNCHANGED <<pc, status, writes>>
       \/ /\ Top.handler = "FileUpload"
          /\ UNCHANGED repository
          /\ \/ Throw(500) /\ UNCHANGED writes
             \/ Write(Nowhere) /\ SetStatus(201) /\ Goto("after") /\ UNCHANGED pc
    /\ UNCHANGED <<locale, calls>>

(* findFiltered up to the events of the filters: the query is created first,
   and nothing happens between this and getInstanceForOperation. *)
CreateQuery ==
    /\ At("query")
    /\ stack' = [stack EXCEPT ![Len(stack)].at = "filters",
                              ![Len(stack)].query = [entity |-> repository.entity,
                                                     pages |-> repository.pages]]
    /\ UNCHANGED <<pc, locale, repository, status, calls, writes>>

(* The filters, once they have been granted. *)
Filter ==
    /\ At("filters")
    /\ \/ Throw(500)
       \/ Goto("after") /\ UNCHANGED <<pc, status>>
    /\ UNCHANGED <<locale, repository, calls, writes>>

(* deserializeOperation and validateObject; then add or update and persistAll. *)
Store ==
    LET pid == AddedPid(Top.request.pid)
    IN  /\ At("deserialize")
        /\ \/ \E code \in {400, 403, 500} : Throw(code) /\ UNCHANGED writes
           \/ /\ Top.handler = "ItemPatch"
              /\ Write(Nowhere)
              /\ Goto("after") /\ UNCHANGED <<pc, status>>
           \/ /\ Top.handler # "ItemPatch" /\ pid = Nowhere
              /\ Throw(500) /\ UNCHANGED writes
           \/ /\ Top.handler # "ItemPatch" /\ pid # Nowhere
              /\ Write(pid)
              /\ IF Top.handler = "CollectionPost" THEN SetStatus(201) ELSE UNCHANGED status
              /\ Goto("after") /\ UNCHANGED pc
        /\ UNCHANGED <<locale, repository, calls>>

(* AfterProcessOperationEvent is over: the result is serialized. *)
Serialize ==
    /\ At("after")
    /\ \/ Throw(500)
       \/ Return /\ UNCHANGED status
    /\ UNCHANGED <<locale, repository, calls, writes>>

(* A listener of one of the operation's events, or an inline view helper of
   the page, calls the HeadlessDispatcher. *)
Headless ==
    /\ pc \in {"run", "page"}
    /\ calls < IF pc = "page" THEN MaxCalls + 1 ELSE MaxCalls
    /\ IF stack = <<>> THEN pc = "page"
                       ELSE Top.at \in {"security", "filters", "deserialize", "after"}
    /\ calls' = calls + 1
    /\ \E q \in Requests :
         /\ stack = <<>> => q.method = "GET"
         /\ stack' = IF stack = <<>> THEN <<Frame(q)>>
                     ELSE Append([stack EXCEPT ![Len(stack)].interrupted = TRUE], Frame(q))
    /\ UNCHANGED <<pc, locale, repository, status, writes>>

FinishPage ==
    /\ pc = "page" /\ stack = <<>>
    /\ pc' = "answered"
    /\ UNCHANGED <<locale, stack, repository, status, calls, writes>>

Init ==
    /\ pc = "idle"
    /\ url = Default
    /\ header = NoLanguage
    /\ language = Default
    /\ stack = <<>>
    /\ repository = [operation |-> NoOperation, entity |-> NoOperation, pages |-> {}]
    /\ status = 200
    /\ calls = 0
    /\ writes = {}

(* The process starts afresh. *)
Finish ==
    /\ pc \in {"answered", "uncaught"}
    /\ pc' = "idle"
    /\ url' = Default
    /\ header' = NoLanguage
    /\ language' = Default
    /\ stack' = <<>>
    /\ repository' = [operation |-> NoOperation, entity |-> NoOperation, pages |-> {}]
    /\ status' = 200
    /\ calls' = 0
    /\ writes' = {}

Step ==
    \/ ResolveLanguage
    \/ Match
    \/ Custom
    \/ Security
    \/ CreateQuery
    \/ Filter
    \/ Store
    \/ Serialize
    \/ FinishPage

Next == Receive \/ Step \/ Headless \/ Finish

Spec == Init /\ [][Next]_vars

(* PHP goes on with what it runs; listeners call no more than MaxCalls times,
   and nobody has to send a request. *)
FairSpec == Spec /\ WF_vars(Step)

-----------------------------------------------------------------------------
(* Properties *)

(* Every variable keeps its type; no operation is left on the stack, and a
   query is made with the settings of an operation. *)
TypeOK ==
    /\ pc \in {"idle", "middleware", "run", "page", "answered", "uncaught"}
    /\ url \in Languages
    /\ header \in Languages \cup {NoLanguage, Unknown}
    /\ language \in Languages
    /\ Len(stack) <= MaxCalls + 1
    /\ pc \in {"idle", "answered", "uncaught"} => stack = <<>>
    /\ \A i \in DOMAIN stack :
         /\ stack[i].request \in Requests
         /\ stack[i].operation \in Operations \cup {NoOperation}
         /\ stack[i].query \in {Settings(o) : o \in Operations} \cup {NoSettings}
         /\ stack[i].at \in {"match", "custom", "security", "query", "filters",
                            "deserialize", "after"}
    /\ repository.operation \in Operations \cup {NoOperation}
    /\ status \in {200, 201, 400, 403, 404, 405, 500}
    /\ calls \in 0 .. MaxCalls + 1

(* A collection is queried with the entity and the storage pages of its own
   operation, whatever operations ran on the shared repository before and
   whatever the listeners of its filters run. *)
QueriesOwn ==
    \A i \in DOMAIN stack :
        stack[i].query # NoSettings => stack[i].query = Settings(stack[i].operation)

(* The page of an added object is one its own operation allows. *)
OwnPid(x) ==
    IF x.pid = 0 THEN x.operation.main = 0
                 ELSE x.operation.pages = {} \/ x.pid \in x.operation.pages

(* An object is added to a page that its operation allows, after any number of
   other operations on the shared repository, unless one of them ran between
   the handler's getInstanceForOperation and its add. *)
AddsOwnUnlessInterrupted ==
    \A x \in writes : x.pid # Nowhere /\ ~x.interrupted => OwnPid(x)

(* A preflight changes nothing.  Its route is that of the operation, whose own
   handler would support it, and run it: OptionsOperationHandler has to come
   first, before the project's handlers as well. *)
PreflightChangesNothing == \A x \in writes : x.method # "OPTIONS"

(* While the process runs its request the response says 201 exactly if this
   request is a POST that has been carried out, whatever other operations it
   has run on the way. *)
CreatedMeansCreated ==
    pc = "run" =>
        (status = 201 <=> stack[1].at = "after"
                          /\ stack[1].handler \in {"CollectionPost", "FileUpload"})

(* The two documented ways to a language lead to the routes of the API: its
   base in the URL and no header, or the header and the URL of the default
   language (if that one's base is "/"). *)
LanguageServed ==
    /\ pc = "run"
    /\ \/ header = NoLanguage
       \/ header \in Languages /\ url = Default /\ Default = RootLanguage
    => Prefixed /\ language = IF header = NoLanguage THEN url ELSE header

(* Every request is answered, or ends with an exception that TYPO3 answers,
   however its handlers and listeners fail: no resource is tried twice. *)
EveryRequestAnswered ==
    pc \in {"middleware", "page"} ~> pc \in {"answered", "uncaught"}
================================================================================
