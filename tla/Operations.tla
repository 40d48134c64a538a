------------------------------- MODULE Operations -------------------------------
(***************************************************************************)
(* The operation pipeline of t3api: what happens to one HTTP request from  *)
(* AbstractDispatcher::processOperation to the answer Bootstrap::process   *)
(* returns, for several PHP processes that serve requests at the same time *)
(* on the table of one API resource.                                       *)
(*                                                                         *)
(* A PHP process shares nothing with the others but the database: the      *)
(* object a handler works on is a copy made when the record was loaded     *)
(* (Extbase keeps it, and the values it was loaded with, in the identity   *)
(* map of the process), and persistAll writes the properties that differ   *)
(* from the loaded ones.  So the interleavings that matter are those of    *)
(* loading, writing and dying.                                             *)
(***************************************************************************)
EXTENDS Integers, FiniteSets

CONSTANTS
    Workers,                \* PHP processes
    Uids,                   \* uids of the table: of records, and unused ones
    NoUid,                  \* the uid of an object that is not persisted yet
    InitialUids,            \* the uids of the records that exist at first
    Properties,             \* mapped properties of the entity, without uid, pid
    Values,                 \* property values
    Blank,                  \* Blank[p]: the value of p in `new $entityClass()`
    ValidValues,            \* ValidValues[p]: what the validators of p accept
    Payloads,               \* request bodies: [columns |-> .., pid |-> ..]
    NullPid,                \* PHP's null as a pid
    StoragePageIds,         \* storagePid with recursion; {} if not configured
    MainStoragePid,         \* PersistenceSettings::getMainStoragePid
    ListenerEdits,          \* what listeners may turn a deserialized object into
    Secured,                \* methods whose operation has a `security`
    SecurityAllows,         \* the objects a `security` expression grants
    PostSecured,            \* methods with a `security_post_denormalize`
    PostDenormalizeAllows   \* the objects that expression grants

ItemMethods == {"GET", "PUT", "PATCH", "DELETE"}
Methods     == ItemMethods \cup {"POST"}
Objects     == [Properties -> Values]
Statuses    == {0, 200, 201, 400, 403, 404, 500}
Pids        == Int \cup {NullPid}

ASSUME TableAssumption ==
    /\ NoUid \notin Uids
    /\ InitialUids \subseteq Uids
    /\ NullPid \notin Int
ASSUME EntityAssumption ==
    /\ Blank \in Objects
    /\ ValidValues \in [Properties -> SUBSET Values]
    /\ ListenerEdits \subseteq Objects
ASSUME PayloadAssumption ==
    /\ Payloads # {}
    /\ \A b \in Payloads : /\ DOMAIN b.columns \subseteq Properties
                           /\ \A p \in DOMAIN b.columns : b.columns[p] \in Values
                           /\ b.pid \in Pids
ASSUME StorageAssumption ==
    /\ StoragePageIds \subseteq Int
    /\ MainStoragePid \in Int
    /\ MainStoragePid > 0 => MainStoragePid \in StoragePageIds

VARIABLES
    rows,       \* rows[u]: state "free", "live" or "deleted", columns and pid
    pc,         \* pc[w]: the next call of the handler w runs
    request,    \* request[w]: [method, payload] of the request w serves
    uid,        \* uid[w]: uid of the object of w
    object,     \* object[w]: the properties of the object in memory
    clean,      \* clean[w]: the properties the object was loaded with
    pid,        \* pid[w]: the pid of the object, where `add` looks at it
    resolver,   \* resolver[w]: the expression resolver's variables
    persisted,  \* persisted[w]: whether persistAll has been done (a history)
    status      \* status[w]: status of the answer, 0 while there is none

vars == <<rows, pc, request, uid, object, clean, pid, resolver, persisted, status>>

-----------------------------------------------------------------------------
Valid(o) == \A p \in Properties : o[p] \in ValidValues[p]

AllowedPid(q) ==
    \/ q \in StoragePageIds
    \/ StoragePageIds = {}
    \/ q = NullPid /\ MainStoragePid <= 0
    \/ q # NullPid /\ q <= 0

AnyPayload == CHOOSE b \in Payloads : TRUE
NoRequest  == [method |-> "none", payload |-> AnyPayload]

Row == [state : {"free", "live", "deleted"}, columns : Objects, pid : Pids]

Unused == [state |-> "free", columns |-> Blank, pid |-> MainStoragePid]

Init ==
    /\ \E stored \in [InitialUids -> {o \in Objects : Valid(o)}] :
         rows = [u \in Uids |->
                   IF u \in InitialUids
                     THEN [Unused EXCEPT !.state = "live", !.columns = stored[u]]
                     ELSE Unused]
    /\ pc = [w \in Workers |-> "idle"]
    /\ request = [w \in Workers |-> NoRequest]
    /\ uid = [w \in Workers |-> NoUid]
    /\ object = [w \in Workers |-> Blank]
    /\ clean = [w \in Workers |-> Blank]
    /\ pid = [w \in Workers |-> NullPid]
    /\ resolver = [w \in Workers |-> "unset"]
    /\ persisted = [w \in Workers |-> FALSE]
    /\ status = [w \in Workers |-> 0]

-----------------------------------------------------------------------------
(* The state of the process: the object, what expressions see, the answer.  *)
inMemory == <<uid, object, clean, pid>>

(* Mutant: Bootstrap::process does not catch \Throwable. *)
FailIfExceptionInterface(w, code) ==
    /\ code # 500
    /\ pc' = [pc EXCEPT ![w] = "answered"]
    /\ status' = [status EXCEPT ![w] = code]
    /\ UNCHANGED <<rows, request, persisted>>

(* An exception ends the handler: Bootstrap::process serializes it and
   answers with its status. *)
Fail(w, code) ==
    /\ pc' = [pc EXCEPT ![w] = "answered"]
    /\ status' = [status EXCEPT ![w] = code]
    /\ UNCHANGED <<rows, request, persisted>>

Proceed(w, step) ==
    /\ pc' = [pc EXCEPT ![w] = step]
    /\ UNCHANGED <<request, status>>

(* Everything the process held is gone: the next request starts afresh. *)
Forget(w) ==
    /\ pc' = [pc EXCEPT ![w] = "idle"]
    /\ request' = [request EXCEPT ![w] = NoRequest]
    /\ uid' = [uid EXCEPT ![w] = NoUid]
    /\ object' = [object EXCEPT ![w] = Blank]
    /\ clean' = [clean EXCEPT ![w] = Blank]
    /\ pid' = [pid EXCEPT ![w] = NullPid]
    /\ resolver' = [resolver EXCEPT ![w] = "unset"]
    /\ persisted' = [persisted EXCEPT ![w] = FALSE]
    /\ status' = [status EXCEPT ![w] = 0]
    /\ UNCHANGED rows

(* AbstractAccessChecker keeps the first resolver it builds, with the
   variables of the first evaluation, for the rest of the process. *)
Evaluate(w, variables) ==
    resolver' = IF resolver[w] = "unset"
                  THEN [resolver EXCEPT ![w] = variables]
                  ELSE resolver

-----------------------------------------------------------------------------
(* A request reaches a process and its operation's handler.  A POST is only
   received while an unused uid is left for it (the bound of the table). *)
RoomForInsert ==
    Cardinality({w \in Workers : request[w].method = "POST" /\ ~persisted[w]})
      < Cardinality({u \in Uids : rows[u].state = "free"})

Receive(w) ==
    /\ pc[w] = "idle"
    /\ \E m \in Methods, b \in Payloads :
         /\ m = "POST" => RoomForInsert
         /\ m \notin {"POST", "PUT", "PATCH"} => b = AnyPayload
         /\ request' = [request EXCEPT ![w] = [method |-> m, payload |-> b]]
         /\ IF m = "POST" THEN UNCHANGED uid
                          ELSE \E u \in Uids : uid' = [uid EXCEPT ![w] = u]
    /\ pc' = [pc EXCEPT ![w] = "handle"]
    /\ UNCHANGED <<rows, object, clean, pid, resolver, persisted, status>>

(* Mutant: ItemDeleteOperationHandler without persistAll. *)
AfterItemLoadNoPersistAll(m) == IF m \in {"GET", "DELETE"} THEN "serialize"
                                                           ELSE "deserialize"

AfterItemLoad(m) ==
    CASE m = "GET"    -> "serialize"
      [] m = "DELETE" -> "persist"
      [] OTHER        -> "deserialize"

(* AbstractItemOperationHandler::handle: findByUid of a live record, which
   is copied into memory, then isGranted on the copy. *)
HandleItem(w) ==
    LET m == request[w].method
        o == rows[uid[w]].columns
    IN  /\ pc[w] = "handle"
        /\ m \in ItemMethods
        /\ \/ /\ rows[uid[w]].state # "live"
              /\ Fail(w, 404)
              /\ UNCHANGED <<inMemory, resolver>>
           \/ /\ rows[uid[w]].state = "live"
              /\ object' = [object EXCEPT ![w] = o]
              /\ clean' = [clean EXCEPT ![w] = o]
              /\ IF m \in Secured THEN Evaluate(w, "object") ELSE UNCHANGED resolver
              /\ IF m \in Secured /\ o \notin SecurityAllows
                   THEN Fail(w, 403)
                   ELSE Proceed(w, AfterItemLoad(m)) /\ UNCHANGED <<rows, persisted>>
              /\ UNCHANGED <<uid, pid>>

(* AbstractCollectionOperationHandler::handle of a POST: a `security` can
   only look at the user, so it may grant or deny. *)
HandleCollection(w) ==
    /\ pc[w] = "handle"
    /\ request[w].method = "POST"
    /\ IF "POST" \in Secured THEN Evaluate(w, "user") ELSE UNCHANGED resolver
    /\ \/ "POST" \in Secured /\ Fail(w, 403)
       \/ Proceed(w, "deserialize") /\ UNCHANGED <<rows, persisted>>
    /\ UNCHANGED inMemory

(* Mutant: ItemPutOperationHandler without the reset. *)
BaseWithoutReset(w) == IF request[w].method = "POST" THEN Blank ELSE object[w]

(* AbstractOperationHandler::deserializeOperation, after the reset to the
   properties of a new object that a PUT starts with: the payload is read
   into the object, the `security_post_denormalize` evaluated, and the
   listeners of AfterDeserializeOperationEvent called.  They may edit the
   object; one they replace it by is used by POST and ignored by PUT, PATCH. *)
Base(w) == IF request[w].method = "PATCH" THEN object[w] ELSE Blank

(* Mutant: the deserializer does not construct into the target object. *)
DeserializedPartially(w) == request[w].payload.columns

Deserialized(w) ==
    LET columns == request[w].payload.columns
    IN  [p \in Properties |-> IF p \in DOMAIN columns THEN columns[p]
                                                      ELSE Base(w)[p]]

Deserialize(w) ==
    LET m == request[w].method
        o == Deserialized(w)
    IN  /\ pc[w] = "deserialize"
        /\ \/ /\ Fail(w, 500)               \* the payload cannot be read
              /\ UNCHANGED <<object, pid, resolver>>
           \/ /\ pid' = IF m = "PATCH" THEN pid
                                       ELSE [pid EXCEPT ![w] = request[w].payload.pid]
              /\ IF m \in PostSecured THEN Evaluate(w, "object") ELSE UNCHANGED resolver
              /\ IF m \in PostSecured /\ resolver'[w] # "object"
                   THEN Fail(w, 500) /\ UNCHANGED object  \* unknown variable
                 ELSE IF m \in PostSecured /\ o \notin PostDenormalizeAllows
                   THEN Fail(w, 403) /\ UNCHANGED object
                 ELSE /\ \E e \in {o} \cup ListenerEdits :
                            object' = [object EXCEPT ![w] = e]
                      /\ Proceed(w, "validate")
                      /\ UNCHANGED <<rows, persisted>>
        /\ UNCHANGED <<uid, clean>>

(* Mutant: CommonRepository::add does not compare the pid with the storage. *)
AddAnywhere(w) ==
    /\ pid' = IF pid[w] = NullPid /\ MainStoragePid > 0
                 THEN [pid EXCEPT ![w] = MainStoragePid] ELSE pid
    /\ Proceed(w, "persist")
    /\ UNCHANGED <<rows, persisted>>

(* CommonRepository::add (POST and PUT): the object goes to the main storage
   page unless it names a page, which has to be one of the storage pages. *)
Add(w) ==
    IF pid[w] = NullPid /\ MainStoragePid > 0
      THEN /\ pid' = [pid EXCEPT ![w] = MainStoragePid]
           /\ Proceed(w, "persist")
           /\ UNCHANGED <<rows, persisted>>
    ELSE /\ UNCHANGED pid
         /\ IF pid[w] # NullPid /\ pid[w] > 0
                 /\ StoragePageIds # {} /\ pid[w] \notin StoragePageIds
              THEN Fail(w, 500)
              ELSE Proceed(w, "persist") /\ UNCHANGED <<rows, persisted>>

(* Mutant: ItemPatchOperationHandler persists without validateObject. *)
ValidateUnlessPatch(w) ==
    /\ pc[w] = "validate"
    /\ IF request[w].method = "PATCH"
         THEN Proceed(w, "persist") /\ UNCHANGED <<rows, persisted, pid>>
       ELSE IF Valid(object[w]) THEN Add(w)
                                ELSE Fail(w, 400) /\ UNCHANGED pid
    /\ UNCHANGED <<uid, object, clean, resolver>>

(* ValidationService::validateObject, then CommonRepository::add or update
   (which checks nothing). *)
Validate(w) ==
    /\ pc[w] = "validate"
    /\ \/ ~Valid(object[w]) /\ Fail(w, 400) /\ UNCHANGED pid
       \/ Valid(object[w]) /\ request[w].method # "PATCH" /\ Add(w)
       \/ /\ Valid(object[w]) /\ request[w].method = "PATCH"
          /\ Proceed(w, "persist")
          /\ UNCHANGED <<rows, persisted, pid>>
    /\ UNCHANGED <<uid, object, clean, resolver>>

-----------------------------------------------------------------------------
(* Mutants: all properties are written; the deleted flag is as well. *)
UpdatedInFull(w, row) == [row EXCEPT !.columns = object[w]]

UpdatedAsLive(w, row) ==
    [row EXCEPT !.state = "live", !.columns = [p \in Properties |->
        IF object[w][p] # clean[w][p] THEN object[w][p] ELSE row.columns[p]]]

(* PersistenceManager::persistAll (Extbase): an object without uid is
   inserted; of one with a uid the properties that differ from the loaded
   ones are written to the row with this uid, deleted or not, and the page is
   not; a removed one is marked as deleted. *)
Updated(w, row) ==
    [row EXCEPT !.columns = [p \in Properties |->
        IF object[w][p] # clean[w][p] THEN object[w][p] ELSE row.columns[p]]]

Insert(w) ==
    /\ request[w].method = "POST"
    /\ \E u \in Uids :
         /\ rows[u].state = "free"
         /\ rows' = [rows EXCEPT ![u] = [state |-> "live", columns |-> object[w],
                                         pid |-> pid[w]]]
         /\ uid' = [uid EXCEPT ![w] = u]

Update(w) ==
    /\ request[w].method \in {"PUT", "PATCH"}
    /\ rows' = [rows EXCEPT ![uid[w]] = Updated(w, @)]
    /\ UNCHANGED uid

Remove(w) ==
    /\ request[w].method = "DELETE"
    /\ rows' = [rows EXCEPT ![uid[w]].state = "deleted"]
    /\ UNCHANGED uid

Persist(w) ==
    /\ pc[w] = "persist"
    /\ \/ Fail(w, 500) /\ UNCHANGED uid     \* the database refuses
       \/ /\ Insert(w) \/ Update(w) \/ Remove(w)
          /\ persisted' = [persisted EXCEPT ![w] = TRUE]
          /\ Proceed(w, "serialize")
    /\ UNCHANGED <<object, clean, pid, resolver>>

(* The result is serialized for the answer, which may fail as well. *)
Serialize(w) ==
    /\ pc[w] = "serialize"
    /\ \/ Fail(w, 500)
       \/ /\ pc' = [pc EXCEPT ![w] = "answered"]
          /\ status' = [status EXCEPT ![w] =
                          IF request[w].method = "POST" THEN 201 ELSE 200]
          /\ UNCHANGED <<rows, request, persisted>>
    /\ UNCHANGED <<inMemory, resolver>>

(* The answer is out and the process is free. *)
Deliver(w) == pc[w] = "answered" /\ Forget(w)

(* The process dies (fatal error, time limit, lost database): no answer. *)
Die(w) == pc[w] \notin {"idle", "answered"} /\ Forget(w)

Handler(w) ==
    \/ HandleItem(w)
    \/ HandleCollection(w)
    \/ Deserialize(w)
    \/ Validate(w)
    \/ Persist(w)
    \/ Serialize(w)

Next == \E w \in Workers : Receive(w) \/ Handler(w) \/ Deliver(w) \/ Die(w)

Spec == Init /\ [][Next]_vars

(* PHP runs a handler to its end, unless the process dies.  Nobody has to
   send a request, so Receive has no fairness. *)
FairSpec == Spec /\ \A w \in Workers : WF_vars(Handler(w))

-----------------------------------------------------------------------------
(* Properties *)

(* Every variable keeps its type; in particular the object in memory always
   has a value for every property of its class. *)
TypeOK ==
    /\ rows \in [Uids -> Row]
    /\ pc \in [Workers -> {"idle", "handle", "deserialize", "validate", "persist",
                           "serialize", "answered"}]
    /\ request \in [Workers -> [method : Methods \cup {"none"}, payload : Payloads]]
    /\ uid \in [Workers -> Uids \cup {NoUid}]
    /\ object \in [Workers -> Objects]
    /\ clean \in [Workers -> Objects]
    /\ pid \in [Workers -> Pids]
    /\ resolver \in [Workers -> {"unset", "object", "user"}]
    /\ persisted \in [Workers -> BOOLEAN]
    /\ status \in [Workers -> Statuses]

(* A client that is answered with a success knows that its change is in the
   database, one that is refused with a 400, 403 or 404 that nothing of it is:
   every exception of the handlers comes before persistAll, and no handler of
   a changing method returns without it. *)
StatusTellsEffect ==
    \A w \in Workers :
        /\ status[w] \in {200, 201} => persisted[w] \/ request[w].method = "GET"
        /\ status[w] \in {400, 403, 404} => ~persisted[w]

(* Every stored record satisfies the validators of its properties, although
   what validateObject has seen (the object as loaded and edited) is not what
   is stored (the row as other processes left it, with the edited properties). *)
StoredColumnsValid ==
    \A u \in Uids : rows[u].state # "free" => Valid(rows[u].columns)

(* Every record lies on one of the configured storage pages, if it does not
   lie on a page that CommonRepository::add does not check (the root page). *)
StoragePageRespected == \A u \in Uids : AllowedPid(rows[u].pid)

(* The step of w that writes its object to the database. *)
Persists(w, m) ==
    pc[w] = "persist" /\ pc'[w] = "serialize" /\ request[w].method = m

(* A PATCH changes no property its payload does not name, in no record but
   its own: what another process wrote since the object was loaded survives.
   (For runs whose listeners edit nothing.) *)
PatchTouchesOnlyPayload ==
    [][\A w \in Workers, u \in Uids, p \in Properties :
         Persists(w, "PATCH") /\ rows'[u].columns[p] # rows[u].columns[p]
           => u = uid[w] /\ p \in DOMAIN request[w].payload.columns]_vars

(* What the record of a PUT is to become: its payload, and nothing of what it
   was before. *)
Replacement(w) ==
    LET columns == request[w].payload.columns
    IN  [p \in Properties |-> IF p \in DOMAIN columns THEN columns[p] ELSE Blank[p]]

(* A PUT replaces the record by its payload if no other process wrote to the
   record since it was loaded.  (For runs whose listeners edit nothing.) *)
PutReplacesWhenUndisturbed ==
    [][\A w \in Workers :
         Persists(w, "PUT") /\ rows[uid[w]].columns = clean[w]
           => rows'[uid[w]].columns = Replacement(w)]_vars

(* A PUT replaces the record by its payload, whatever other processes do. *)
PutReplaces ==
    [][\A w \in Workers :
         Persists(w, "PUT") => rows'[uid[w]].columns = Replacement(w)]_vars

(* Where a `security_post_denormalize` is about to be evaluated, the variables
   it is evaluated with contain the denormalized object: either the resolver
   is still to be built, with the object, or the one that is there has it. *)
PostDenormalizeSeesObject ==
    \A w \in Workers :
        pc[w] = "deserialize" /\ request[w].method \in PostSecured
          => resolver[w] # "user"

(* Every request that reached a handler is answered, unless its process dies:
   no exception gets past Bootstrap::process. *)
EveryRequestIsAnswered ==
    \A w \in Workers : pc[w] = "handle" ~> pc[w] \in {"answered", "idle"}

(* The pipeline implements the atomic store. *)
Stage(w) ==
    CASE pc[w] = "idle"     -> "idle"
      [] pc[w] = "answered" -> "answered"
      [] OTHER              -> IF persisted[w] THEN "effected" ELSE "open"

Store == INSTANCE ResourceStore WITH
            stage  <- [w \in Workers |-> Stage(w)],
            method <- [w \in Workers |-> request[w].method]

(* Every request takes effect at most once, in one step, on one record: a POST
   on an unused uid, a PUT or PATCH without reviving a deleted record, and
   what it is answered fits what it did. *)
StoreSpec == Store!Spec

================================================================================
