---------------------------- MODULE OperationsProofs ----------------------------
(***************************************************************************)
(* Proofs about Operations, for any number of processes, records,          *)
(* properties and payloads.                                                *)
(***************************************************************************)
EXTENDS Operations, TLAPS

-----------------------------------------------------------------------------
(* Types *)

(* What the deserializer leaves in memory has a value for every property. *)
LEMMA DeserializedType ==
    ASSUME TypeOK, NEW w \in Workers
    PROVE  Deserialized(w) \in Objects
<1>1. request[w].payload \in Payloads
  BY DEF TypeOK
<1>2. Base(w) \in Objects
  BY EntityAssumption DEF TypeOK, Base
<1> QED
  BY <1>1, <1>2, PayloadAssumption DEF Deserialized, Objects

(* An update leaves a row a row. *)
LEMMA UpdatedType ==
    ASSUME TypeOK, NEW w \in Workers, NEW row \in Row
    PROVE  Updated(w, row) \in Row
<1> DEFINE columns == [p \in Properties |-> IF object[w][p] # clean[w][p]
                                              THEN object[w][p] ELSE row.columns[p]]
<1>1. object[w] \in Objects /\ clean[w] \in Objects /\ row.columns \in Objects
  BY DEF TypeOK, Row
<1>2. columns \in Objects
  BY <1>1 DEF Objects
<1>3. Updated(w, row) = [row EXCEPT !.columns = columns]
  BY DEF Updated
<1> HIDE DEF columns
<1> QED
  BY <1>2, <1>3 DEF Row

(* The types of the variables in three groups. *)
TableOK == rows \in [Uids -> Row]

ControlOK ==
    /\ pc \in [Workers -> {"idle", "handle", "deserialize", "validate", "persist",
                           "serialize", "answered"}]
    /\ request \in [Workers -> [method : Methods \cup {"none"}, payload : Payloads]]
    /\ persisted \in [Workers -> BOOLEAN]
    /\ status \in [Workers -> Statuses]

MemoryOK ==
    /\ uid \in [Workers -> Uids \cup {NoUid}]
    /\ object \in [Workers -> Objects]
    /\ clean \in [Workers -> Objects]
    /\ pid \in [Workers -> Pids]
    /\ resolver \in [Workers -> {"unset", "object", "user"}]

LEMMA TypeParts == TypeOK <=> TableOK /\ ControlOK /\ MemoryOK
  BY DEF TypeOK, TableOK, ControlOK, MemoryOK

LEMMA FailType ==
    ASSUME TypeOK, NEW w \in Workers, NEW code \in {400, 403, 404, 500}, Fail(w, code)
    PROVE  TableOK' /\ ControlOK'
  BY DEF TypeOK, Fail, TableOK, ControlOK, Statuses

LEMMA ProceedType ==
    ASSUME TypeOK, NEW w \in Workers, UNCHANGED <<rows, persisted>>,
           NEW step \in {"deserialize", "validate", "persist", "serialize"},
           Proceed(w, step)
    PROVE  TableOK' /\ ControlOK'
  BY DEF TypeOK, Proceed, TableOK, ControlOK

LEMMA EvaluateType ==
    ASSUME TypeOK, NEW w \in Workers, NEW variables \in {"object", "user"},
           Evaluate(w, variables)
    PROVE  resolver' \in [Workers -> {"unset", "object", "user"}]
  BY DEF TypeOK, Evaluate

LEMMA ForgetType ==
    ASSUME TypeOK, NEW w \in Workers, Forget(w)
    PROVE  TypeOK'
<1>1. AnyPayload \in Payloads
  BY PayloadAssumption DEF AnyPayload
<1> QED
  BY <1>1, EntityAssumption DEF Forget, TypeOK, NoRequest, Pids, Statuses

(* Of an item request the uid is known: without it the types are not
   inductive, as HandleItem reads the row of this uid. *)
ItemHasUid == \A w \in Workers : request[w].method \in ItemMethods => uid[w] \in Uids

LEMMA InitType == Init => TypeOK
<1> SUFFICES ASSUME Init PROVE TypeOK
  OBVIOUS
<1>1. AnyPayload \in Payloads
  BY PayloadAssumption DEF AnyPayload
<1>2. Unused \in Row
  BY EntityAssumption, StorageAssumption DEF Unused, Row, Pids
<1>3. rows \in [Uids -> Row]
  <2> PICK stored \in [InitialUids -> {o \in Objects : Valid(o)}] :
         rows = [u \in Uids |->
                   IF u \in InitialUids
                     THEN [Unused EXCEPT !.state = "live", !.columns = stored[u]]
                     ELSE Unused]
    BY DEF Init
  <2> QED
    BY <1>2 DEF Row
<1> QED
  BY <1>1, <1>3, EntityAssumption
  DEF Init, TypeOK, NoRequest, Pids, Statuses

LEMMA NextType == TypeOK /\ ItemHasUid /\ [Next]_vars => TypeOK'
<1> SUFFICES ASSUME TypeOK, ItemHasUid, [Next]_vars PROVE TypeOK'
  OBVIOUS
<1>1. CASE UNCHANGED vars
  BY <1>1 DEF TypeOK, vars
<1>2. ASSUME NEW w \in Workers, Receive(w) PROVE TypeOK'
  <2> PICK m \in Methods, b \in Payloads :
        /\ request' = [request EXCEPT ![w] = [method |-> m, payload |-> b]]
        /\ IF m = "POST" THEN UNCHANGED uid
                         ELSE \E u \in Uids : uid' = [uid EXCEPT ![w] = u]
    BY <1>2 DEF Receive
  <2> QED
    BY <1>2 DEF Receive, TypeOK
<1>3. ASSUME NEW w \in Workers, HandleItem(w) PROVE TypeOK'
  <2>1. TableOK' /\ ControlOK'
    <3>1. AfterItemLoad(request[w].method) \in {"deserialize", "persist", "serialize"}
      BY DEF AfterItemLoad
    <3> QED
      BY <1>3, <3>1, FailType, ProceedType DEF HandleItem
  <2>2. resolver' \in [Workers -> {"unset", "object", "user"}]
    BY <1>3, EvaluateType DEF HandleItem, TypeOK
  <2>3. uid[w] \in Uids
    BY <1>3 DEF HandleItem, ItemHasUid
  <2>4. rows[uid[w]].columns \in Objects
    BY <2>3 DEF TypeOK, Row
  <2>5. MemoryOK'
    BY <1>3, <2>2, <2>4 DEF HandleItem, TypeOK, MemoryOK, inMemory
  <2> QED
    BY <2>1, <2>5, TypeParts, PTL
<1>4. ASSUME NEW w \in Workers, HandleCollection(w) PROVE TypeOK'
  <2>1. TableOK' /\ ControlOK'
    BY <1>4, FailType, ProceedType DEF HandleCollection
  <2>2. resolver' \in [Workers -> {"unset", "object", "user"}]
    BY <1>4, EvaluateType DEF HandleCollection, TypeOK
  <2>3. MemoryOK'
    BY <1>4, <2>2 DEF HandleCollection, TypeOK, MemoryOK, inMemory
  <2> QED
    BY <2>1, <2>3, TypeParts, PTL
<1>5. ASSUME NEW w \in Workers, Deserialize(w) PROVE TypeOK'
  <2>1. request[w].payload.pid \in Pids
    BY PayloadAssumption DEF TypeOK
  <2>2. {Deserialized(w)} \cup ListenerEdits \subseteq Objects
    BY DeserializedType, EntityAssumption
  <2>3. TableOK' /\ ControlOK'
    BY <1>5, FailType, ProceedType DEF Deserialize
  <2>4. resolver' \in [Workers -> {"unset", "object", "user"}]
    BY <1>5, EvaluateType DEF Deserialize, TypeOK
  <2>5. object' \in [Workers -> Objects]
    BY <1>5, <2>2 DEF Deserialize, TypeOK
  <2>6. pid' \in [Workers -> Pids]
    BY <1>5, <2>1 DEF Deserialize, TypeOK
  <2>7. MemoryOK'
    BY <1>5, <2>4, <2>5, <2>6 DEF Deserialize, TypeOK, MemoryOK
  <2> QED
    BY <2>3, <2>7, TypeParts, PTL
<1>6. ASSUME NEW w \in Workers, Validate(w) PROVE TypeOK'
  <2>1. TableOK' /\ ControlOK'
    BY <1>6, FailType, ProceedType DEF Validate, Add
  <2>2. pid' \in [Workers -> Pids]
    BY <1>6, StorageAssumption DEF Validate, Add, TypeOK, Pids
  <2>3. MemoryOK'
    BY <1>6, <2>2 DEF Validate, TypeOK, MemoryOK
  <2> QED
    BY <2>1, <2>3, TypeParts, PTL
<1>7. ASSUME NEW w \in Workers, Persist(w) PROVE TypeOK'
  <2>1. CASE Fail(w, 500) /\ UNCHANGED uid
    <3>1. MemoryOK'
      BY <1>7, <2>1 DEF Persist, TypeOK, MemoryOK
    <3>2. TableOK' /\ ControlOK'
      BY <2>1, FailType
    <3> QED
      BY <3>1, <3>2, TypeParts, PTL
  <2>2. CASE ~(Fail(w, 500) /\ UNCHANGED uid)
    <3>1. Insert(w) \/ Update(w) \/ Remove(w)
      BY <1>7, <2>2 DEF Persist
    <3>2. TableOK'
      <4>1. CASE Insert(w)
        <5>1. object[w] \in Objects /\ pid[w] \in Pids
          BY DEF TypeOK
        <5>2. [state |-> "live", columns |-> object[w], pid |-> pid[w]] \in Row
          BY <5>1 DEF Row
        <5> QED
          BY <4>1, <5>2 DEF Insert, TypeOK, TableOK
      <4>2. CASE Update(w)
        BY <4>2, UpdatedType DEF Update, TypeOK, TableOK
      <4>3. CASE Remove(w)
        <5>1. \A row \in Row : [row EXCEPT !.state = "deleted"] \in Row
          BY DEF Row
        <5> QED
          BY <4>3, <5>1 DEF Remove, TypeOK, TableOK
      <4> QED
        BY <3>1, <4>1, <4>2, <4>3
    <3>3. ControlOK'
      BY <1>7, <2>2 DEF Persist, Proceed, TypeOK, ControlOK
    <3>4. uid' \in [Workers -> Uids \cup {NoUid}]
      BY <3>1 DEF Insert, Update, Remove, TypeOK
    <3>5. MemoryOK'
      BY <1>7, <3>4 DEF Persist, TypeOK, MemoryOK
    <3> QED
      BY <3>2, <3>3, <3>5, TypeParts, PTL
  <2> QED
    BY <2>1, <2>2
<1>8. ASSUME NEW w \in Workers, Serialize(w) PROVE TypeOK'
  <2>1. TableOK' /\ ControlOK'
    <3>1. CASE Fail(w, 500)
      BY <3>1, FailType
    <3>2. CASE ~Fail(w, 500)
      <4>1. PICK code \in Statuses :
               /\ pc' = [pc EXCEPT ![w] = "answered"]
               /\ status' = [status EXCEPT ![w] = code]
               /\ UNCHANGED <<rows, request, persisted>>
        BY <1>8, <3>2 DEF Serialize, Statuses
      <4> QED
        BY <4>1 DEF TypeOK, TableOK, ControlOK
    <3> QED
      BY <3>1, <3>2
  <2>2. MemoryOK'
    BY <1>8 DEF Serialize, TypeOK, MemoryOK, inMemory
  <2> QED
    BY <2>1, <2>2, TypeParts, PTL
<1>9. ASSUME NEW w \in Workers, Deliver(w) \/ Die(w) PROVE TypeOK'
  BY <1>9, ForgetType DEF Deliver, Die
<1> QED
  BY <1>1, <1>2, <1>3, <1>4, <1>5, <1>6, <1>7, <1>8, <1>9 DEF Next, Handler

LEMMA NextItemHasUid == TypeOK /\ ItemHasUid /\ [Next]_vars => ItemHasUid'
<1> SUFFICES ASSUME TypeOK, ItemHasUid, [Next]_vars PROVE ItemHasUid'
  OBVIOUS
<1>1. CASE UNCHANGED vars
  BY <1>1 DEF ItemHasUid, vars
<1>2. ASSUME NEW w \in Workers, Receive(w) PROVE ItemHasUid'
  BY <1>2 DEF Receive, ItemHasUid, TypeOK, ItemMethods
<1>3. ASSUME NEW w \in Workers, Handler(w) PROVE ItemHasUid'
  <2>1. UNCHANGED request
    BY <1>3 DEF Handler, HandleItem, HandleCollection, Deserialize, Validate, Add,
                Persist, Serialize, Fail, Proceed
  <2>2. \/ UNCHANGED uid
        \/ \E u \in Uids : uid' = [uid EXCEPT ![w] = u]
    BY <1>3 DEF Handler, HandleItem, HandleCollection, Deserialize, Validate,
                Persist, Insert, Update, Remove, Serialize, inMemory
  <2> QED
    BY <2>1, <2>2 DEF ItemHasUid, TypeOK
<1>4. ASSUME NEW w \in Workers, Deliver(w) \/ Die(w) PROVE ItemHasUid'
  <2>1. request' = [request EXCEPT ![w] = NoRequest] /\ uid' = [uid EXCEPT ![w] = NoUid]
    BY <1>4 DEF Deliver, Die, Forget
  <2>2. NoRequest.method \notin ItemMethods
    BY DEF NoRequest, ItemMethods
  <2> QED
    BY <2>1, <2>2 DEF ItemHasUid, TypeOK
<1> QED
  BY <1>1, <1>2, <1>3, <1>4 DEF Next

Typed == TypeOK /\ ItemHasUid

LEMMA TypedInvariant == Spec => []Typed
<1>1. Init => Typed
  <2>1. Init => ItemHasUid
    <3>1. Init => request = [w \in Workers |-> NoRequest]
      BY DEF Init
    <3>2. NoRequest.method \notin ItemMethods
      BY DEF NoRequest, ItemMethods
    <3> QED
      BY <3>1, <3>2 DEF ItemHasUid
  <2> QED
    BY <2>1, InitType DEF Typed
<1>2. Typed /\ [Next]_vars => Typed'
  BY NextType, NextItemHasUid DEF Typed
<1> QED
  BY <1>1, <1>2, PTL DEF Spec

(* Every variable of the pipeline keeps its type. *)
THEOREM TypeCorrect == Spec => []TypeOK
<1>1. Typed => TypeOK
  BY DEF Typed
<1> QED
  BY <1>1, TypedInvariant, PTL

-----------------------------------------------------------------------------
(* What a client may conclude from the answer *)

(* How the history and the status follow the control of a handler: nothing is
   persisted before `serialize`, and only a GET comes there without it. *)
Phases ==
    \A w \in Workers :
        /\ pc[w] = "idle" => request[w].method = "none"
        /\ pc[w] # "answered" => status[w] = 0
        /\ pc[w] \notin {"serialize", "answered"} => ~persisted[w]
        /\ pc[w] = "serialize" => persisted[w] \/ request[w].method = "GET"
        /\ pc[w] \in {"deserialize", "validate"}
             => request[w].method \in {"POST", "PUT", "PATCH"}
        /\ pc[w] = "persist" => request[w].method \in {"POST", "PUT", "PATCH", "DELETE"}

Control == Phases /\ StatusTellsEffect

LEMMA FailControl ==
    ASSUME TypeOK, Control, NEW w \in Workers, NEW code \in {400, 403, 404, 500},
           code = 500 \/ ~persisted[w], Fail(w, code)
    PROVE  Control'
  BY DEF TypeOK, Control, Phases, StatusTellsEffect, Fail

LEMMA ProceedControl ==
    ASSUME TypeOK, Control, NEW w \in Workers, pc[w] # "answered",
           NEW step \in {"deserialize", "validate", "persist", "serialize"},
           Proceed(w, step),
           \A v \in Workers \ {w} : persisted'[v] = persisted[v],
           step \in {"deserialize", "validate"}
             => ~persisted'[w] /\ request[w].method \in {"POST", "PUT", "PATCH"},
           step = "persist"
             => ~persisted'[w] /\ request[w].method \in {"POST", "PUT", "PATCH", "DELETE"},
           step = "serialize" => persisted'[w] \/ request[w].method = "GET"
    PROVE  Control'
  BY DEF TypeOK, Control, Phases, StatusTellsEffect, Proceed

LEMMA NextControl == TypeOK /\ Control /\ [Next]_vars => Control'
<1> SUFFICES ASSUME TypeOK, Control, [Next]_vars PROVE Control'
  OBVIOUS
<1>1. CASE UNCHANGED vars
  BY <1>1 DEF Control, Phases, StatusTellsEffect, vars
<1>2. ASSUME NEW w \in Workers, Receive(w) PROVE Control'
  BY <1>2 DEF Receive, TypeOK, Control, Phases, StatusTellsEffect
<1>3. ASSUME NEW w \in Workers, HandleItem(w) PROVE Control'
  <2>1. pc[w] = "handle" /\ ~persisted[w]
    BY <1>3 DEF HandleItem, Control, Phases
  <2>2. CASE UNCHANGED persisted /\ Proceed(w, AfterItemLoad(request[w].method))
    BY <1>3, <2>1, <2>2, ProceedControl DEF HandleItem, AfterItemLoad, ItemMethods
  <2>3. CASE Fail(w, 403) \/ Fail(w, 404)
    BY <2>1, <2>3, FailControl
  <2> QED
    BY <1>3, <2>2, <2>3 DEF HandleItem
<1>4. ASSUME NEW w \in Workers, HandleCollection(w) PROVE Control'
  <2>1. pc[w] = "handle" /\ ~persisted[w] /\ request[w].method = "POST"
    BY <1>4 DEF HandleCollection, Control, Phases
  <2>2. Fail(w, 403) \/ (UNCHANGED persisted /\ Proceed(w, "deserialize"))
    BY <1>4 DEF HandleCollection
  <2> QED
    BY <2>1, <2>2, FailControl, ProceedControl
<1>5. ASSUME NEW w \in Workers, Deserialize(w) PROVE Control'
  <2>1. /\ pc[w] = "deserialize" /\ ~persisted[w]
        /\ request[w].method \in {"POST", "PUT", "PATCH"}
    BY <1>5 DEF Deserialize, Control, Phases
  <2>2. \/ Fail(w, 403) \/ Fail(w, 500)
        \/ UNCHANGED persisted /\ Proceed(w, "validate")
    BY <1>5 DEF Deserialize
  <2> QED
    BY <2>1, <2>2, FailControl, ProceedControl
<1>6. ASSUME NEW w \in Workers, Validate(w) PROVE Control'
  <2>1. /\ pc[w] = "validate" /\ ~persisted[w]
        /\ request[w].method \in {"POST", "PUT", "PATCH"}
    BY <1>6 DEF Validate, Control, Phases
  <2>2. \/ Fail(w, 400) \/ Fail(w, 500)
        \/ UNCHANGED persisted /\ Proceed(w, "persist")
    BY <1>6 DEF Validate, Add
  <2> QED
    BY <2>1, <2>2, FailControl, ProceedControl
<1>7. ASSUME NEW w \in Workers, Persist(w) PROVE Control'
  <2>1. \/ Fail(w, 500)
        \/ persisted' = [persisted EXCEPT ![w] = TRUE] /\ Proceed(w, "serialize")
    BY <1>7 DEF Persist
  <2>2. CASE persisted' = [persisted EXCEPT ![w] = TRUE] /\ Proceed(w, "serialize")
    <3>1. persisted'[w] /\ \A v \in Workers \ {w} : persisted'[v] = persisted[v]
      BY <2>2 DEF TypeOK
    <3> QED
      BY <1>7, <2>2, <3>1, ProceedControl DEF Persist
  <2> QED
    BY <2>1, <2>2, FailControl
<1>8. ASSUME NEW w \in Workers, Serialize(w) PROVE Control'
  <2>1. CASE Fail(w, 500)
    BY <2>1, FailControl
  <2>2. CASE ~Fail(w, 500)
    <3>1. PICK code \in {200, 201} : /\ pc' = [pc EXCEPT ![w] = "answered"]
                                    /\ status' = [status EXCEPT ![w] = code]
                                    /\ UNCHANGED <<request, persisted>>
      BY <1>8, <2>2 DEF Serialize
    <3>2. persisted[w] \/ request[w].method = "GET"
      BY <1>8 DEF Serialize, Control, Phases
    <3> QED
      BY <3>1, <3>2 DEF TypeOK, Control, Phases, StatusTellsEffect
  <2> QED
    BY <2>1, <2>2
<1>9. ASSUME NEW w \in Workers, Deliver(w) \/ Die(w) PROVE Control'
  <2>1. /\ pc' = [pc EXCEPT ![w] = "idle"] /\ request' = [request EXCEPT ![w] = NoRequest]
        /\ persisted' = [persisted EXCEPT ![w] = FALSE] /\ status' = [status EXCEPT ![w] = 0]
    BY <1>9 DEF Deliver, Die, Forget
  <2>2. NoRequest.method = "none"
    BY DEF NoRequest
  <2> QED
    BY <2>1, <2>2 DEF TypeOK, Control, Phases, StatusTellsEffect
<1> QED
  BY <1>1, <1>2, <1>3, <1>4, <1>5, <1>6, <1>7, <1>8, <1>9 DEF Next, Handler

LEMMA ControlInvariant == Spec => []Control
<1>1. Init => Control
  <2>1. NoRequest.method = "none"
    BY DEF NoRequest
  <2>2. Init => /\ pc = [w \in Workers |-> "idle"]
                /\ request = [w \in Workers |-> NoRequest]
                /\ persisted = [w \in Workers |-> FALSE]
                /\ status = [w \in Workers |-> 0]
    BY DEF Init
  <2> QED
    BY <2>1, <2>2 DEF Control, Phases, StatusTellsEffect
<1>2. TypeOK /\ Control /\ [Next]_vars => Control'
  BY NextControl
<1> QED
  BY <1>1, <1>2, TypeCorrect, PTL DEF Spec

(* A success is answered only for what is in the database, a refusal only for
   what is not, for any number of processes and records. *)
THEOREM StatusIsTruthful == Spec => []StatusTellsEffect
<1>1. Control => StatusTellsEffect
  BY DEF Control
<1> QED
  BY <1>1, ControlInvariant, PTL

-----------------------------------------------------------------------------
(* What is stored *)

(* The record an item handler works on has been in the table since it was
   loaded (a row is never free again). *)
Loaded ==
    \A w \in Workers :
        /\ pc[w] \in {"deserialize", "validate", "persist"}
        /\ request[w].method \in ItemMethods
        => rows[uid[w]].state # "free"

(* What persistAll is about to write has been validated, and where it is about
   to insert it has been compared with the storage. *)
Checked ==
    \A w \in Workers : pc[w] = "persist" =>
        /\ request[w].method \in {"POST", "PUT", "PATCH"} => Valid(object[w])
        /\ request[w].method = "POST" => AllowedPid(pid[w])

Records == Loaded /\ Checked /\ StoredColumnsValid /\ StoragePageRespected

(* A step of w that leaves the table alone keeps the records, if what it knows
   itself is kept. *)
LEMMA LocalRecords ==
    ASSUME TypeOK, Records, NEW w \in Workers, UNCHANGED rows,
           \A v \in Workers \ {w} :
              /\ pc'[v] = pc[v] /\ request'[v] = request[v] /\ uid'[v] = uid[v]
              /\ object'[v] = object[v] /\ pid'[v] = pid[v],
           pc'[w] \in {"deserialize", "validate", "persist"}
             /\ request'[w].method \in ItemMethods => rows[uid'[w]].state # "free",
           pc'[w] = "persist" =>
             /\ request'[w].method \in {"POST", "PUT", "PATCH"} => Valid(object'[w])
             /\ request'[w].method = "POST" => AllowedPid(pid'[w])
    PROVE  Records'
<1>1. Loaded'
  BY DEF Records, Loaded
<1>2. Checked'
  BY DEF Records, Checked, Valid, AllowedPid
<1>3. StoredColumnsValid' /\ StoragePageRespected'
  BY DEF Records, StoredColumnsValid, StoragePageRespected, Valid, AllowedPid
<1> QED
  BY <1>1, <1>2, <1>3 DEF Records

(* So does a step that ends the handler of w. *)
LEMMA EndRecords ==
    ASSUME TypeOK, Records, NEW w \in Workers, UNCHANGED rows,
           pc'[w] \in {"idle", "handle", "answered"},
           \A v \in Workers \ {w} :
              /\ pc'[v] = pc[v] /\ request'[v] = request[v] /\ uid'[v] = uid[v]
              /\ object'[v] = object[v] /\ pid'[v] = pid[v]
    PROVE  Records'
  BY LocalRecords

(* Mixing two valid objects property by property gives a valid one: validators
   of single properties survive the update of dirty properties only. *)
LEMMA UpdatedValid ==
    ASSUME TypeOK, NEW w \in Workers, NEW row \in Row,
           Valid(object[w]), Valid(row.columns)
    PROVE  Valid(Updated(w, row).columns)
<1>1. Updated(w, row).columns =
         [p \in Properties |-> IF object[w][p] # clean[w][p] THEN object[w][p]
                                                             ELSE row.columns[p]]
  BY DEF Updated, Row
<1> QED
  BY <1>1 DEF Valid

(* A write keeps the records: it stores what has been checked, and the row it
   writes stays (or becomes) one that is not free. *)
LEMMA PersistRecords ==
    ASSUME TypeOK, ItemHasUid, Control, Records, NEW w \in Workers, Persist(w)
    PROVE  Records'
<1>1. pc[w] = "persist" /\ UNCHANGED <<request, object, pid>>
  BY DEF Persist, Fail, Proceed, TypeOK
<1>2. CASE Fail(w, 500) /\ UNCHANGED uid
  BY <1>1, <1>2, EndRecords DEF Fail, TypeOK
<1>3. CASE ~(Fail(w, 500) /\ UNCHANGED uid)
  <2>1. Proceed(w, "serialize") /\ (Insert(w) \/ Update(w) \/ Remove(w))
    BY <1>3 DEF Persist
  <2>2. pc' = [pc EXCEPT ![w] = "serialize"]
    BY <2>1 DEF Proceed
  <2>3. PICK u \in Uids :
           /\ \A v \in Uids \ {u} : rows'[v] = rows[v]
           /\ rows'[u].state # "free"
           /\ Valid(rows'[u].columns)
           /\ AllowedPid(rows'[u].pid)
           /\ \A v \in Workers \ {w} : uid'[v] = uid[v]
    <3>1. CASE Insert(w)
      <4>1. PICK u \in Uids :
               /\ rows' = [rows EXCEPT ![u] = [state |-> "live", columns |-> object[w],
                                               pid |-> pid[w]]]
               /\ uid' = [uid EXCEPT ![w] = u]
        BY <3>1 DEF Insert
      <4>2. Valid(object[w]) /\ AllowedPid(pid[w])
        BY <3>1, <1>1 DEF Insert, Records, Checked
      <4> QED
        BY <4>1, <4>2 DEF TypeOK
    <3>2. CASE Update(w)
      <4>1. request[w].method \in {"PUT", "PATCH"} /\ uid[w] \in Uids
        BY <3>2 DEF Update, ItemHasUid, ItemMethods
      <4>2. rows[uid[w]] \in Row /\ rows[uid[w]].state # "free"
        BY <4>1, <1>1 DEF TypeOK, Records, Loaded, ItemMethods
      <4>3. Valid(object[w]) /\ Valid(rows[uid[w]].columns) /\ AllowedPid(rows[uid[w]].pid)
        BY <4>1, <4>2, <1>1 DEF Records, Checked, StoredColumnsValid, StoragePageRespected
      <4>4. rows' = [rows EXCEPT ![uid[w]] = Updated(w, rows[uid[w]])] /\ UNCHANGED uid
        BY <3>2 DEF Update
      <4>5. rows'[uid[w]] = Updated(w, rows[uid[w]])
        BY <4>1, <4>4 DEF TypeOK
      <4>6. /\ Updated(w, rows[uid[w]]).state = rows[uid[w]].state
            /\ Updated(w, rows[uid[w]]).pid = rows[uid[w]].pid
        BY <4>2 DEF Updated, Row
      <4>7. Valid(Updated(w, rows[uid[w]]).columns)
        BY <4>2, <4>3, UpdatedValid
      <4>8. \A v \in Uids \ {uid[w]} : rows'[v] = rows[v]
        BY <4>4 DEF TypeOK
      <4> QED
        BY <4>1, <4>2, <4>3, <4>4, <4>5, <4>6, <4>7, <4>8
    <3>3. CASE Remove(w)
      <4>1. request[w].method = "DELETE" /\ uid[w] \in Uids
        BY <3>3 DEF Remove, ItemHasUid, ItemMethods
      <4>2. rows[uid[w]] \in Row /\ rows[uid[w]].state # "free"
        BY <4>1, <1>1 DEF TypeOK, Records, Loaded, ItemMethods
      <4>3. Valid(rows[uid[w]].columns) /\ AllowedPid(rows[uid[w]].pid)
        BY <4>1, <4>2 DEF Records, StoredColumnsValid, StoragePageRespected
      <4>4. /\ rows' = [rows EXCEPT ![uid[w]] = [rows[uid[w]] EXCEPT !.state = "deleted"]]
            /\ UNCHANGED uid
        BY <3>3 DEF Remove
      <4>5. rows'[uid[w]] = [rows[uid[w]] EXCEPT !.state = "deleted"]
        BY <4>1, <4>4 DEF TypeOK
      <4>6. /\ rows'[uid[w]].state = "deleted"
            /\ rows'[uid[w]].columns = rows[uid[w]].columns
            /\ rows'[uid[w]].pid = rows[uid[w]].pid
        BY <4>2, <4>5 DEF Row
      <4>7. \A v \in Uids \ {uid[w]} : rows'[v] = rows[v]
        BY <4>4 DEF TypeOK
      <4> QED
        BY <4>1, <4>3, <4>4, <4>6, <4>7
    <3> QED
      BY <2>1, <3>1, <3>2, <3>3
  <2>4. Loaded'
    BY <1>1, <2>2, <2>3 DEF Records, Loaded, TypeOK, ItemHasUid
  <2>5. Checked'
    BY <1>1, <2>2 DEF Records, Checked, Valid, AllowedPid, TypeOK
  <2>6. StoredColumnsValid'
    BY <2>3 DEF Records, StoredColumnsValid, Valid
  <2>7. StoragePageRespected'
    BY <2>3 DEF Records, StoragePageRespected, AllowedPid
  <2> QED
    BY <2>4, <2>5, <2>6, <2>7 DEF Records
<1> QED
  BY <1>2, <1>3

LEMMA NextRecords == TypeOK /\ ItemHasUid /\ Control /\ Records /\ [Next]_vars => Records'
<1> SUFFICES ASSUME TypeOK, ItemHasUid, Control, Records, [Next]_vars PROVE Records'
  OBVIOUS
<1>1. CASE UNCHANGED vars
  BY <1>1 DEF Records, Loaded, Checked, StoredColumnsValid, StoragePageRespected,
              Valid, AllowedPid, vars
<1>2. ASSUME NEW w \in Workers, Receive(w) PROVE Records'
  BY <1>2, EndRecords DEF Receive, TypeOK
<1>3. ASSUME NEW w \in Workers, HandleItem(w) PROVE Records'
  <2>1. uid[w] \in Uids /\ UNCHANGED <<rows, request, uid, pid>>
    BY <1>3 DEF HandleItem, ItemHasUid, Fail, Proceed, inMemory
  <2>2. CASE rows[uid[w]].state = "live"
    <3>1. \A v \in Workers \ {w} : pc'[v] = pc[v] /\ object'[v] = object[v]
      BY <1>3, <2>2 DEF HandleItem, Fail, Proceed, TypeOK
    <3>2. pc'[w] = "persist" => request[w].method = "DELETE"
      BY <1>3, <2>2 DEF HandleItem, Fail, Proceed, AfterItemLoad, TypeOK
    <3> QED
      BY <2>1, <2>2, <3>1, <3>2, LocalRecords
  <2>3. CASE rows[uid[w]].state # "live"
    BY <1>3, <2>1, <2>3, EndRecords DEF HandleItem, Fail, inMemory, TypeOK
  <2> QED
    BY <2>2, <2>3
<1>4. ASSUME NEW w \in Workers, HandleCollection(w) PROVE Records'
  <2>1. /\ UNCHANGED <<rows, request, uid, object, pid>> /\ request[w].method = "POST"
        /\ pc' = [pc EXCEPT ![w] = "answered"] \/ pc' = [pc EXCEPT ![w] = "deserialize"]
    BY <1>4 DEF HandleCollection, Fail, Proceed, inMemory
  <2> QED
    BY <2>1, LocalRecords DEF TypeOK, ItemMethods
<1>5. ASSUME NEW w \in Workers, Deserialize(w) PROVE Records'
  <2>1. /\ UNCHANGED <<rows, request, uid>> /\ pc[w] = "deserialize"
        /\ pc' = [pc EXCEPT ![w] = "answered"] \/ pc' = [pc EXCEPT ![w] = "validate"]
        /\ \A v \in Workers \ {w} : object'[v] = object[v] /\ pid'[v] = pid[v]
    BY <1>5 DEF Deserialize, Fail, Proceed, TypeOK
  <2> QED
    BY <2>1, LocalRecords DEF TypeOK, Records, Loaded
<1>6. ASSUME NEW w \in Workers, Validate(w) PROVE Records'
  <2>1. /\ UNCHANGED <<rows, request, uid, object>> /\ pc[w] = "validate"
        /\ pc' = [pc EXCEPT ![w] = "answered"] \/ pc' = [pc EXCEPT ![w] = "persist"]
        /\ \A v \in Workers \ {w} : pid'[v] = pid[v]
    BY <1>6 DEF Validate, Add, Fail, Proceed, TypeOK
  <2>2. pc'[w] = "persist" => Valid(object[w])
    BY <1>6, <2>1 DEF Validate, Fail, TypeOK
  <2>3. pc'[w] = "persist" /\ request[w].method = "POST" => AllowedPid(pid'[w])
    BY <1>6, <2>1, StorageAssumption, TableAssumption
    DEF Validate, Add, Fail, TypeOK, AllowedPid, Pids
  <2> QED
    BY <2>1, <2>2, <2>3, LocalRecords DEF TypeOK, Records, Loaded
<1>7. ASSUME NEW w \in Workers, Persist(w) PROVE Records'
  BY <1>7, PersistRecords
<1>8. ASSUME NEW w \in Workers, Serialize(w) PROVE Records'
  BY <1>8, EndRecords DEF Serialize, Fail, inMemory, TypeOK
<1>9. ASSUME NEW w \in Workers, Deliver(w) \/ Die(w) PROVE Records'
  BY <1>9, EndRecords DEF Deliver, Die, Forget, TypeOK
<1> QED
  BY <1>1, <1>2, <1>3, <1>4, <1>5, <1>6, <1>7, <1>8, <1>9 DEF Next, Handler

LEMMA InitRecords == Init => Records
<1> SUFFICES ASSUME Init PROVE Records
  OBVIOUS
<1>1. pc = [w \in Workers |-> "idle"]
  BY DEF Init
<1>2. PICK stored \in [InitialUids -> {o \in Objects : Valid(o)}] :
         rows = [u \in Uids |->
                   IF u \in InitialUids
                     THEN [Unused EXCEPT !.state = "live", !.columns = stored[u]]
                     ELSE Unused]
  BY DEF Init
<1>3. StoredColumnsValid
  BY <1>2 DEF StoredColumnsValid, Unused
<1>4. AllowedPid(MainStoragePid)
  BY StorageAssumption, TableAssumption DEF AllowedPid
<1>5. \A u \in Uids : rows[u].pid = MainStoragePid
  BY <1>2 DEF Unused
<1> QED
  BY <1>1, <1>3, <1>4, <1>5 DEF Records, Loaded, Checked, StoragePageRespected

LEMMA RecordsInvariant == Spec => []Records
<1>1. Init => Records
  BY InitRecords
<1>2. Typed /\ Control /\ Records /\ [Next]_vars => Records'
  BY NextRecords DEF Typed
<1> QED
  BY <1>1, <1>2, TypedInvariant, ControlInvariant, PTL DEF Spec

(* Every stored record satisfies the validators of its properties, however
   many processes mix their updates in it. *)
THEOREM StoredRecordsAreValid == Spec => []StoredColumnsValid
<1>1. Records => StoredColumnsValid
  BY DEF Records
<1> QED
  BY <1>1, RecordsInvariant, PTL

(* Every record lies on a page the storage allows, or that is not checked. *)
THEOREM StoredRecordsAreInStorage == Spec => []StoragePageRespected
<1>1. Records => StoragePageRespected
  BY DEF Records
<1> QED
  BY <1>1, RecordsInvariant, PTL

-----------------------------------------------------------------------------
(* What PUT and PATCH write, if no listener edits the deserialized object *)

(* What a handler means to do with its object: nothing before it is
   deserialized; then the properties that a PATCH has changed are among those
   its payload names, and the object of a PUT is the one it is replaced by. *)
Meant(w) ==
    /\ pc[w] = "deserialize" /\ request[w].method = "PATCH" => object[w] = clean[w]
    /\ pc[w] \in {"validate", "persist"} /\ request[w].method = "PATCH" =>
         \A p \in Properties :
             object[w][p] # clean[w][p] => p \in DOMAIN request[w].payload.columns
    /\ pc[w] \in {"validate", "persist"} /\ request[w].method = "PUT" =>
         object[w] = Replacement(w)

Intent == \A w \in Workers : Meant(w)

(* A process keeps its intent if another one takes the step, ... *)
LEMMA OthersMean ==
    ASSUME Intent, NEW w \in Workers, Meant(w)',
           \A v \in Workers \ {w} :
              /\ pc'[v] = pc[v] /\ request'[v] = request[v]
              /\ object'[v] = object[v] /\ clean'[v] = clean[v]
    PROVE  Intent'
<1>1. ASSUME NEW v \in Workers, v # w PROVE Meant(v)'
  <2>1. Replacement(v)' = Replacement(v)
    BY <1>1 DEF Replacement
  <2>2. Meant(v)
    BY DEF Intent
  <2> QED
    BY <1>1, <2>1, <2>2 DEF Meant
<1> QED
  BY <1>1 DEF Intent

(* ... or if it has nothing to write. *)
LEMMA NothingMeant ==
    ASSUME NEW w \in Workers, pc'[w] \notin {"deserialize", "validate", "persist"}
    PROVE  Meant(w)'
  BY DEF Meant

(* What is deserialized is what is meant. *)
LEMMA DeserializedMeant ==
    ASSUME Typed, Control, Intent, NEW w \in Workers, pc[w] = "deserialize",
           object' = [object EXCEPT ![w] = Deserialized(w)],
           pc' = [pc EXCEPT ![w] = "validate"], UNCHANGED <<request, clean>>
    PROVE  Meant(w)'
<1>1. object'[w] = Deserialized(w) /\ pc'[w] = "validate"
  BY DEF Typed, TypeOK
<1>2. ASSUME request[w].method = "PATCH"
      PROVE  \A p \in Properties :
               Deserialized(w)[p] # clean[w][p] => p \in DOMAIN request[w].payload.columns
  <2>1. object[w] = clean[w]
    BY <1>2 DEF Intent, Meant
  <2> QED
    BY <1>2, <2>1 DEF Deserialized, Base
<1>3. ASSUME request[w].method = "PUT" PROVE Deserialized(w) = Replacement(w)
  BY <1>3 DEF Deserialized, Base, Replacement
<1>4. Replacement(w)' = Replacement(w)
  BY DEF Replacement
<1> QED
  BY <1>1, <1>2, <1>3, <1>4 DEF Meant

LEMMA NextIntent ==
    ASSUME ListenerEdits = {}
    PROVE  Typed /\ Control /\ Intent /\ [Next]_vars => Intent'
<1> SUFFICES ASSUME Typed, Control, Intent, [Next]_vars PROVE Intent'
  OBVIOUS
<1>1. CASE UNCHANGED vars
  BY <1>1 DEF Intent, Meant, Replacement, vars
<1>2. ASSUME NEW w \in Workers, Receive(w) PROVE Intent'
  <2>1. pc'[w] = "handle"
    BY <1>2 DEF Receive, Typed, TypeOK
  <2>2. \A v \in Workers \ {w} : pc'[v] = pc[v] /\ request'[v] = request[v]
    BY <1>2 DEF Receive, Typed, TypeOK
  <2>3. UNCHANGED <<object, clean>>
    BY <1>2 DEF Receive
  <2> QED
    BY <2>1, <2>2, <2>3, NothingMeant, OthersMean
<1>3. ASSUME NEW w \in Workers, HandleItem(w) PROVE Intent'
  <2>1. UNCHANGED request
    BY <1>3 DEF HandleItem, Fail, Proceed
  <2>2. \A v \in Workers \ {w} :
           pc'[v] = pc[v] /\ object'[v] = object[v] /\ clean'[v] = clean[v]
    BY <1>3 DEF HandleItem, Fail, Proceed, inMemory, Typed, TypeOK
  <2>3. \/ pc'[w] = "answered"
        \/ pc'[w] = AfterItemLoad(request[w].method) /\ object'[w] = clean'[w]
    BY <1>3 DEF HandleItem, Fail, Proceed, Typed, TypeOK
  <2>4. Meant(w)'
    BY <2>1, <2>3 DEF Meant, AfterItemLoad
  <2> QED
    BY <2>1, <2>2, <2>4, OthersMean
<1>4. ASSUME NEW w \in Workers, HandleCollection(w) PROVE Intent'
  <2>1. UNCHANGED <<request, object, clean>> /\ request[w].method = "POST"
    BY <1>4 DEF HandleCollection, Fail, Proceed, inMemory
  <2>2. \A v \in Workers \ {w} : pc'[v] = pc[v]
    BY <1>4 DEF HandleCollection, Fail, Proceed, Typed, TypeOK
  <2>3. Meant(w)'
    BY <2>1 DEF Meant
  <2> QED
    BY <2>1, <2>2, <2>3, OthersMean
<1>5. ASSUME NEW w \in Workers, Deserialize(w) PROVE Intent'
  <2>1. UNCHANGED <<request, clean>> /\ pc[w] = "deserialize"
    BY <1>5 DEF Deserialize, Fail, Proceed
  <2>2. \A v \in Workers \ {w} : pc'[v] = pc[v] /\ object'[v] = object[v]
    BY <1>5 DEF Deserialize, Fail, Proceed, Typed, TypeOK
  <2>3. \/ pc' = [pc EXCEPT ![w] = "answered"]
        \/ /\ pc' = [pc EXCEPT ![w] = "validate"]
           /\ object' = [object EXCEPT ![w] = Deserialized(w)]
    BY <1>5 DEF Deserialize, Fail, Proceed
  <2>4. CASE pc' = [pc EXCEPT ![w] = "answered"]
    BY <2>1, <2>2, <2>4, NothingMeant, OthersMean DEF Typed, TypeOK
  <2>5. CASE /\ pc' = [pc EXCEPT ![w] = "validate"]
             /\ object' = [object EXCEPT ![w] = Deserialized(w)]
    BY <2>1, <2>2, <2>5, DeserializedMeant, OthersMean
  <2> QED
    BY <2>3, <2>4, <2>5
<1>6. ASSUME NEW w \in Workers, Validate(w) PROVE Intent'
  <2>1. UNCHANGED <<request, object, clean>> /\ pc[w] = "validate"
    BY <1>6 DEF Validate, Add, Fail, Proceed
  <2>2. /\ \A v \in Workers \ {w} : pc'[v] = pc[v]
        /\ pc'[w] \in {"answered", "persist"}
    BY <1>6 DEF Validate, Add, Fail, Proceed, Typed, TypeOK
  <2>3. Replacement(w)' = Replacement(w) /\ Meant(w)
    BY <2>1 DEF Replacement, Intent
  <2>4. Meant(w)'
    BY <2>1, <2>2, <2>3 DEF Meant
  <2> QED
    BY <2>1, <2>2, <2>4, OthersMean
<1>7. ASSUME NEW w \in Workers, Persist(w) \/ Serialize(w) PROVE Intent'
  <2>1. UNCHANGED <<request, object, clean>>
    BY <1>7 DEF Persist, Serialize, Fail, Proceed, inMemory
  <2>2. /\ \A v \in Workers \ {w} : pc'[v] = pc[v]
        /\ pc'[w] \in {"answered", "serialize"}
    BY <1>7 DEF Persist, Serialize, Fail, Proceed, Typed, TypeOK
  <2> QED
    BY <2>1, <2>2, NothingMeant, OthersMean
<1>8. ASSUME NEW w \in Workers, Deliver(w) \/ Die(w) PROVE Intent'
  <2>1. pc'[w] = "idle"
    BY <1>8 DEF Deliver, Die, Forget, Typed, TypeOK
  <2>2. \A v \in Workers \ {w} : /\ pc'[v] = pc[v] /\ request'[v] = request[v]
                                 /\ object'[v] = object[v] /\ clean'[v] = clean[v]
    BY <1>8 DEF Deliver, Die, Forget, Typed, TypeOK
  <2> QED
    BY <2>1, <2>2, NothingMeant, OthersMean
<1> QED
  BY <1>1, <1>2, <1>3, <1>4, <1>5, <1>6, <1>7, <1>8 DEF Next, Handler

LEMMA IntentInvariant == ASSUME ListenerEdits = {} PROVE Spec => []Intent
<1>1. Init => Intent
  BY DEF Init, Intent, Meant
<1>2. Typed /\ Control /\ Intent /\ [Next]_vars => Intent'
  BY NextIntent
<1> QED
  BY <1>1, <1>2, TypedInvariant, ControlInvariant, PTL DEF Spec

-----------------------------------------------------------------------------
(* The step in which w writes is its own. *)
LEMMA PersistsOwn ==
    ASSUME Typed, Next, NEW w \in Workers, NEW m \in {"PUT", "PATCH"}, Persists(w, m)
    PROVE  /\ uid[w] \in Uids
           /\ rows' = [rows EXCEPT ![uid[w]] = Updated(w, rows[uid[w]])]
<1>1. pc[w] = "persist" /\ pc'[w] = "serialize" /\ request[w].method = m
  BY DEF Persists
<1>2. PICK v \in Workers : Receive(v) \/ Handler(v) \/ Deliver(v) \/ Die(v)
  BY DEF Next
<1>3. \E step : pc' = [pc EXCEPT ![v] = step]
  BY <1>2 DEF Receive, Handler, HandleItem, HandleCollection, Deserialize, Validate,
              Add, Persist, Serialize, Fail, Proceed, Deliver, Die, Forget
<1>4. v = w
  BY <1>1, <1>3 DEF Typed, TypeOK
<1>5. Persist(w)
  BY <1>1, <1>2, <1>4
  DEF Receive, Handler, HandleItem, HandleCollection, Deserialize, Validate,
      Serialize, Deliver, Die, Forget, Typed, TypeOK
<1>6. ~Fail(w, 500)
  BY <1>1 DEF Fail, Typed, TypeOK
<1>7. Update(w)
  BY <1>1, <1>5, <1>6 DEF Persist, Insert, Remove
<1> QED
  BY <1>1, <1>7 DEF Update, Typed, ItemHasUid, ItemMethods

(* What an update leaves in the columns. *)
LEMMA UpdatedColumns ==
    ASSUME Typed, NEW w \in Workers, NEW row \in Row
    PROVE  Updated(w, row).columns =
             [p \in Properties |-> IF object[w][p] # clean[w][p] THEN object[w][p]
                                                                 ELSE row.columns[p]]
  BY DEF Updated, Row

LEMMA PatchStep ==
    ASSUME Typed, Intent, [Next]_vars, NEW w \in Workers, NEW u \in Uids,
           NEW p \in Properties, Persists(w, "PATCH"),
           rows'[u].columns[p] # rows[u].columns[p]
    PROVE  u = uid[w] /\ p \in DOMAIN request[w].payload.columns
<1>1. Next
  BY DEF vars, Persists
<1>2. uid[w] \in Uids /\ rows' = [rows EXCEPT ![uid[w]] = Updated(w, rows[uid[w]])]
  BY <1>1, PersistsOwn
<1>3. u = uid[w]
  BY <1>2 DEF Typed, TypeOK
<1>4. rows[u] \in Row /\ rows'[u] = Updated(w, rows[u])
  BY <1>2, <1>3 DEF Typed, TypeOK
<1>5. object[w][p] # clean[w][p]
  <2> DEFINE columns == Updated(w, rows[u]).columns
  <2>1. columns = [q \in Properties |-> IF object[w][q] # clean[w][q]
                                          THEN object[w][q] ELSE rows[u].columns[q]]
    BY <1>4, UpdatedColumns
  <2>2. columns[p] # rows[u].columns[p]
    BY <1>4
  <2> QED
    BY <2>1, <2>2
<1> QED
  BY <1>3, <1>5 DEF Intent, Meant, Persists

LEMMA PutStep ==
    ASSUME Typed, Intent, [Next]_vars, NEW w \in Workers, Persists(w, "PUT"),
           rows[uid[w]].columns = clean[w]
    PROVE  rows'[uid[w]].columns = Replacement(w)
<1>1. Next
  BY DEF vars, Persists
<1>2. uid[w] \in Uids /\ rows' = [rows EXCEPT ![uid[w]] = Updated(w, rows[uid[w]])]
  BY <1>1, PersistsOwn
<1>3. rows[uid[w]] \in Row /\ rows'[uid[w]] = Updated(w, rows[uid[w]])
  BY <1>2 DEF Typed, TypeOK
<1>4. rows'[uid[w]].columns = [p \in Properties |-> object[w][p]]
  BY <1>3, UpdatedColumns
<1>5. object[w] = Replacement(w)
  BY DEF Intent, Meant, Persists
<1> QED
  BY <1>4, <1>5 DEF Replacement

(* A PATCH changes no property its payload does not name and no record but its
   own, however many processes write between its load and its own write. *)
THEOREM PatchKeepsTheRest ==
    ASSUME ListenerEdits = {} PROVE Spec => PatchTouchesOnlyPayload
<1>1. Typed /\ Intent /\ [Next]_vars =>
        \A w \in Workers, u \in Uids, p \in Properties :
          Persists(w, "PATCH") /\ rows'[u].columns[p] # rows[u].columns[p]
            => u = uid[w] /\ p \in DOMAIN request[w].payload.columns
  BY PatchStep
<1> QED
  BY <1>1, TypedInvariant, IntentInvariant, PTL DEF Spec, PatchTouchesOnlyPayload

(* A PUT replaces its record, if nobody has written to it since the load. *)
THEOREM PutReplacesUndisturbed ==
    ASSUME ListenerEdits = {} PROVE Spec => PutReplacesWhenUndisturbed
<1>1. Typed /\ Intent /\ [Next]_vars =>
        \A w \in Workers :
          Persists(w, "PUT") /\ rows[uid[w]].columns = clean[w]
            => rows'[uid[w]].columns = Replacement(w)
  BY PutStep
<1> QED
  BY <1>1, TypedInvariant, IntentInvariant, PTL
  DEF Spec, PutReplacesWhenUndisturbed
=================================================================================
