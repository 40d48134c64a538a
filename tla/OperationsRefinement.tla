--------------------------- MODULE OperationsRefinement ---------------------------
(***************************************************************************)
(* Operations implements ResourceStore, for any processes, records,        *)
(* properties and payloads: every step of a handler is a step of the       *)
(* atomic store or leaves it as it is.                                     *)
(***************************************************************************)
EXTENDS OperationsProofs

(* What the store sees of the pipeline. *)
StageOf  == [v \in Workers |-> Stage(v)]
MethodOf == [v \in Workers |-> request[v].method]

Working(w) == pc[w] \notin {"idle", "answered"}

Codes == {200, 201, 400, 403, 404, 500}

(* A step of w changes the stage of w only. *)
LEMMA StageStep ==
    ASSUME Typed, NEW w \in Workers, NEW s, Stage(w)' = s,
           \A v \in Workers \ {w} : pc'[v] = pc[v] /\ persisted'[v] = persisted[v]
    PROVE  StageOf' = [StageOf EXCEPT ![w] = s]
<1>1. \A v \in Workers \ {w} : Stage(v)' = Stage(v)
  BY DEF Stage
<1> QED
  BY <1>1 DEF StageOf

(* A handler goes on without writing: the store stutters. *)
LEMMA QuietStep ==
    ASSUME Typed, NEW w \in Workers, Working(w),
           NEW step \in {"handle", "deserialize", "validate", "persist", "serialize"},
           pc' = [pc EXCEPT ![w] = step],
           UNCHANGED <<rows, request, persisted, status>>
    PROVE  UNCHANGED Store!vars
<1>1. \A v \in Workers : Stage(v)' = Stage(v)
  BY DEF Stage, Typed, TypeOK, Working
<1>2. StageOf' = StageOf /\ MethodOf' = MethodOf
  BY <1>1 DEF StageOf, MethodOf
<1> QED
  BY <1>2 DEF Store!vars, StageOf, MethodOf

(* An answer that fits what has been persisted is an answer of the store. *)
LEMMA AnswerStep ==
    ASSUME Typed, NEW w \in Workers, Working(w),
           NEW s \in Codes,
           pc' = [pc EXCEPT ![w] = "answered"],
           status' = [status EXCEPT ![w] = s],
           UNCHANGED <<rows, request, persisted>>,
           s \in {200, 201} => persisted[w] \/ request[w].method = "GET",
           s \in {400, 403, 404} => ~persisted[w]
    PROVE  Store!Next
<1>1. Stage(w) = IF persisted[w] THEN "effected" ELSE "open"
  BY DEF Stage, Working
<1>2. Stage(w)' = "answered"
  BY DEF Stage, Typed, TypeOK
<1>3. StageOf' = [StageOf EXCEPT ![w] = "answered"]
  BY <1>2, StageStep DEF Typed, TypeOK
<1>4. StageOf[w] = Stage(w) /\ MethodOf[w] = request[w].method
  BY DEF StageOf, MethodOf
<1>5. MethodOf' = MethodOf
  BY DEF MethodOf
<1>6. Store!Answer(w, s)
  BY <1>1, <1>3, <1>4, <1>5
  DEF Store!Answer, Store!Success, Store!Refusal, StageOf, MethodOf
<1> QED
  BY <1>6 DEF Codes, Store!Next, Store!Success, Store!Refusal

LEMMA FailStep ==
    ASSUME Typed, NEW w \in Workers, Working(w), NEW code \in {400, 403, 404, 500},
           code = 500 \/ ~persisted[w], Fail(w, code)
    PROVE  Store!Next
<1>1. code \in Codes
  BY DEF Codes
<1>2. /\ code \in {200, 201} => persisted[w] \/ request[w].method = "GET"
      /\ code \in {400, 403, 404} => ~persisted[w]
  OBVIOUS
<1>3. /\ pc' = [pc EXCEPT ![w] = "answered"] /\ status' = [status EXCEPT ![w] = code]
      /\ UNCHANGED <<rows, request, persisted>>
  BY DEF Fail
<1> QED
  BY <1>1, <1>2, <1>3, AnswerStep

-----------------------------------------------------------------------------
(* A request is received: it is open. *)
LEMMA ReceiveStep ==
    ASSUME Typed, Control, NEW w \in Workers, Receive(w)
    PROVE  Store!Next
<1>1. PICK m \in Methods, b \in Payloads :
         request' = [request EXCEPT ![w] = [method |-> m, payload |-> b]]
  BY DEF Receive
<1>2. /\ pc[w] = "idle" /\ pc' = [pc EXCEPT ![w] = "handle"] /\ ~persisted[w]
      /\ UNCHANGED <<rows, persisted, status>>
  BY DEF Receive, Control, Phases
<1>3. Stage(w) = "idle" /\ Stage(w)' = "open"
  BY <1>2 DEF Stage, Typed, TypeOK
<1>4. StageOf' = [StageOf EXCEPT ![w] = "open"]
  BY <1>2, <1>3, StageStep DEF Typed, TypeOK
<1>5. MethodOf' = [MethodOf EXCEPT ![w] = m]
  BY <1>1 DEF MethodOf, Typed, TypeOK
<1>6. m \in Store!Changing \cup {"GET"}
  BY DEF Methods, ItemMethods, Store!Changing
<1>7. StageOf[w] = "idle"
  BY <1>3 DEF StageOf
<1>8. Store!Open(w)
  BY <1>2, <1>4, <1>5, <1>6, <1>7 DEF Store!Open, StageOf, MethodOf
<1> QED
  BY <1>8 DEF Store!Next

(* The process is free again, or dead: the request is closed. *)
LEMMA CloseStep ==
    ASSUME Typed, NEW w \in Workers, Deliver(w) \/ Die(w)
    PROVE  Store!Next
<1>1. /\ pc[w] # "idle" /\ pc' = [pc EXCEPT ![w] = "idle"]
      /\ request' = [request EXCEPT ![w] = NoRequest]
      /\ persisted' = [persisted EXCEPT ![w] = FALSE]
      /\ status' = [status EXCEPT ![w] = 0] /\ UNCHANGED rows
  BY DEF Deliver, Die, Forget
<1>2. Stage(w)' = "idle" /\ Stage(w) # "idle"
  BY <1>1 DEF Stage, Typed, TypeOK
<1>3. StageOf' = [StageOf EXCEPT ![w] = "idle"]
  BY <1>1, <1>2, StageStep DEF Typed, TypeOK
<1>4. NoRequest.method = "none"
  BY DEF NoRequest
<1>5. MethodOf' = [MethodOf EXCEPT ![w] = "none"]
  BY <1>1, <1>4 DEF MethodOf, Typed, TypeOK
<1>6. StageOf[w] # "idle"
  BY <1>2 DEF StageOf
<1>7. Store!Close(w)
  BY <1>1, <1>3, <1>5, <1>6 DEF Store!Close, StageOf, MethodOf
<1> QED
  BY <1>7 DEF Store!Next

-----------------------------------------------------------------------------
(* persistAll writes one record, as the store prescribes it for the method. *)
LEMMA WriteIsEffect ==
    ASSUME Typed, Control, Records, NEW w \in Workers, pc[w] = "persist",
           Insert(w) \/ Update(w) \/ Remove(w)
    PROVE  \E u \in Uids :
             /\ \A v \in Uids \ {u} : rows'[v] = rows[v]
             /\ \/ request[w].method = "POST" /\ Store!Create(u)
                \/ request[w].method \in {"PUT", "PATCH"} /\ Store!Change(u)
                \/ request[w].method = "DELETE" /\ Store!Remove(u)
<1>1. CASE Insert(w)
  <2>1. PICK u \in Uids :
           /\ rows[u].state = "free"
           /\ rows' = [rows EXCEPT ![u] = [state |-> "live", columns |-> object[w],
                                           pid |-> pid[w]]]
    BY <1>1 DEF Insert
  <2>2. request[w].method = "POST" /\ Valid(object[w])
    BY <1>1 DEF Insert, Records, Checked
  <2>3. Store!Create(u)
    BY <2>1, <2>2 DEF Store!Create, Store!Acceptable, Valid, Typed, TypeOK
  <2>4. \A v \in Uids \ {u} : rows'[v] = rows[v]
    BY <2>1 DEF Typed, TypeOK
  <2> QED
    BY <2>2, <2>3, <2>4
<1>2. CASE Update(w)
  <2> DEFINE u == uid[w]
  <2>1. request[w].method \in {"PUT", "PATCH"} /\ u \in Uids
    BY <1>2 DEF Update, Typed, ItemHasUid, ItemMethods
  <2>2. rows[u] \in Row /\ rows[u].state # "free"
    BY <2>1 DEF Typed, TypeOK, Records, Loaded, ItemMethods
  <2>3. Valid(object[w]) /\ Valid(rows[u].columns)
    BY <2>1, <2>2 DEF Records, Checked, StoredColumnsValid
  <2>4. rows' = [rows EXCEPT ![u] = Updated(w, rows[u])]
    BY <1>2 DEF Update
  <2>5. rows'[u] = Updated(w, rows[u]) /\ \A v \in Uids \ {u} : rows'[v] = rows[v]
    BY <2>1, <2>4 DEF Typed, TypeOK
  <2>6. /\ Updated(w, rows[u]).state = rows[u].state
        /\ Updated(w, rows[u]).pid = rows[u].pid
    BY <2>2 DEF Updated, Row
  <2>7. Valid(Updated(w, rows[u]).columns)
    BY <2>2, <2>3, UpdatedValid DEF Typed
  <2>8. Store!Change(u)
    BY <2>2, <2>5, <2>6, <2>7 DEF Store!Change, Store!Acceptable, Valid
  <2> QED
    BY <2>1, <2>5, <2>8
<1>3. CASE Remove(w)
  <2> DEFINE u == uid[w]
  <2>1. request[w].method = "DELETE" /\ u \in Uids
    BY <1>3 DEF Remove, Typed, ItemHasUid, ItemMethods
  <2>2. rows[u].state # "free"
    BY <2>1 DEF Records, Loaded, ItemMethods
  <2>3. rows' = [rows EXCEPT ![u] = [rows[u] EXCEPT !.state = "deleted"]]
    BY <1>3 DEF Remove
  <2>4. /\ rows'[u] = [rows[u] EXCEPT !.state = "deleted"]
        /\ \A v \in Uids \ {u} : rows'[v] = rows[v]
    BY <2>1, <2>3 DEF Typed, TypeOK
  <2>5. Store!Remove(u)
    BY <2>2, <2>4 DEF Store!Remove
  <2> QED
    BY <2>1, <2>4, <2>5
<1> QED
  BY <1>1, <1>2, <1>3

LEMMA PersistStep ==
    ASSUME Typed, Control, Records, NEW w \in Workers, Persist(w)
    PROVE  Store!Next
<1>1. pc[w] = "persist" /\ ~persisted[w]
      /\ request[w].method \in {"POST", "PUT", "PATCH", "DELETE"}
  BY DEF Persist, Control, Phases
<1>2. CASE Fail(w, 500)
  BY <1>1, <1>2, FailStep DEF Working
<1>3. CASE ~Fail(w, 500)
  <2>1. /\ Insert(w) \/ Update(w) \/ Remove(w)
        /\ persisted' = [persisted EXCEPT ![w] = TRUE]
        /\ pc' = [pc EXCEPT ![w] = "serialize"] /\ UNCHANGED <<request, status>>
    BY <1>3 DEF Persist, Proceed
  <2>2. Stage(w) = "open" /\ Stage(w)' = "effected"
    BY <1>1, <2>1 DEF Stage, Typed, TypeOK
  <2>3. StageOf' = [StageOf EXCEPT ![w] = "effected"]
    BY <2>1, <2>2, StageStep DEF Typed, TypeOK
  <2>4. StageOf[w] = "open" /\ MethodOf[w] = request[w].method /\ MethodOf' = MethodOf
    BY <2>1, <2>2 DEF StageOf, MethodOf
  <2>5. Store!Effect(w)
    BY <1>1, <2>1, <2>3, <2>4, WriteIsEffect
    DEF Store!Effect, Store!Changing, StageOf, MethodOf
  <2> QED
    BY <2>5 DEF Store!Next
<1> QED
  BY <1>2, <1>3

-----------------------------------------------------------------------------
(* Every step of the pipeline is a step of the store or none. *)
LEMMA NextStep ==
    Typed /\ Control /\ Records /\ [Next]_vars => [Store!Next]_(Store!vars)
<1> SUFFICES ASSUME Typed, Control, Records, [Next]_vars
             PROVE  Store!Next \/ UNCHANGED Store!vars
  OBVIOUS
<1>1. CASE UNCHANGED vars
  <2>1. \A v \in Workers : Stage(v)' = Stage(v)
    BY <1>1 DEF vars, Stage
  <2> QED
    BY <1>1, <2>1 DEF vars, Store!vars
<1>2. ASSUME NEW w \in Workers, Receive(w) PROVE Store!Next
  BY <1>2, ReceiveStep
<1>3. ASSUME NEW w \in Workers, HandleItem(w) PROVE Store!Next \/ UNCHANGED Store!vars
  <2>1. pc[w] = "handle" /\ ~persisted[w] /\ Working(w)
    BY <1>3 DEF HandleItem, Control, Phases, Working
  <2>2. CASE Fail(w, 403) \/ Fail(w, 404)
    BY <2>1, <2>2, FailStep
  <2>3. CASE /\ UNCHANGED <<rows, persisted>>
             /\ Proceed(w, AfterItemLoad(request[w].method))
    BY <2>1, <2>3, QuietStep DEF Proceed, AfterItemLoad
  <2> QED
    BY <1>3, <2>2, <2>3 DEF HandleItem
<1>4. ASSUME NEW w \in Workers, HandleCollection(w)
      PROVE  Store!Next \/ UNCHANGED Store!vars
  <2>1. pc[w] = "handle" /\ ~persisted[w] /\ Working(w)
    BY <1>4 DEF HandleCollection, Control, Phases, Working
  <2>2. \/ Fail(w, 403)
        \/ UNCHANGED <<rows, persisted>> /\ Proceed(w, "deserialize")
    BY <1>4 DEF HandleCollection
  <2> QED
    BY <2>1, <2>2, FailStep, QuietStep DEF Proceed
<1>5. ASSUME NEW w \in Workers, Deserialize(w) PROVE Store!Next \/ UNCHANGED Store!vars
  <2>1. pc[w] = "deserialize" /\ ~persisted[w] /\ Working(w)
    BY <1>5 DEF Deserialize, Control, Phases, Working
  <2>2. \/ Fail(w, 403) \/ Fail(w, 500)
        \/ UNCHANGED <<rows, persisted>> /\ Proceed(w, "validate")
    BY <1>5 DEF Deserialize
  <2> QED
    BY <2>1, <2>2, FailStep, QuietStep DEF Proceed
<1>6. ASSUME NEW w \in Workers, Validate(w) PROVE Store!Next \/ UNCHANGED Store!vars
  <2>1. pc[w] = "validate" /\ ~persisted[w] /\ Working(w)
    BY <1>6 DEF Validate, Control, Phases, Working
  <2>2. \/ Fail(w, 400) \/ Fail(w, 500)
        \/ UNCHANGED <<rows, persisted>> /\ Proceed(w, "persist")
    BY <1>6 DEF Validate, Add
  <2> QED
    BY <2>1, <2>2, FailStep, QuietStep DEF Proceed
<1>7. ASSUME NEW w \in Workers, Persist(w) PROVE Store!Next
  BY <1>7, PersistStep
<1>8. ASSUME NEW w \in Workers, Serialize(w) PROVE Store!Next
  <2>1. pc[w] = "serialize" /\ Working(w)
        /\ (persisted[w] \/ request[w].method = "GET")
    BY <1>8 DEF Serialize, Control, Phases, Working
  <2>2. CASE Fail(w, 500)
    BY <2>1, <2>2, FailStep
  <2>3. CASE ~Fail(w, 500)
    <3>1. PICK s \in {200, 201} : /\ pc' = [pc EXCEPT ![w] = "answered"]
                                  /\ status' = [status EXCEPT ![w] = s]
                                  /\ UNCHANGED <<rows, request, persisted>>
      BY <1>8, <2>3 DEF Serialize
    <3>2. /\ s \in Codes
          /\ s \in {200, 201} => persisted[w] \/ request[w].method = "GET"
          /\ s \in {400, 403, 404} => ~persisted[w]
      BY <2>1 DEF Codes
    <3> QED
      BY <2>1, <3>1, <3>2, AnswerStep
  <2> QED
    BY <2>2, <2>3
<1>9. ASSUME NEW w \in Workers, Deliver(w) \/ Die(w) PROVE Store!Next
  BY <1>9, CloseStep
<1> QED
  BY <1>1, <1>2, <1>3, <1>4, <1>5, <1>6, <1>7, <1>8, <1>9 DEF Next, Handler

LEMMA InitStep == Init => Store!Init
<1> SUFFICES ASSUME Init PROVE Store!Init
  OBVIOUS
<1>1. StoredColumnsValid
  BY InitRecords DEF Records
<1>2. NoRequest.method = "none"
  BY DEF NoRequest
<1>3. /\ pc = [w \in Workers |-> "idle"]
      /\ request = [w \in Workers |-> NoRequest]
      /\ status = [w \in Workers |-> 0]
  BY DEF Init
<1>4. \A u \in Uids : rows[u].state = "live" => Store!Acceptable(rows[u].columns)
  BY <1>1 DEF StoredColumnsValid, Valid, Store!Acceptable
<1>5. StageOf = [w \in Workers |-> "idle"] /\ MethodOf = [w \in Workers |-> "none"]
  BY <1>2, <1>3 DEF StageOf, MethodOf, Stage
<1> QED
  BY <1>3, <1>4, <1>5 DEF Store!Init, StageOf, MethodOf

(* The pipeline of handlers implements the atomic store: whatever the processes
   do between load, write and answer, and wherever they fail or die, a client
   sees requests that take effect at most once, in one step and on one record,
   and answers that fit. *)
THEOREM ImplementsStore == Spec => StoreSpec
<1>1. Spec => [](Typed /\ Control /\ Records)
  BY TypedInvariant, ControlInvariant, RecordsInvariant, PTL
<1> QED
  BY <1>1, InitStep, NextStep, PTL DEF Spec, StoreSpec, Store!Spec
================================================================================
