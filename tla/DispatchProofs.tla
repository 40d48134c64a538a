----------------------------- MODULE DispatchProofs ------------------------------
(***************************************************************************)
(* What one process promises that runs operations inside each other, for   *)
(* any routes, handlers, languages and number of headless calls.           *)
(***************************************************************************)
EXTENDS Dispatch, SequenceTheorems, TLAPS

Codes   == {200, 201, 400, 403, 404, 405, 500}
Steps   == {"match", "custom", "security", "query", "filters", "deserialize", "after"}
Classes == {Registered[i].class : i \in DOMAIN Registered} \cup {"none"}

(* The handlers whose result is answered with 201. *)
Creating == {"CollectionPost", "FileUpload"}

Repositories ==
    {Acquired(o) : o \in Operations}
      \cup {[operation |-> NoOperation, entity |-> NoOperation, pages |-> {}]}

Frames ==
    [request : Requests, next : Int, operation : Operations \cup {NoOperation},
     handler : Classes, at : Steps,
     query : {Settings(o) : o \in Operations} \cup {NoSettings}, interrupted : BOOLEAN]

(* What an operation on the stack is by itself: a step is one of its handler, and
   only a collection that is read has a query, made with its own settings. *)
Sound(f) ==
    /\ f.at # "match" => f.operation \in Operations
    /\ f.at \in {"match", "custom", "security", "query", "deserialize"} =>
         f.query = NoSettings
    /\ f.query # NoSettings => f.query = Settings(f.operation)
    /\ f.at = "custom" => f.handler = "Custom"
    /\ f.at \in {"query", "filters"} => f.handler = "CollectionGet"
    /\ f.at = "deserialize" => f.handler \in {"ItemPut", "ItemPatch", "CollectionPost"}

SoundFrames == {f \in Frames : Sound(f)}

(* The operations that count on the repository they have got: none ran since. *)
Needs(f) ==
    \/ f.at = "query"
    \/ ~f.interrupted /\ f.at = "deserialize"
    \/ ~f.interrupted /\ f.at = "security" /\ f.handler \in {"ItemPut", "ItemPatch"}

-----------------------------------------------------------------------------
(* The invariant *)

Typed ==
    /\ pc \in {"idle", "middleware", "run", "page", "answered", "uncaught"}
    /\ stack \in Seq(SoundFrames)
    /\ repository \in Repositories
    /\ status \in Codes
    /\ calls \in 0 .. MaxCalls + 1

(* Every headless call adds one operation; Bootstrap has one of its own. *)
Depth ==
    /\ pc \in {"idle", "answered", "uncaught"} => stack = <<>>
    /\ pc = "middleware" => Len(stack) = 1 /\ stack[1].at = "match" /\ calls = 0
    /\ pc = "idle" => calls = 0
    /\ pc = "run" => stack # <<>> /\ Len(stack) <= calls + 1 /\ calls <= MaxCalls
    /\ pc = "page" => Len(stack) <= calls

(* Those below the innermost operation have been interrupted by a listener. *)
Below ==
    \A i \in 1 .. Len(stack) - 1 :
        stack[i].interrupted /\ stack[i].at \in {"security", "filters", "deserialize", "after"}

(* The innermost one has the repository to itself, if it counts on it. *)
Own == stack # <<>> /\ Needs(Top) => repository = Acquired(Top.operation)

Created ==
    /\ pc \in {"idle", "middleware"} => status = 200
    /\ CreatedMeansCreated

Inv == Typed /\ Depth /\ Below /\ Own /\ Created

-----------------------------------------------------------------------------
(* How the stack changes *)

LEMMA StackFacts ==
    ASSUME Typed
    PROVE  /\ Len(stack) \in Nat
           /\ \A i \in 1..Len(stack) : stack[i] \in SoundFrames
           /\ stack # <<>> => Len(stack) >= 1 /\ Top \in SoundFrames
           /\ Len(stack) >= 1 => stack # <<>>
<1>1. stack \in Seq(SoundFrames)
  BY DEF Typed
<1>2. Len(stack) \in Nat /\ \A i \in 1..Len(stack) : stack[i] \in SoundFrames
  BY <1>1, LenProperties, ElementOfSeq
<1>3. stack # <<>> => Len(stack) >= 1
  BY <1>1, EmptySeq
<1>4. Len(stack) >= 1 => stack # <<>>
  BY <1>1, EmptySeq
<1> QED
  BY <1>2, <1>3, <1>4 DEF Top

(* The innermost operation goes on. *)
LEMMA Replaced ==
    ASSUME Typed, stack # <<>>, NEW f \in SoundFrames,
           stack' = [stack EXCEPT ![Len(stack)] = f]
    PROVE  /\ stack' \in Seq(SoundFrames) /\ stack' # <<>> /\ Len(stack') = Len(stack)
           /\ Top' = f
           /\ \A i \in 1 .. Len(stack) - 1 : stack'[i] = stack[i]
<1>1. stack \in Seq(SoundFrames) /\ Len(stack) \in 1..Len(stack) /\ Len(stack) \in Nat
  BY StackFacts DEF Typed
<1>2. /\ stack' \in Seq(SoundFrames) /\ Len(stack') = Len(stack)
      /\ \A j \in 1..Len(stack) : stack'[j] = IF j = Len(stack) THEN f ELSE stack[j]
  BY <1>1, ExceptSeq
<1>3. stack' # <<>>
  BY <1>1, <1>2, EmptySeq
<1>4. Top' = f
  BY <1>1, <1>2 DEF Top
<1>5. \A i \in 1 .. Len(stack) - 1 : stack'[i] = stack[i]
  <2>1. \A i \in 1 .. Len(stack) - 1 : i \in 1..Len(stack) /\ i # Len(stack)
    BY <1>1
  <2> QED
    BY <1>2, <2>1
<1> QED
  BY <1>2, <1>3, <1>4, <1>5

(* An exception or a result goes to one of the outer operations. *)
LEMMA Shortened ==
    ASSUME Typed, NEW d \in 1 .. Len(stack) - 1, stack' = SubSeq(stack, 1, d)
    PROVE  /\ stack' \in Seq(SoundFrames) /\ stack' # <<>> /\ Len(stack') = d
           /\ \A i \in 1..d : stack'[i] = stack[i]
           /\ Top' = stack[d]
<1>1. /\ Len(stack) \in Nat /\ d \in Nat /\ d >= 1
      /\ \A i \in 1..d : stack[i] \in SoundFrames
  BY StackFacts
<1>2. /\ stack' \in Seq(SoundFrames) /\ Len(stack') = d
      /\ \A i \in 1 .. d - 1 + 1 : stack'[i] = stack[1 + i - 1]
  BY <1>1, SubSeqProperties
<1>3. \A i \in 1..d : stack'[i] = stack[i]
  BY <1>1, <1>2
<1>4. stack' # <<>>
  BY <1>1, <1>2, EmptySeq
<1> QED
  BY <1>1, <1>2, <1>3, <1>4 DEF Top

-----------------------------------------------------------------------------
(* What preserves the invariant *)

LEMMA GoesOn ==
    ASSUME Inv, stack # <<>>, pc \in {"run", "page"}, NEW f \in SoundFrames,
           stack' = [stack EXCEPT ![Len(stack)] = f], UNCHANGED <<pc, calls>>,
           repository' \in Repositories, status' \in Codes,
           Needs(f) => repository' = Acquired(f.operation),
           IF pc = "run" /\ Len(stack) = 1
             THEN status' = 201 <=> f.at = "after" /\ f.handler \in Creating
             ELSE status' = status
    PROVE  Inv'
<1>1. /\ stack' \in Seq(SoundFrames) /\ stack' # <<>> /\ Len(stack') = Len(stack)
      /\ Top' = f
      /\ \A i \in 1 .. Len(stack) - 1 : stack'[i] = stack[i]
  BY Replaced DEF Inv
<1>2. Len(stack) \in Nat /\ Len(stack) >= 1
  BY StackFacts DEF Inv
<1>3. Typed'
  BY <1>1 DEF Inv, Typed
<1>4. Depth'
  BY <1>1 DEF Inv, Depth
<1>5. Below'
  BY <1>1 DEF Inv, Below
<1>6. Own'
  <2>1. Needs(Top)' => Needs(f)
    BY <1>1 DEF Needs
  <2>2. Acquired(Top.operation)' = Acquired(f.operation)
    BY <1>1 DEF Acquired
  <2> QED
    BY <2>1, <2>2 DEF Own
<1>7. Created'
  <2>1. CASE Len(stack) = 1
    <3>1. stack'[1] = f
      BY <1>1, <2>1 DEF Top
    <3>2. pc' = pc /\ pc' \notin {"idle", "middleware"}
      OBVIOUS
    <3>3. ASSUME pc = "run"
          PROVE  status' = 201 <=> stack'[1].at = "after" /\ stack'[1].handler \in Creating
      BY <2>1, <3>1, <3>3
    <3> QED
      BY <3>2, <3>3 DEF Created, CreatedMeansCreated, Creating
  <2>2. CASE Len(stack) # 1
    <3>1. stack'[1] = stack[1]
      <4>1. \A n \in Nat : n >= 1 /\ n # 1 => 1 \in 1 .. n - 1
        OBVIOUS
      <4>2. 1 \in 1 .. Len(stack) - 1
        BY <1>2, <2>2, <4>1
      <4> QED
        BY <1>1, <4>2
    <3>2. status' = status
      <4>1. ~(pc = "run" /\ Len(stack) = 1)
        BY <2>2
      <4> QED
        BY <4>1
    <3> QED
      BY <3>1, <3>2 DEF Inv, Created, CreatedMeansCreated
  <2> QED
    BY <2>1, <2>2
<1> QED
  BY <1>3, <1>4, <1>5, <1>6, <1>7 DEF Inv

LEMMA GoesOut ==
    ASSUME Inv, pc \in {"run", "page"}, NEW d \in 1 .. Len(stack) - 1,
           stack' = SubSeq(stack, 1, d), UNCHANGED <<pc, status, calls>>,
           repository' \in Repositories
    PROVE  Inv'
<1>1. /\ stack' \in Seq(SoundFrames) /\ stack' # <<>> /\ Len(stack') = d
      /\ \A i \in 1..d : stack'[i] = stack[i]
      /\ Top' = stack[d]
  BY Shortened DEF Inv
<1>2. Len(stack) \in Nat /\ d \in Nat /\ d >= 1 /\ d < Len(stack) /\ calls \in Int
  BY StackFacts DEF Inv, Typed
<1>3. Typed'
  BY <1>1 DEF Inv, Typed
<1>4. Depth'
  BY <1>1, <1>2 DEF Inv, Depth
<1>5. Below'
  BY <1>1, <1>2 DEF Inv, Below
<1>6. Own'
  <2>1. stack[d].interrupted /\ stack[d].at # "query"
    BY <1>2 DEF Inv, Below
  <2> QED
    BY <1>1, <2>1 DEF Own, Needs
<1>7. Created'
  <2>1. stack'[1] = stack[1]
    BY <1>1, <1>2
  <2> QED
    BY <2>1 DEF Inv, Created, CreatedMeansCreated
<1> QED
  BY <1>3, <1>4, <1>5, <1>6, <1>7 DEF Inv

LEMMA Empties ==
    ASSUME Inv, stack' = <<>>, UNCHANGED calls,
           \/ pc' \in {"answered", "uncaught"}
           \/ pc' = "page" /\ pc = "page",
           repository' \in Repositories, status' \in Codes
    PROVE  Inv'
<1>1. stack' \in Seq(SoundFrames) /\ Len(stack') = 0
  OBVIOUS
<1>2. calls \in Nat
  BY DispatchAssumption DEF Inv, Typed
<1>3. Typed'
  BY <1>1 DEF Inv, Typed
<1>4. Depth'
  BY <1>1, <1>2 DEF Depth
<1>5. Below' /\ Own'
  BY <1>1 DEF Below, Own
<1>6. Created'
  BY DEF Created, CreatedMeansCreated
<1> QED
  BY <1>3, <1>4, <1>5, <1>6 DEF Inv

LEMMA Throws ==
    ASSUME Inv, stack # <<>>, pc \in {"run", "page"}, NEW code \in Codes, Throw(code),
           UNCHANGED calls, repository' \in Repositories
    PROVE  Inv'
<1>1. ASSUME NEW d \in 1 .. Len(stack) - 1,
             stack' = SubSeq(stack, 1, d), UNCHANGED <<pc, status>>
      PROVE  Inv'
  BY <1>1, GoesOut
<1>2. ASSUME stack' = <<>>, pc' \in {"answered", "uncaught"}, status' \in Codes
      PROVE  Inv'
  BY <1>2, Empties
<1>3. status \in Codes
  BY DEF Inv, Typed
<1>4. \/ \E d \in 1 .. Len(stack) - 1 :
           stack' = SubSeq(stack, 1, d) /\ UNCHANGED <<pc, status>>
      \/ stack' = <<>> /\ pc' \in {"answered", "uncaught"} /\ status' \in Codes
  BY <1>3 DEF Throw
<1> QED
  BY <1>1, <1>2, <1>4

-----------------------------------------------------------------------------
(* The steps *)

LEMMA RouteType ==
    ASSUME NEW k \in DOMAIN Routes
    PROVE  Routes[k] \in Operations /\ Routes[k].resource \in Nat
  BY DispatchAssumption DEF Operations, ToSet

LEMMA OperationType ==
    ASSUME NEW o \in Operations
    PROVE  /\ o.resource \in Nat /\ o.main \in Nat /\ o.pages \subseteq Nat
           /\ o.main \in o.pages \/ o.main = 0
           /\ Acquired(o) \in Repositories
           /\ Acquired(o).entity = o.entity /\ Acquired(o).pages = o.pages
           /\ Acquired(o).operation = o
<1>1. PICK k \in DOMAIN Routes : o = Routes[k]
  BY DEF Operations, ToSet
<1> QED
  BY <1>1, DispatchAssumption DEF Acquired, Repositories

LEMMA FrameType ==
    ASSUME NEW q \in Requests PROVE Frame(q) \in SoundFrames
  BY DEF Frame, SoundFrames, Frames, Sound, Steps, Classes

(* The innermost operation while the process runs: it is in a step of the
   process's request or of a page. *)
LEMMA Running ==
    ASSUME Inv, stack # <<>>, Top.at # "match" \/ pc \in {"run", "page"}
    PROVE  /\ pc \in {"run", "page"} /\ Top \in SoundFrames /\ Len(stack) >= 1
           /\ Len(stack) \in Nat
<1>1. Top \in SoundFrames /\ Len(stack) \in Nat /\ Len(stack) >= 1
  BY StackFacts DEF Inv
<1>2. pc # "middleware"
  BY DEF Inv, Depth, Top
<1> QED
  BY <1>1, <1>2 DEF Inv, Typed, Depth

LEMMA InitInv == Init => Inv
<1> SUFFICES ASSUME Init PROVE Inv
  OBVIOUS
<1>1. stack = <<>> /\ stack \in Seq(SoundFrames) /\ Len(stack) = 0
  BY DEF Init
<1>2. calls \in 0 .. MaxCalls + 1
  BY DispatchAssumption DEF Init
<1>3. Typed
  BY <1>1, <1>2 DEF Init, Typed, Repositories, Codes
<1>4. Depth /\ Below /\ Own /\ Created
  BY <1>1 DEF Init, Depth, Below, Own, Created, CreatedMeansCreated
<1> QED
  BY <1>3, <1>4 DEF Inv

LEMMA ReceiveInv == Inv /\ Receive => Inv'
<1> SUFFICES ASSUME Inv, Receive PROVE Inv'
  OBVIOUS
<1>1. pc = "idle" /\ pc' \in {"middleware", "page"} /\ UNCHANGED <<repository, status, calls>>
  BY DEF Receive
<1>2. PICK q \in Requests : stack' = IF pc' = "page" THEN <<>> ELSE <<Frame(q)>>
  BY DEF Receive
<1>3. Frame(q) \in SoundFrames /\ Frame(q).at = "match"
  BY FrameType DEF Frame
<1>4. stack' \in Seq(SoundFrames) /\ (pc' = "page" => stack' = <<>> /\ Len(stack') = 0)
  BY <1>2, <1>3
<1>5. pc' = "middleware" => Len(stack') = 1 /\ stack'[1] = Frame(q) /\ stack' # <<>>
  BY <1>2
<1>6. calls = 0 /\ status = 200
  BY <1>1 DEF Inv, Depth, Created
<1>7. Typed'
  BY <1>1, <1>4 DEF Inv, Typed
<1>8. Depth'
  <2>1. CASE pc' = "page"
    BY <1>1, <1>4, <1>6, <2>1 DEF Depth
  <2>2. CASE pc' = "middleware"
    <3>1. stack'[1].at = "match"
      BY <1>3, <1>5, <2>2
    <3> QED
      BY <1>1, <1>5, <1>6, <2>2, <3>1 DEF Depth
  <2> QED
    BY <1>1, <2>1, <2>2
<1>9. Below'
  <2>1. Len(stack') \in {0, 1}
    BY <1>1, <1>4, <1>5
  <2>2. \A n \in {0, 1} : 1 .. n - 1 = {}
    OBVIOUS
  <2>3. 1 .. Len(stack') - 1 = {}
    BY <2>1, <2>2
  <2> QED
    BY <2>3 DEF Below
<1>10. Own'
  <2>1. CASE pc' = "page"
    BY <1>4, <2>1 DEF Own
  <2>2. CASE pc' = "middleware"
    BY <1>3, <1>5, <2>2 DEF Own, Needs, Top
  <2> QED
    BY <1>1, <2>1, <2>2
<1>11. Created'
  BY <1>1, <1>6 DEF Created, CreatedMeansCreated
<1> QED
  BY <1>7, <1>8, <1>9, <1>10, <1>11 DEF Inv

LEMMA ResolveLanguageInv == Inv /\ ResolveLanguage => Inv'
<1> SUFFICES ASSUME Inv, ResolveLanguage PROVE Inv'
  OBVIOUS
<1>1. pc = "middleware" /\ UNCHANGED <<repository, status, calls>>
  BY DEF ResolveLanguage
<1>2. repository \in Repositories /\ status \in Codes
  BY DEF Inv, Typed
<1>3. CASE pc' = "uncaught" /\ stack' = <<>>
  BY <1>1, <1>2, <1>3, Empties
<1>4. CASE pc' = "run" /\ stack' = stack
  <2>1. Len(stack) = 1 /\ stack[1].at = "match" /\ calls = 0 /\ status = 200
    BY <1>1 DEF Inv, Depth, Created
  <2>2. stack # <<>>
    BY <2>1, StackFacts DEF Inv
  <2>3. MaxCalls \in Nat
    BY DispatchAssumption
  <2>4. Typed' /\ Below'
    BY <1>1, <1>4 DEF Inv, Typed, Below
  <2>5. Depth'
    BY <1>1, <1>4, <2>1, <2>2, <2>3 DEF Depth
  <2>6. Own'
    BY <1>1, <1>4, <2>1 DEF Own, Needs, Top
  <2>7. Created'
    BY <1>1, <1>4, <2>1 DEF Created, CreatedMeansCreated
  <2> QED
    BY <2>4, <2>5, <2>6, <2>7 DEF Inv
<1> QED
  BY <1>3, <1>4 DEF ResolveLanguage

(* Before its last step the request of the process has created nothing. *)
LEMMA NothingCreated ==
    ASSUME Inv, pc = "run", Len(stack) = 1, Top.at # "after" PROVE status # 201
  BY DEF Inv, Created, CreatedMeansCreated, Top

LEMMA Advances ==
    ASSUME Inv, stack # <<>>, pc \in {"run", "page"}, Top.at # "after",
           NEW f \in SoundFrames, ~(f.at = "after" /\ f.handler \in Creating),
           stack' = [stack EXCEPT ![Len(stack)] = f], UNCHANGED <<pc, calls, status>>,
           repository' \in Repositories,
           Needs(f) => repository' = Acquired(f.operation)
    PROVE  Inv'
<1>1. status' \in Codes
  BY DEF Inv, Typed
<1>2. IF pc = "run" /\ Len(stack) = 1
        THEN status' = 201 <=> f.at = "after" /\ f.handler \in Creating
        ELSE status' = status
  BY NothingCreated
<1> QED
  BY <1>1, <1>2, GoesOn

LEMMA Creates ==
    ASSUME Inv, stack # <<>>, pc \in {"run", "page"},
           NEW f \in SoundFrames, f.at = "after" /\ f.handler \in Creating,
           stack' = [stack EXCEPT ![Len(stack)] = f], UNCHANGED <<pc, calls, repository>>,
           SetStatus(201)
    PROVE  Inv'
<1>1. status' \in Codes /\ repository' \in Repositories
  BY DEF Inv, Typed, SetStatus, Codes
<1>2. IF pc = "run" /\ Len(stack) = 1
        THEN status' = 201 <=> f.at = "after" /\ f.handler \in Creating
        ELSE status' = status
  BY DEF SetStatus
<1>3. ~Needs(f)
  BY DEF Needs
<1> QED
  BY <1>1, <1>2, <1>3, GoesOn

(* What Goto makes of the innermost operation. *)
MovedTo(s) == [Top EXCEPT !.at = s]

LEMMA GotoTop ==
    ASSUME Inv, stack # <<>>, NEW s \in Steps, Goto(s)
    PROVE  /\ stack' = [stack EXCEPT ![Len(stack)] = MovedTo(s)]
           /\ MovedTo(s) \in Frames
           /\ MovedTo(s).at = s
           /\ MovedTo(s).request = Top.request /\ MovedTo(s).operation = Top.operation
           /\ MovedTo(s).handler = Top.handler /\ MovedTo(s).query = Top.query
           /\ MovedTo(s).interrupted = Top.interrupted
<1>1. Top \in Frames /\ Sound(Top) /\ Len(stack) \in 1..Len(stack)
  BY StackFacts DEF Inv, SoundFrames
<1>2. stack' = [stack EXCEPT ![Len(stack)] = MovedTo(s)]
  BY DEF Goto, MovedTo, Top
<1> QED
  BY <1>1, <1>2 DEF MovedTo, Frames

LEMMA CustomInv == Inv /\ Custom => Inv'
<1> SUFFICES ASSUME Inv, Custom PROVE Inv'
  OBVIOUS
<1>1. stack # <<>> /\ Top.at = "custom" /\ UNCHANGED <<calls, repository>>
  BY DEF Custom, At
<1>2. pc \in {"run", "page"} /\ Top \in Frames /\ Sound(Top) /\ Len(stack) \in Nat
  BY <1>1, Running DEF SoundFrames
<1>3. repository' \in Repositories
  BY <1>1 DEF Inv, Typed
<1>4. Top.handler = "Custom" /\ Top.query = NoSettings /\ Top.operation \in Operations
  BY <1>1, <1>2 DEF Sound
<1>5. ASSUME Goto("after"), UNCHANGED <<pc, status>> PROVE Inv'
  <2>1. /\ stack' = [stack EXCEPT ![Len(stack)] = MovedTo("after")]
        /\ MovedTo("after") \in Frames /\ MovedTo("after").at = "after"
        /\ MovedTo("after").operation = Top.operation
        /\ MovedTo("after").handler = "Custom" /\ MovedTo("after").query = NoSettings
    BY <1>1, <1>4, <1>5, GotoTop DEF Steps
  <2>2. MovedTo("after") \in SoundFrames
    BY <1>4, <2>1 DEF SoundFrames, Sound
  <2>3. ~Needs(MovedTo("after")) /\ MovedTo("after").handler \notin Creating
    BY <2>1 DEF Needs, Creating
  <2> QED
    BY <1>1, <1>2, <1>3, <1>5, <2>1, <2>2, <2>3, Advances
<1>6. ASSUME Throw(500) PROVE Inv'
  BY <1>1, <1>2, <1>3, <1>6, Throws DEF Codes
<1>7. ASSUME MatchNext, UNCHANGED <<pc, status>> PROVE Inv'
  <2> DEFINE f == [Top EXCEPT !.at = "match", !.next = Top.operation.resource + 1]
  <2>1. Top.operation.resource + 1 \in Int
    BY <1>4, OperationType
  <2>2. /\ f \in Frames /\ f.at = "match" /\ f.operation = Top.operation
        /\ f.query = NoSettings
    BY <1>2, <1>4, <2>1 DEF Frames, Steps
  <2>3. f \in SoundFrames /\ ~Needs(f)
    BY <2>2 DEF SoundFrames, Sound, Needs
  <2>4. stack' = [stack EXCEPT ![Len(stack)] = f]
    BY <1>7 DEF MatchNext, Top
  <2> QED
    BY <1>1, <1>2, <1>3, <1>7, <2>2, <2>3, <2>4, Advances
<1> QED
  BY <1>5, <1>6, <1>7 DEF Custom

LEMMA CreateQueryInv == Inv /\ CreateQuery => Inv'
<1> SUFFICES ASSUME Inv, CreateQuery PROVE Inv'
  OBVIOUS
<1> DEFINE q == [entity |-> repository.entity, pages |-> repository.pages]
           f == [Top EXCEPT !.at = "filters", !.query = q]
<1>1. stack # <<>> /\ Top.at = "query" /\ UNCHANGED <<pc, calls, repository, status>>
  BY DEF CreateQuery, At
<1>2. pc \in {"run", "page"} /\ Top \in Frames /\ Sound(Top)
  BY <1>1, Running DEF SoundFrames
<1>3. Top.operation \in Operations /\ Top.handler = "CollectionGet"
  BY <1>1, <1>2 DEF Sound
<1>4. repository = Acquired(Top.operation)
  BY <1>1 DEF Inv, Own, Needs
<1>5. q = Settings(Top.operation)
  BY <1>3, <1>4, OperationType DEF Settings
<1>6. /\ f \in Frames /\ f.at = "filters" /\ f.handler = "CollectionGet"
      /\ f.query = Settings(f.operation) /\ f.operation \in Operations
  BY <1>2, <1>3, <1>5 DEF Frames, Steps
<1>7. f \in SoundFrames /\ ~Needs(f)
  BY <1>6 DEF SoundFrames, Sound, Needs
<1>8. stack' = [stack EXCEPT ![Len(stack)] = f]
  BY DEF CreateQuery, Top
<1>9. repository' \in Repositories
  BY <1>1 DEF Inv, Typed
<1> QED
  BY <1>1, <1>2, <1>6, <1>7, <1>8, <1>9, Advances

LEMMA FilterInv == Inv /\ Filter => Inv'
<1> SUFFICES ASSUME Inv, Filter PROVE Inv'
  OBVIOUS
<1>1. stack # <<>> /\ Top.at = "filters" /\ UNCHANGED <<calls, repository>>
  BY DEF Filter, At
<1>2. pc \in {"run", "page"} /\ Top \in Frames /\ Sound(Top)
  BY <1>1, Running DEF SoundFrames
<1>3. repository' \in Repositories
  BY <1>1 DEF Inv, Typed
<1>4. Top.handler = "CollectionGet" /\ Top.operation \in Operations
  BY <1>1, <1>2 DEF Sound
<1>5. ASSUME Throw(500) PROVE Inv'
  BY <1>1, <1>2, <1>3, <1>5, Throws DEF Codes
<1>6. ASSUME Goto("after"), UNCHANGED <<pc, status>> PROVE Inv'
  <2>1. /\ stack' = [stack EXCEPT ![Len(stack)] = MovedTo("after")]
        /\ MovedTo("after") \in Frames /\ MovedTo("after").at = "after"
        /\ MovedTo("after").operation = Top.operation
        /\ MovedTo("after").handler = "CollectionGet" /\ MovedTo("after").query = Top.query
    BY <1>1, <1>4, <1>6, GotoTop DEF Steps
  <2>2. MovedTo("after") \in SoundFrames
    BY <1>2, <1>4, <2>1 DEF SoundFrames, Sound
  <2>3. ~Needs(MovedTo("after")) /\ MovedTo("after").handler \notin Creating
    BY <2>1 DEF Needs, Creating
  <2> QED
    BY <1>1, <1>2, <1>3, <1>6, <2>1, <2>2, <2>3, Advances
<1> QED
  BY <1>5, <1>6 DEF Filter

LEMMA SecurityInv == Inv /\ Security => Inv'
<1> SUFFICES ASSUME Inv, Security PROVE Inv'
  OBVIOUS
<1>1. stack # <<>> /\ Top.at = "security" /\ UNCHANGED calls
  BY DEF Security, At
<1>2. pc \in {"run", "page"} /\ Top \in Frames /\ Sound(Top)
  BY <1>1, Running DEF SoundFrames
<1>3. Top.operation \in Operations /\ Top.query = NoSettings
  BY <1>1, <1>2 DEF Sound
<1>4. repository \in Repositories /\ Acquired(Top.operation) \in Repositories
  BY <1>3, OperationType DEF Inv, Typed
<1>5. ASSUME NEW s \in Steps, Goto(s)
      PROVE  /\ stack' = [stack EXCEPT ![Len(stack)] = MovedTo(s)]
             /\ MovedTo(s) \in Frames /\ MovedTo(s).at = s
             /\ MovedTo(s).operation = Top.operation /\ MovedTo(s).handler = Top.handler
             /\ MovedTo(s).query = NoSettings /\ MovedTo(s).interrupted = Top.interrupted
  BY <1>1, <1>3, <1>5, GotoTop
<1>6. ASSUME Throw(403) \/ Throw(500), UNCHANGED repository PROVE Inv'
  <2>1. repository' \in Repositories
    BY <1>4, <1>6
  <2> QED
    BY <1>1, <1>2, <1>6, <2>1, Throws DEF Codes
<1>7. ASSUME Top.handler \in {"ItemGet", "ItemDelete"}, Goto("after"),
             UNCHANGED <<pc, status, repository>>
      PROVE  Inv'
  <2>1. MovedTo("after") \in SoundFrames /\ MovedTo("after").at = "after"
    BY <1>3, <1>5, <1>7 DEF Steps, SoundFrames, Sound
  <2>2. ~Needs(MovedTo("after")) /\ MovedTo("after").handler \notin Creating
    BY <1>5, <1>7, <2>1 DEF Steps, Needs, Creating
  <2>3. stack' = [stack EXCEPT ![Len(stack)] = MovedTo("after")]
    BY <1>5, <1>7 DEF Steps
  <2>4. repository' \in Repositories
    BY <1>4, <1>7
  <2> QED
    BY <1>1, <1>2, <1>7, <2>1, <2>2, <2>3, <2>4, Advances
<1>8. ASSUME Top.handler \in {"ItemPut", "ItemPatch"}, Goto("deserialize"),
             UNCHANGED <<pc, status, repository>>
      PROVE  Inv'
  <2> DEFINE f == MovedTo("deserialize")
  <2>1. /\ f \in Frames /\ f.at = "deserialize" /\ f.operation = Top.operation
        /\ f.handler = Top.handler /\ f.query = NoSettings /\ f.interrupted = Top.interrupted
        /\ stack' = [stack EXCEPT ![Len(stack)] = f]
    BY <1>5, <1>8 DEF Steps
  <2> HIDE DEF f
  <2>2. f \in SoundFrames
    BY <1>3, <1>8, <2>1 DEF SoundFrames, Sound
  <2>3. ASSUME Needs(f) PROVE repository' = Acquired(f.operation)
    <3>1. Needs(Top)
      BY <1>1, <1>8, <2>1, <2>3 DEF Needs
    <3> QED
      BY <1>1, <1>8, <2>1, <3>1 DEF Inv, Own
  <2>4. repository' \in Repositories
    BY <1>4, <1>8
  <2> QED
    BY <1>1, <1>2, <1>8, <2>1, <2>2, <2>3, <2>4, Advances
<1>9. ASSUME Top.handler = "CollectionPost", repository' = Acquired(Top.operation),
             stack' = [stack EXCEPT ![Len(stack)].at = "deserialize",
                                    ![Len(stack)].interrupted = FALSE],
             UNCHANGED <<pc, status>>
      PROVE  Inv'
  <2> DEFINE f == [Top EXCEPT !.at = "deserialize", !.interrupted = FALSE]
  <2>1. /\ f \in Frames /\ f.at = "deserialize" /\ f.operation = Top.operation
        /\ f.handler = "CollectionPost" /\ f.query = NoSettings
    BY <1>2, <1>3, <1>9 DEF Frames, Steps
  <2>2. stack' = [stack EXCEPT ![Len(stack)] = f]
    BY <1>9 DEF Top
  <2> HIDE DEF f
  <2>3. f \in SoundFrames
    BY <1>3, <2>1 DEF SoundFrames, Sound
  <2>4. repository' \in Repositories /\ repository' = Acquired(f.operation)
    BY <1>4, <1>9, <2>1
  <2> QED
    BY <1>1, <1>2, <1>9, <2>1, <2>2, <2>3, <2>4, Advances
<1>10. ASSUME Top.handler = "CollectionGet", repository' = Acquired(Top.operation),
              Goto("query"), UNCHANGED <<pc, status>>
       PROVE  Inv'
  <2> DEFINE f == MovedTo("query")
  <2>1. /\ f \in Frames /\ f.at = "query" /\ f.operation = Top.operation
        /\ f.handler = Top.handler /\ f.query = NoSettings
        /\ stack' = [stack EXCEPT ![Len(stack)] = f]
    BY <1>5, <1>10 DEF Steps
  <2> HIDE DEF f
  <2>2. f \in SoundFrames
    BY <1>3, <1>10, <2>1 DEF SoundFrames, Sound
  <2>3. repository' \in Repositories /\ repository' = Acquired(f.operation)
    BY <1>4, <1>10, <2>1
  <2> QED
    BY <1>1, <1>2, <1>10, <2>1, <2>2, <2>3, Advances
<1>11. ASSUME Top.handler = "FileUpload", SetStatus(201), Goto("after"),
              UNCHANGED <<pc, repository>>
       PROVE  Inv'
  <2> DEFINE f == MovedTo("after")
  <2>1. /\ f \in Frames /\ f.at = "after" /\ f.operation = Top.operation
        /\ f.handler = "FileUpload" /\ f.query = NoSettings
        /\ stack' = [stack EXCEPT ![Len(stack)] = f]
    BY <1>5, <1>11 DEF Steps
  <2> HIDE DEF f
  <2>2. f \in SoundFrames
    BY <1>3, <2>1 DEF SoundFrames, Sound
  <2>3. f.at = "after" /\ f.handler \in Creating
    BY <2>1 DEF Creating
  <2> QED
    BY <1>1, <1>2, <1>11, <2>1, <2>2, <2>3, Creates
<1> QED
  BY <1>6, <1>7, <1>8, <1>9, <1>10, <1>11 DEF Security

LEMMA StoreInv == Inv /\ Store => Inv'
<1> SUFFICES ASSUME Inv, Store PROVE Inv'
  OBVIOUS
<1>1. stack # <<>> /\ Top.at = "deserialize" /\ UNCHANGED <<calls, repository>>
  BY DEF Store, At
<1>2. pc \in {"run", "page"} /\ Top \in Frames /\ Sound(Top)
  BY <1>1, Running DEF SoundFrames
<1>3. /\ Top.operation \in Operations /\ Top.query = NoSettings
      /\ Top.handler \in {"ItemPut", "ItemPatch", "CollectionPost"}
  BY <1>1, <1>2 DEF Sound
<1>4. repository' \in Repositories
  BY <1>1 DEF Inv, Typed
<1>5. ASSUME NEW code \in {400, 403, 500}, Throw(code) PROVE Inv'
  BY <1>1, <1>2, <1>4, <1>5, Throws DEF Codes
<1>6. ASSUME Goto("after"), pc' = pc,
             \/ Top.handler = "CollectionPost" /\ SetStatus(201)
             \/ Top.handler # "CollectionPost" /\ UNCHANGED status
      PROVE  Inv'
  <2> DEFINE f == MovedTo("after")
  <2>1. /\ f \in Frames /\ f.at = "after" /\ f.operation = Top.operation
        /\ f.handler = Top.handler /\ f.query = NoSettings
        /\ stack' = [stack EXCEPT ![Len(stack)] = f]
    BY <1>1, <1>3, <1>6, GotoTop DEF Steps
  <2> HIDE DEF f
  <2>2. f \in SoundFrames
    BY <1>3, <2>1 DEF SoundFrames, Sound
  <2>3. CASE Top.handler = "CollectionPost" /\ SetStatus(201)
    <3>1. f.at = "after" /\ f.handler \in Creating
      BY <2>1, <2>3 DEF Creating
    <3> QED
      BY <1>1, <1>2, <1>6, <2>1, <2>2, <2>3, <3>1, Creates
  <2>4. CASE Top.handler # "CollectionPost" /\ UNCHANGED status
    <3>1. ~Needs(f) /\ f.handler \notin Creating
      BY <1>3, <2>1, <2>4 DEF Creating, Needs
    <3> QED
      BY <1>1, <1>2, <1>4, <1>6, <2>1, <2>2, <2>4, <3>1, Advances
  <2> QED
    BY <1>6, <2>3, <2>4
<1> QED
  BY <1>3, <1>5, <1>6 DEF Store

LEMMA SerializeInv == Inv /\ Serialize => Inv'
<1> SUFFICES ASSUME Inv, Serialize PROVE Inv'
  OBVIOUS
<1>1. stack # <<>> /\ Top.at = "after" /\ UNCHANGED <<calls, repository>>
  BY DEF Serialize, At
<1>2. pc \in {"run", "page"} /\ Len(stack) \in Nat /\ Len(stack) >= 1
  BY <1>1, Running
<1>3. repository' \in Repositories /\ status \in Codes
  BY <1>1 DEF Inv, Typed
<1>4. ASSUME Throw(500) PROVE Inv'
  BY <1>1, <1>2, <1>3, <1>4, Throws DEF Codes
<1>5. ASSUME Return, UNCHANGED status PROVE Inv'
  <2>1. stack' = SubSeq(stack, 1, Len(stack) - 1)
    BY <1>5 DEF Return, Front
  <2>2. CASE Len(stack) = 1
    <3>1. stack' = <<>>
      <4>1. SubSeq(stack, 1, 0) = <<>>
        BY SubSeqEmpty
      <4> QED
        BY <2>1, <2>2, <4>1
    <3>2. \/ pc' \in {"answered", "uncaught"}
          \/ pc' = "page" /\ pc = "page"
      BY <1>2, <1>5, <2>2 DEF Return
    <3> QED
      BY <1>1, <1>3, <1>5, <3>1, <3>2, Empties
  <2>3. CASE Len(stack) # 1
    <3>1. \A n \in Nat : n >= 1 /\ n # 1 => n - 1 \in 1 .. n - 1
      OBVIOUS
    <3>2. Len(stack) - 1 \in 1 .. Len(stack) - 1
      BY <1>2, <2>3, <3>1
    <3>3. pc' = pc
      BY <1>5, <2>3 DEF Return
    <3> QED
      BY <1>1, <1>2, <1>3, <1>5, <2>1, <3>2, <3>3, GoesOut
  <2> QED
    BY <2>2, <2>3
<1> QED
  BY <1>4, <1>5 DEF Serialize

(* A handler begins: nothing of it is left from another operation. *)
Begun(o, handler, s) ==
    [Top EXCEPT !.operation = o, !.handler = handler, !.interrupted = FALSE, !.at = s]

LEMMA BegunType ==
    ASSUME Inv, stack # <<>>, Top.at = "match", NEW o \in Operations,
           NEW handler \in Classes, NEW s \in Steps
    PROVE  LET f == Begun(o, handler, s)
           IN  /\ f \in Frames /\ f.at = s /\ f.operation = o /\ f.handler = handler
               /\ f.query = NoSettings /\ ~f.interrupted
               /\ f.request = Top.request
<1>1. Top \in Frames /\ Top.query = NoSettings
  BY StackFacts DEF Inv, SoundFrames, Sound
<1> QED
  BY <1>1 DEF Begun, Frames

LEMMA StartInv ==
    ASSUME Inv, stack # <<>>, pc \in {"run", "page"}, Top.at = "match", UNCHANGED calls,
           NEW o \in Operations, NEW handler \in Classes, Start(o, handler)
    PROVE  Inv'
<1>1. repository \in Repositories /\ Acquired(o) \in Repositories /\ status \in Codes
  BY OperationType DEF Inv, Typed
<1>2. ASSUME NEW s \in Steps
      PROVE  /\ Begun(o, handler, s) \in Frames /\ Begun(o, handler, s).at = s
             /\ Begun(o, handler, s).operation = o
             /\ Begun(o, handler, s).handler = handler
             /\ Begun(o, handler, s).query = NoSettings
  BY BegunType
<1>3. CASE handler = "Options"
  <2> DEFINE f == Begun(o, handler, "after")
  <2>1. /\ stack' = [stack EXCEPT ![Len(stack)] = f] /\ UNCHANGED <<pc, repository>>
        /\ \E code \in {status, 405} : SetStatus(code)
    BY <1>3 DEF Start, Begun
  <2>2. /\ f \in Frames /\ f.at = "after" /\ f.operation = o
        /\ f.handler = "Options" /\ f.query = NoSettings
    BY <1>2, <1>3 DEF Steps
  <2> HIDE DEF f
  <2>3. f \in SoundFrames /\ ~Needs(f) /\ f.handler \notin Creating
    BY <2>2 DEF SoundFrames, Sound, Needs, Creating
  <2>4. repository' \in Repositories /\ status' \in Codes
    BY <1>1, <2>1 DEF SetStatus, Codes
  <2>5. IF pc = "run" /\ Len(stack) = 1
          THEN status' = 201 <=> f.at = "after" /\ f.handler \in Creating
          ELSE status' = status
    <3>1. CASE pc = "run" /\ Len(stack) = 1
      <4>1. status # 201
        BY <3>1, NothingCreated
      <4>2. status' # 201
        BY <2>1, <3>1, <4>1 DEF SetStatus
      <4> QED
        BY <2>3, <3>1, <4>2
    <3>2. CASE ~(pc = "run" /\ Len(stack) = 1)
      BY <2>1, <3>2 DEF SetStatus
    <3> QED
      BY <3>1, <3>2
  <2> QED
    BY <2>1, <2>3, <2>4, <2>5, GoesOn
<1>4. CASE handler \in {"CollectionMethodNotAllowed", "ItemMethodNotAllowed"}
  <2>1. Throw(405) /\ repository' \in Repositories
    BY <1>1, <1>4 DEF Start
  <2> QED
    BY <2>1, Throws DEF Codes
<1>5. CASE handler = "Custom"
  <2> DEFINE f == Begun(o, handler, "custom")
  <2>1. /\ stack' = [stack EXCEPT ![Len(stack)] = f]
        /\ UNCHANGED <<pc, repository, status>>
    BY <1>5 DEF Start, Begun
  <2>2. /\ f \in Frames /\ f.at = "custom" /\ f.operation = o
        /\ f.handler = "Custom" /\ f.query = NoSettings
    BY <1>2, <1>5 DEF Steps
  <2> HIDE DEF f
  <2>3. f \in SoundFrames /\ ~Needs(f) /\ f.handler \notin Creating
    BY <2>2 DEF SoundFrames, Sound, Needs, Creating
  <2>4. repository' \in Repositories
    BY <1>1, <2>1
  <2> QED
    BY <2>1, <2>2, <2>3, <2>4, Advances
<1>6. CASE handler \in {"ItemGet", "ItemPut", "ItemPatch", "ItemDelete"}
  <2> DEFINE f == Begun(o, handler, "security")
  <2>1. /\ repository' = Acquired(o)
        /\ \/ Throw(404)
           \/ stack' = [stack EXCEPT ![Len(stack)] = f] /\ UNCHANGED <<pc, status>>
    BY <1>6 DEF Start, Begun
  <2>2. f \in Frames /\ f.at = "security" /\ f.operation = o /\ f.query = NoSettings
    BY <1>2 DEF Steps
  <2> HIDE DEF f
  <2>3. f \in SoundFrames
    BY <2>2 DEF SoundFrames, Sound
  <2>4. repository' \in Repositories /\ repository' = Acquired(f.operation)
    BY <1>1, <2>1, <2>2
  <2>5. CASE Throw(404)
    BY <2>4, <2>5, Throws DEF Codes
  <2>6. CASE stack' = [stack EXCEPT ![Len(stack)] = f] /\ UNCHANGED <<pc, status>>
    BY <2>2, <2>3, <2>4, <2>6, Advances
  <2> QED
    BY <2>1, <2>5, <2>6
<1>7. CASE handler \notin {"Options", "CollectionMethodNotAllowed", "ItemMethodNotAllowed",
                           "Custom", "ItemGet", "ItemPut", "ItemPatch", "ItemDelete"}
  <2> DEFINE f == Begun(o, handler, "security")
  <2>1. /\ stack' = [stack EXCEPT ![Len(stack)] = f]
        /\ UNCHANGED <<pc, repository, status>>
    BY <1>7 DEF Start, Begun
  <2>2. /\ f \in Frames /\ f.at = "security" /\ f.operation = o /\ f.query = NoSettings
        /\ f.handler = handler
    BY <1>2 DEF Steps
  <2> HIDE DEF f
  <2>3. f \in SoundFrames /\ ~Needs(f)
    BY <1>7, <2>2 DEF SoundFrames, Sound, Needs
  <2>4. repository' \in Repositories
    BY <1>1, <2>1
  <2> QED
    BY <2>1, <2>2, <2>3, <2>4, Advances
<1> QED
  BY <1>3, <1>4, <1>5, <1>6, <1>7

(* The operation that is chosen and the handler that serves it. *)
LEMMA MatchChoice ==
    ASSUME Match
    PROVE  \/ \E code \in {404, 500} : Throw(code) /\ UNCHANGED repository
           \/ \E o \in Operations, i \in DOMAIN Registered :
                /\ supports(Registered[i].class, o, Top.request.method)
                /\ \A j \in DOMAIN Registered \ {i} :
                     supports(Registered[j].class, o, Top.request.method) => SortedBefore(i, j)
                /\ Start(o, Registered[i].class)
<1> SUFFICES ASSUME ~ \E code \in {404, 500} : Throw(code) /\ UNCHANGED repository
             PROVE  \E o \in Operations, i \in DOMAIN Registered :
                      /\ supports(Registered[i].class, o, Top.request.method)
                      /\ \A j \in DOMAIN Registered \ {i} :
                           supports(Registered[j].class, o, Top.request.method)
                             => SortedBefore(i, j)
                      /\ Start(o, Registered[i].class)
  OBVIOUS
<1>1. PICK k \in DOMAIN Routes :
        \E i \in getHandlersSupportingOperation(Routes[k], Top.request.method) :
          /\ \A j \in getHandlersSupportingOperation(Routes[k], Top.request.method) \ {i} :
               SortedBefore(i, j)
          /\ Start(Routes[k], Registered[i].class)
  BY DEF Match
<1>2. Routes[k] \in Operations
  BY RouteType
<1> QED
  BY <1>1, <1>2 DEF getHandlersSupportingOperation

LEMMA MatchInv == Inv /\ Match => Inv'
<1> SUFFICES ASSUME Inv, Match PROVE Inv'
  OBVIOUS
<1>1. /\ stack # <<>> /\ pc \in {"run", "page"} /\ Top.at = "match" /\ UNCHANGED calls
  BY DEF Match
<1>2. ASSUME NEW code \in {404, 500}, Throw(code), UNCHANGED repository PROVE Inv'
  <2>1. repository' \in Repositories
    BY <1>2 DEF Inv, Typed
  <2> QED
    BY <1>1, <1>2, <2>1, Throws DEF Codes
<1>3. ASSUME NEW o \in Operations, NEW i \in DOMAIN Registered,
             Start(o, Registered[i].class)
      PROVE  Inv'
  <2>1. Registered[i].class \in Classes
    BY DEF Classes
  <2> QED
    BY <1>1, <1>3, <2>1, StartInv
<1> QED
  BY <1>2, <1>3, MatchChoice

LEMMA FinishPageInv == Inv /\ FinishPage => Inv'
<1> SUFFICES ASSUME Inv, FinishPage PROVE Inv'
  OBVIOUS
<1>1. /\ stack' = <<>> /\ pc' = "answered" /\ UNCHANGED <<calls, repository, status>>
  BY DEF FinishPage
<1>2. repository' \in Repositories /\ status' \in Codes
  BY <1>1 DEF Inv, Typed
<1> QED
  BY <1>1, <1>2, Empties

LEMMA FinishInv == Finish => Inv'
<1> SUFFICES ASSUME Finish PROVE Inv'
  OBVIOUS
<1>1. Init'
  BY DEF Finish, Init
<1> QED
  BY <1>1, InitInv, PTL

(* A listener of the innermost operation calls the dispatcher. *)
Interrupted == [Top EXCEPT !.interrupted = TRUE]

LEMMA Pushed ==
    ASSUME Typed, stack # <<>>, NEW q \in Requests,
           stack' = Append([stack EXCEPT ![Len(stack)].interrupted = TRUE], Frame(q))
    PROVE  /\ Interrupted \in SoundFrames /\ Interrupted.interrupted
           /\ Interrupted.at = Top.at /\ Interrupted.handler = Top.handler
           /\ Interrupted.request = Top.request
           /\ stack' \in Seq(SoundFrames) /\ stack' # <<>> /\ Len(stack') = Len(stack) + 1
           /\ \A i \in 1..Len(stack) :
                stack'[i] = IF i = Len(stack) THEN Interrupted ELSE stack[i]
           /\ stack'[Len(stack) + 1] = Frame(q)
<1> DEFINE s == [stack EXCEPT ![Len(stack)] = Interrupted]
<1>1. /\ Top \in Frames /\ Sound(Top) /\ stack \in Seq(SoundFrames)
      /\ Len(stack) \in 1..Len(stack)
  BY StackFacts DEF SoundFrames, Typed
<1>2. /\ Interrupted \in Frames /\ Interrupted.interrupted /\ Interrupted.at = Top.at
      /\ Interrupted.handler = Top.handler /\ Interrupted.operation = Top.operation
      /\ Interrupted.query = Top.query /\ Interrupted.request = Top.request
  BY <1>1 DEF Frames, Interrupted
<1>3. Interrupted \in SoundFrames
  BY <1>1, <1>2 DEF SoundFrames, Sound
<1>4. stack' = Append(s, Frame(q))
  BY DEF Top, Interrupted
<1>5. /\ s \in Seq(SoundFrames) /\ Len(s) = Len(stack)
      /\ \A i \in 1..Len(stack) : s[i] = IF i = Len(stack) THEN Interrupted ELSE stack[i]
  BY <1>1, <1>3, ExceptSeq
<1> HIDE DEF s
<1>6. Frame(q) \in SoundFrames
  BY FrameType
<1>7. /\ stack' \in Seq(SoundFrames) /\ stack' # <<>> /\ Len(stack') = Len(s) + 1
      /\ \A i \in 1..Len(s) : stack'[i] = s[i]
      /\ stack'[Len(s) + 1] = Frame(q)
  <2> DEFINE e == Frame(q)
  <2> HIDE DEF e
  <2>1. s \in Seq(SoundFrames) /\ e \in SoundFrames
    BY <1>5, <1>6 DEF e
  <2>2. /\ Append(s, e) \in Seq(SoundFrames) /\ Append(s, e) # <<>>
        /\ Len(Append(s, e)) = Len(s) + 1
        /\ \A i \in 1..Len(s) : Append(s, e)[i] = s[i]
        /\ Append(s, e)[Len(s) + 1] = e
    BY <2>1, AppendProperties
  <2>3. stack' = Append(s, e)
    BY <1>4 DEF e
  <2> QED
    BY <2>2, <2>3 DEF e
<1> QED
  BY <1>2, <1>3, <1>5, <1>7

LEMMA HeadlessInv == Inv /\ Headless => Inv'
<1> SUFFICES ASSUME Inv, Headless PROVE Inv'
  OBVIOUS
<1>1. /\ pc \in {"run", "page"} /\ UNCHANGED <<pc, repository, status>> /\ calls' = calls + 1
      /\ calls < IF pc = "page" THEN MaxCalls + 1 ELSE MaxCalls
  BY DEF Headless
<1>2. calls \in Nat /\ MaxCalls \in Nat /\ calls' \in 0 .. MaxCalls + 1
      /\ (pc = "run" => calls' <= MaxCalls)
  BY <1>1, DispatchAssumption DEF Inv, Typed
<1>3. PICK q \in Requests :
        stack' = IF stack = <<>> THEN <<Frame(q)>>
                 ELSE Append([stack EXCEPT ![Len(stack)].interrupted = TRUE], Frame(q))
  BY DEF Headless
<1>4. Frame(q) \in SoundFrames /\ Frame(q).at = "match" /\ ~Needs(Frame(q))
  BY FrameType DEF Frame, Needs
<1>5. CASE stack = <<>>
  <2>1. pc = "page"
    BY <1>5 DEF Headless
  <2>2. stack' = <<Frame(q)>>
    BY <1>3, <1>5
  <2>3. stack' \in Seq(SoundFrames) /\ Len(stack') = 1 /\ stack'[1] = Frame(q)
    BY <1>4, <2>2
  <2>4. Typed'
    BY <1>1, <1>2, <2>3 DEF Inv, Typed
  <2>5. Depth'
    BY <1>1, <1>2, <2>1, <2>3 DEF Depth
  <2>6. Below'
    <3>1. \A n \in {1} : 1 .. n - 1 = {}
      OBVIOUS
    <3> QED
      BY <2>3, <3>1 DEF Below
  <2>7. Own'
    BY <1>4, <2>3 DEF Own, Top, Needs
  <2>8. Created'
    BY <1>1, <2>1 DEF Created, CreatedMeansCreated
  <2> QED
    BY <2>4, <2>5, <2>6, <2>7, <2>8 DEF Inv
<1>6. CASE stack # <<>>
  <2>1. Top.at \in {"security", "filters", "deserialize", "after"}
    BY <1>6 DEF Headless
  <2>2. Len(stack) \in Nat /\ Len(stack) >= 1
    BY <1>6, StackFacts DEF Inv
  <2>3. /\ Interrupted.interrupted /\ Interrupted.at = Top.at
        /\ Interrupted.handler = Top.handler
        /\ stack' \in Seq(SoundFrames) /\ stack' # <<>> /\ Len(stack') = Len(stack) + 1
        /\ \A i \in 1..Len(stack) :
             stack'[i] = IF i = Len(stack) THEN Interrupted ELSE stack[i]
        /\ stack'[Len(stack) + 1] = Frame(q)
    BY <1>3, <1>6, Pushed DEF Inv
  <2>4. Typed'
    BY <1>1, <1>2, <2>3 DEF Inv, Typed
  <2>5. Depth'
    BY <1>1, <1>2, <2>2, <2>3 DEF Inv, Depth
  <2>6. Below'
    <3>1. ASSUME NEW i \in 1..Len(stack)
          PROVE  stack'[i].interrupted
                 /\ stack'[i].at \in {"security", "filters", "deserialize", "after"}
      <4>1. CASE i = Len(stack)
        BY <2>1, <2>3, <4>1
      <4>2. CASE i # Len(stack)
        <5>1. i \in 1 .. Len(stack) - 1
          BY <2>2, <4>2
        <5> QED
          BY <2>3, <4>2, <5>1 DEF Inv, Below
      <4> QED
        BY <4>1, <4>2
    <3>2. Len(stack') - 1 = Len(stack)
      BY <2>2, <2>3
    <3> QED
      BY <3>1, <3>2 DEF Below
  <2>7. Own'
    <3>1. Top' = Frame(q)
      BY <2>3 DEF Top
    <3> QED
      BY <1>4, <3>1 DEF Own, Needs
  <2>8. Created'
    <3>1. stack'[1].at = stack[1].at /\ stack'[1].handler = stack[1].handler
      <4>1. 1 \in 1..Len(stack)
        BY <2>2
      <4> QED
        BY <2>3, <4>1 DEF Top
    <3> QED
      BY <1>1, <3>1 DEF Inv, Created, CreatedMeansCreated
  <2> QED
    BY <2>4, <2>5, <2>6, <2>7, <2>8 DEF Inv
<1> QED
  BY <1>5, <1>6

LEMMA NextInv == Inv /\ [Next]_vars => Inv'
<1> SUFFICES ASSUME Inv, [Next]_vars PROVE Inv'
  OBVIOUS
<1>1. CASE UNCHANGED vars
  BY <1>1 DEF vars, Inv, Typed, Depth, Below, Own, Created, CreatedMeansCreated, Top
<1>2. CASE Next
  BY <1>2, ReceiveInv, ResolveLanguageInv, MatchInv, CustomInv, SecurityInv, CreateQueryInv,
     FilterInv, StoreInv, SerializeInv, FinishPageInv, HeadlessInv, FinishInv
  DEF Next, Step
<1> QED
  BY <1>1, <1>2

LEMMA Invariant == Spec => []Inv
  BY InitInv, NextInv, PTL DEF Spec

-----------------------------------------------------------------------------
(* The language *)

Languaged ==
    /\ url \in Languages
    /\ header \in Languages \cup {NoLanguage, Unknown}
    /\ language \in Languages
    /\ pc = "run" => language = IF header \in Languages THEN header ELSE url
    /\ pc = "middleware" => language = url

LEMMA NextLanguaged == Inv /\ Languaged /\ [Next]_vars => Languaged'
<1> SUFFICES ASSUME Inv, Languaged, [Next]_vars PROVE Languaged'
  OBVIOUS
<1>1. CASE UNCHANGED vars
  BY <1>1 DEF vars, Languaged
<1>2. CASE Receive
  BY <1>2 DEF Receive, Languaged
<1>3. CASE ResolveLanguage
  BY <1>3 DEF ResolveLanguage, Languaged
<1>4. CASE Finish
  BY <1>4, DispatchAssumption DEF Finish, Languaged
<1>5. ASSUME UNCHANGED locale, pc' = pc \/ pc' \in {"answered", "uncaught"} PROVE Languaged'
  BY <1>5 DEF Languaged, locale
<1>6. CASE Match
  <2>1. ASSUME NEW o \in Operations, NEW h, Start(o, h)
        PROVE  pc' = pc \/ pc' \in {"answered", "uncaught"}
    BY <2>1 DEF Start, Throw
  <2>2. ASSUME NEW code \in {404, 500}, Throw(code)
        PROVE  pc' = pc \/ pc' \in {"answered", "uncaught"}
    BY <2>2 DEF Throw
  <2>3. pc' = pc \/ pc' \in {"answered", "uncaught"}
    BY <1>6, <2>1, <2>2, MatchChoice
  <2> QED
    BY <1>5, <1>6, <2>3 DEF Match
<1>7. CASE Custom \/ Security \/ Filter \/ Store \/ Serialize
  <2>1. ASSUME NEW code, Throw(code) PROVE pc' = pc \/ pc' \in {"answered", "uncaught"}
    BY <2>1 DEF Throw
  <2>2. UNCHANGED locale
    BY <1>7 DEF Custom, Security, Filter, Store, Serialize
  <2>3. pc' = pc \/ pc' \in {"answered", "uncaught"}
    BY <1>7, <2>1 DEF Custom, Security, Filter, Store, Serialize, Return
  <2> QED
    BY <1>5, <2>2, <2>3
<1>8. CASE CreateQuery \/ Headless \/ FinishPage
  <2>1. UNCHANGED locale /\ (pc' = pc \/ pc' \in {"answered", "uncaught"})
    BY <1>8 DEF CreateQuery, Headless, FinishPage
  <2> QED
    BY <1>5, <2>1
<1> QED
  BY <1>1, <1>2, <1>3, <1>4, <1>6, <1>7, <1>8 DEF Next, Step

LEMMA LanguageInvariant == Spec => []Languaged
<1>1. Init => Languaged
  BY DispatchAssumption DEF Init, Languaged
<1> QED
  BY <1>1, Invariant, NextLanguaged, PTL DEF Spec

-----------------------------------------------------------------------------
(* What is written *)

Written(pid) ==
    [operation |-> Top.operation, method |-> Top.request.method, pid |-> pid,
     interrupted |-> Top.interrupted]

(* Only operations that are past their access check, or in their handler's last
   step, write. *)
LEMMA WritesOf ==
    ASSUME [Next]_vars
    PROVE  \/ writes' = writes
           \/ writes' = {}
           \/ stack # <<>> /\ Top.at \in {"security", "deserialize"}
                /\ writes' = writes \cup {Written(Nowhere)}
           \/ stack # <<>> /\ Top.at = "deserialize"
                /\ writes' = writes \cup {Written(AddedPid(Top.request.pid))}
<1>1. CASE Security
  BY <1>1 DEF Security, Write, Written, At
<1>2. CASE Store
  BY <1>2 DEF Store, Write, Written, At
<1>3. CASE Receive \/ ResolveLanguage \/ Match \/ Custom \/ CreateQuery \/ Filter
           \/ Serialize \/ FinishPage \/ Headless \/ Finish \/ UNCHANGED vars
  BY <1>3 DEF Receive, ResolveLanguage, Match, Custom, CreateQuery, Filter, Serialize,
     FinishPage, Headless, Finish, vars
<1> QED
  BY <1>1, <1>2, <1>3 DEF Next, Step

(* The page an object is added to with its own operation's settings. *)
LEMMA OwnPage ==
    ASSUME NEW o \in Operations, repository = Acquired(o), NEW pid \in Nat,
           NEW x, x.operation = o, x.pid = AddedPid(pid), x.pid # Nowhere
    PROVE  OwnPid(x)
<1>1. o.main \in o.pages \/ o.main = 0
  BY OperationType
<1>2. /\ repository.pages = o.pages /\ repository.operation = o /\ o.main \in Nat
  BY OperationType
<1>3. CASE pid = 0 /\ o.main > 0
  BY <1>1, <1>2, <1>3 DEF AddedPid, OwnPid
<1>4. CASE pid = 0 /\ ~(o.main > 0)
  <2>1. o.main = 0 /\ x.pid = 0
    BY <1>2, <1>4 DEF AddedPid
  <2> QED
    BY <2>1 DEF OwnPid
<1>5. CASE pid > 0
  BY <1>2, <1>5 DEF AddedPid, OwnPid
<1> QED
  BY <1>3, <1>4, <1>5

LEMMA NextWrites ==
    Inv /\ AddsOwnUnlessInterrupted /\ [Next]_vars => AddsOwnUnlessInterrupted'
<1> SUFFICES ASSUME Inv, AddsOwnUnlessInterrupted, [Next]_vars
             PROVE  AddsOwnUnlessInterrupted'
  OBVIOUS
<1>1. ASSUME stack # <<>>, Top.at = "deserialize",
             writes' = writes \cup {Written(AddedPid(Top.request.pid))}
      PROVE  AddsOwnUnlessInterrupted'
  <2> DEFINE x == Written(AddedPid(Top.request.pid))
  <2>1. Top \in Frames /\ Sound(Top)
    BY <1>1, StackFacts DEF Inv, SoundFrames
  <2>2. Top.operation \in Operations /\ Top.request.pid \in Nat
    <3>1. Top.request.pid \in Pids
      BY <2>1 DEF Frames, Requests
    <3>2. ASSUME NEW o \in Operations PROVE o.pages \subseteq Nat
      BY OperationType
    <3>3. Pids \subseteq Nat
      BY <3>2 DEF Pids
    <3>4. Top.operation \in Operations
      BY <1>1, <2>1 DEF Sound
    <3> QED
      BY <3>1, <3>3, <3>4
  <2>3. /\ x.operation = Top.operation /\ x.interrupted = Top.interrupted
        /\ x.pid = AddedPid(Top.request.pid)
    BY DEF Written
  <2> HIDE DEF x
  <2>4. ASSUME x.pid # Nowhere, ~x.interrupted PROVE OwnPid(x)
    <3>1. repository = Acquired(Top.operation)
      BY <1>1, <2>3, <2>4 DEF Inv, Own, Needs
    <3> QED
      BY <2>2, <2>3, <2>4, <3>1, OwnPage
  <2>5. writes' = writes \cup {x}
    BY <1>1 DEF x
  <2> QED
    BY <2>4, <2>5 DEF AddsOwnUnlessInterrupted, OwnPid
<1>2. ASSUME writes' = writes \cup {Written(Nowhere)} PROVE AddsOwnUnlessInterrupted'
  BY <1>2 DEF AddsOwnUnlessInterrupted, Written, OwnPid
<1>3. ASSUME writes' \in {writes, {}} PROVE AddsOwnUnlessInterrupted'
  BY <1>3 DEF AddsOwnUnlessInterrupted, OwnPid
<1> QED
  BY <1>1, <1>2, <1>3, WritesOf

-----------------------------------------------------------------------------
(* Preflights *)

(* OptionsOperationHandler comes before every other registered handler. *)
OptionsFirst ==
    \E i \in DOMAIN Registered :
        /\ Registered[i].class = "Options"
        /\ \A j \in DOMAIN Registered \ {i} : SortedBefore(i, j)

(* A preflight is matched, and then at its end. *)
Passes(f) == f.request.method = "OPTIONS" => f.at \in {"match", "after"}

Preflights == \A i \in 1..Len(stack) : Passes(stack[i])

LEMMA PreflightServed ==
    ASSUME OptionsFirst, NEW o, NEW i \in DOMAIN Registered,
           \A j \in DOMAIN Registered \ {i} :
             supports(Registered[j].class, o, "OPTIONS") => SortedBefore(i, j)
    PROVE  Registered[i].class = "Options"
<1>1. PICK k \in DOMAIN Registered :
        /\ Registered[k].class = "Options"
        /\ \A j \in DOMAIN Registered \ {k} : SortedBefore(k, j)
  BY DEF OptionsFirst
<1>2. supports(Registered[k].class, o, "OPTIONS")
  BY <1>1 DEF supports
<1>3. CASE i = k
  BY <1>1, <1>3
<1>4. CASE i # k
  <2>1. SortedBefore(i, k) /\ SortedBefore(k, i)
    BY <1>1, <1>2, <1>4
  <2>2. /\ i \in Nat /\ k \in Nat
        /\ Registered[i].priority \in Int /\ Registered[k].priority \in Int
    BY DispatchAssumption
  <2> QED
    BY <2>1, <2>2 DEF SortedBefore
<1> QED
  BY <1>3, <1>4

LEMMA TopPasses ==
    ASSUME Inv, Preflights, stack # <<>>
    PROVE  Passes(Top) /\ Top \in Frames /\ Len(stack) \in 1..Len(stack)
<1>1. Len(stack) \in 1..Len(stack) /\ Top \in Frames
  BY StackFacts DEF Inv, SoundFrames
<1> QED
  BY <1>1 DEF Preflights, Top

(* The ways the stack changes, and preflights pass. *)
LEMMA PassesReplaced ==
    ASSUME Inv, Preflights, stack # <<>>, NEW f, Passes(f),
           stack' = [stack EXCEPT ![Len(stack)] = f], Len(stack') = Len(stack)
    PROVE  Preflights'
<1>1. stack \in Seq(SoundFrames) /\ DOMAIN stack = 1..Len(stack)
  BY LenProperties DEF Inv, Typed
<1>2. \A i \in 1..Len(stack) : stack'[i] = IF i = Len(stack) THEN f ELSE stack[i]
  BY <1>1
<1> QED
  BY <1>2 DEF Preflights, Passes

LEMMA PassesThrow ==
    ASSUME Inv, Preflights, NEW code, Throw(code) PROVE Preflights'
<1>1. ASSUME NEW d \in 1 .. Len(stack) - 1, stack' = SubSeq(stack, 1, d) PROVE Preflights'
  <2>1. Len(stack') = d /\ \A i \in 1..d : stack'[i] = stack[i]
    BY <1>1, Shortened DEF Inv
  <2>2. 1..d \subseteq 1..Len(stack)
    BY StackFacts DEF Inv
  <2> QED
    BY <2>1, <2>2 DEF Preflights, Passes
<1>2. ASSUME stack' = <<>> PROVE Preflights'
  <2>1. Len(stack') = 0
    BY <1>2
  <2> QED
    BY <2>1 DEF Preflights
<1> QED
  BY <1>1, <1>2 DEF Throw

LEMMA SameLength ==
    ASSUME Inv, Inv', stack # <<>>, NEW f, stack' = [stack EXCEPT ![Len(stack)] = f]
    PROVE  Len(stack') = Len(stack)
<1>1. stack \in Seq(SoundFrames) /\ stack' \in Seq(SoundFrames)
  BY DEF Inv, Typed
<1>2. DOMAIN stack' = DOMAIN stack
  OBVIOUS
<1>3. Len(stack) \in Nat /\ DOMAIN stack = 1..Len(stack)
  BY <1>1, LenProperties
<1>4. Len(stack') \in Nat /\ DOMAIN stack' = 1..Len(stack')
  BY <1>1, LenProperties
<1>5. \A m, n \in Nat : 1..m = 1..n => m = n
  <2> SUFFICES ASSUME NEW m \in Nat, NEW n \in Nat, 1..m = 1..n PROVE m = n
    OBVIOUS
  <2>1. m > 0 => m \in 1..n
    OBVIOUS
  <2>2. n > 0 => n \in 1..m
    OBVIOUS
  <2> QED
    BY <2>1, <2>2
<1> QED
  BY <1>2, <1>3, <1>4, <1>5

(* The innermost operation goes on, and is no preflight unless it is at its end. *)
LEMMA PassesOn ==
    ASSUME Inv, Inv', Preflights, stack # <<>>, NEW f, Passes(f),
           stack' = [stack EXCEPT ![Len(stack)] = f]
    PROVE  Preflights'
BY SameLength, PassesReplaced

(* Between the match and the end there is no preflight. *)
LEMMA NoPreflight ==
    ASSUME Inv, Preflights, stack # <<>>, Top.at \notin {"match", "after"}
    PROVE  Top.request.method # "OPTIONS"
BY TopPasses DEF Passes

LEMMA GotoPasses ==
    ASSUME Inv, Inv', Preflights, stack # <<>>, Top.at \notin {"match", "after"},
           NEW s \in Steps, Goto(s)
    PROVE  Preflights'
<1>1. /\ stack' = [stack EXCEPT ![Len(stack)] = MovedTo(s)]
      /\ MovedTo(s).request = Top.request
  BY GotoTop
<1>2. Passes(MovedTo(s))
  BY <1>1, NoPreflight DEF Passes
<1> QED
  BY <1>1, <1>2, PassesOn

LEMMA StartPasses ==
    ASSUME Inv, Inv', Preflights, stack # <<>>, Top.at = "match",
           NEW o \in Operations, NEW handler \in Classes, Start(o, handler),
           Top.request.method = "OPTIONS" => handler = "Options"
    PROVE  Preflights'
<1>1. ASSUME NEW s \in Steps, stack' = [stack EXCEPT ![Len(stack)] = Begun(o, handler, s)],
             handler = "Options" => s = "after"
      PROVE  Preflights'
  <2> DEFINE f == Begun(o, handler, s)
  <2>1. f.at = s /\ f.request = Top.request
    BY BegunType
  <2> HIDE DEF f
  <2>2. Passes(f)
    BY <1>1, <2>1 DEF Passes
  <2>3. stack' = [stack EXCEPT ![Len(stack)] = f]
    BY <1>1 DEF f
  <2> QED
    BY <2>2, <2>3, PassesOn
<1>2. \/ \E code : Throw(code)
      \/ stack' = [stack EXCEPT ![Len(stack)] = Begun(o, handler, "after")]
      \/ /\ handler # "Options"
         /\ \/ stack' = [stack EXCEPT ![Len(stack)] = Begun(o, handler, "custom")]
            \/ stack' = [stack EXCEPT ![Len(stack)] = Begun(o, handler, "security")]
  BY DEF Start, Begun
<1> QED
  BY <1>1, <1>2, PassesThrow DEF Steps

LEMMA MatchPasses ==
    ASSUME Inv, Inv', Preflights, OptionsFirst, Match PROVE Preflights'
<1>1. stack # <<>> /\ Top.at = "match"
  BY DEF Match
<1>2. ASSUME NEW o \in Operations, NEW i \in DOMAIN Registered,
             \A j \in DOMAIN Registered \ {i} :
               supports(Registered[j].class, o, Top.request.method) => SortedBefore(i, j),
             Start(o, Registered[i].class)
      PROVE  Preflights'
  <2>1. Top.request.method = "OPTIONS" => Registered[i].class = "Options"
    BY <1>2, PreflightServed
  <2>2. Registered[i].class \in Classes
    BY DEF Classes
  <2> QED
    BY <1>1, <1>2, <2>1, <2>2, StartPasses
<1> QED
  BY <1>2, MatchChoice, PassesThrow

(* A new operation is to be matched. *)
LEMMA FramePasses == \A q : Passes(Frame(q))
  BY DEF Passes, Frame

LEMMA SinglePasses ==
    ASSUME NEW q, stack' = <<Frame(q)>> PROVE Preflights'
<1>1. Len(stack') = 1 /\ stack'[1] = Frame(q)
  OBVIOUS
<1> QED
  BY <1>1, FramePasses DEF Preflights, Passes

LEMMA EmptyPasses ==
    ASSUME stack' = <<>> PROVE Preflights'
<1>1. Len(stack') = 0
  OBVIOUS
<1> QED
  BY <1>1 DEF Preflights

LEMMA HeadlessPasses ==
    ASSUME Inv, Preflights, Headless PROVE Preflights'
<1>1. PICK q \in Requests :
        stack' = IF stack = <<>> THEN <<Frame(q)>>
                 ELSE Append([stack EXCEPT ![Len(stack)].interrupted = TRUE], Frame(q))
  BY DEF Headless
<1>2. CASE stack = <<>>
  BY <1>1, <1>2, SinglePasses
<1>3. CASE stack # <<>>
  <2>1. /\ Interrupted.at = Top.at /\ Interrupted.request = Top.request
        /\ Len(stack') = Len(stack) + 1
        /\ \A i \in 1..Len(stack) :
             stack'[i] = IF i = Len(stack) THEN Interrupted ELSE stack[i]
        /\ stack'[Len(stack) + 1] = Frame(q)
    BY <1>1, <1>3, Pushed DEF Inv
  <2>2. Passes(Interrupted) /\ Passes(Frame(q))
    BY <1>3, <2>1, TopPasses, FramePasses DEF Passes
  <2>3. Len(stack) \in Nat
    BY StackFacts DEF Inv
  <2>4. ASSUME NEW i \in 1..Len(stack') PROVE Passes(stack'[i])
    <3>1. i \in 1..Len(stack) \/ i = Len(stack) + 1
      BY <2>1, <2>3
    <3> QED
      BY <2>1, <2>2, <3>1 DEF Preflights
  <2> QED
    BY <2>4 DEF Preflights, Passes
<1> QED
  BY <1>2, <1>3

LEMMA SerializePasses ==
    ASSUME Inv, Preflights, Serialize PROVE Preflights'
<1>1. stack # <<>> /\ Len(stack) \in Nat /\ Len(stack) >= 1
  BY StackFacts DEF Serialize, At, Inv
<1>2. ASSUME stack' = SubSeq(stack, 1, Len(stack) - 1) PROVE Preflights'
  <2>1. CASE Len(stack) = 1
    <3>1. stack' = <<>>
      <4>1. SubSeq(stack, 1, 0) = <<>>
        BY SubSeqEmpty
      <4> QED
        BY <1>2, <2>1, <4>1
    <3> QED
      BY <3>1, EmptyPasses
  <2>2. CASE Len(stack) # 1
    <3> DEFINE d == Len(stack) - 1
    <3>1. \A n \in Nat : n >= 1 /\ n # 1 => n - 1 \in 1 .. n - 1 /\ 1 .. n - 1 \subseteq 1..n
      OBVIOUS
    <3>2. d \in 1 .. Len(stack) - 1 /\ 1..d \subseteq 1..Len(stack)
      BY <1>1, <2>2, <3>1
    <3>3. Len(stack') = d /\ \A i \in 1..d : stack'[i] = stack[i]
      BY <1>2, <3>2, Shortened DEF Inv
    <3> QED
      BY <3>2, <3>3 DEF Preflights, Passes
  <2> QED
    BY <2>1, <2>2
<1> QED
  BY <1>2, PassesThrow DEF Serialize, Return, Front

LEMMA NextPreflights ==
    ASSUME OptionsFirst, Inv, Inv', Preflights, [Next]_vars PROVE Preflights'
<1>1. CASE UNCHANGED stack
  BY <1>1 DEF Preflights, Passes
<1>2. CASE Receive
  BY <1>2, SinglePasses, EmptyPasses DEF Receive
<1>3. CASE ResolveLanguage
  BY <1>1, <1>3, EmptyPasses DEF ResolveLanguage
<1>4. CASE Custom
  <2>1. stack # <<>> /\ Top.at = "custom"
    BY <1>4 DEF Custom, At
  <2>2. CASE MatchNext
    <3> DEFINE f == [Top EXCEPT !.at = "match", !.next = Top.operation.resource + 1]
    <3>1. f.at = "match"
      BY <2>1, TopPasses DEF Frames
    <3>2. stack' = [stack EXCEPT ![Len(stack)] = f]
      BY <2>2 DEF MatchNext, Top
    <3> HIDE DEF f
    <3>3. Passes(f)
      BY <3>1 DEF Passes
    <3> QED
      BY <2>1, <3>2, <3>3, PassesOn
  <2> QED
    BY <1>4, <2>1, <2>2, GotoPasses, PassesThrow DEF Custom, Steps
<1>5. CASE Security
  <2>1. stack # <<>> /\ Top.at = "security"
    BY <1>5 DEF Security, At
  <2>2. CASE stack' = [stack EXCEPT ![Len(stack)].at = "deserialize",
                                    ![Len(stack)].interrupted = FALSE]
    <3> DEFINE f == [Top EXCEPT !.at = "deserialize", !.interrupted = FALSE]
    <3>1. f.request = Top.request
      BY <2>1, TopPasses DEF Frames
    <3>2. stack' = [stack EXCEPT ![Len(stack)] = f]
      BY <2>2 DEF Top
    <3> HIDE DEF f
    <3>3. Passes(f)
      BY <2>1, <3>1, NoPreflight DEF Passes
    <3> QED
      BY <2>1, <3>2, <3>3, PassesOn
  <2>3. \/ \E code : Throw(code)
        \/ \E s \in {"after", "deserialize", "query"} : Goto(s)
        \/ stack' = [stack EXCEPT ![Len(stack)].at = "deserialize",
                                  ![Len(stack)].interrupted = FALSE]
    BY <1>5 DEF Security
  <2> QED
    BY <2>1, <2>2, <2>3, GotoPasses, PassesThrow DEF Steps
<1>6. CASE CreateQuery
  <2> DEFINE f == [Top EXCEPT !.at = "filters",
                              !.query = [entity |-> repository.entity,
                                         pages |-> repository.pages]]
  <2>1. stack # <<>> /\ Top.at = "query"
    BY <1>6 DEF CreateQuery, At
  <2>2. f.request = Top.request
    BY <2>1, TopPasses DEF Frames
  <2>3. stack' = [stack EXCEPT ![Len(stack)] = f]
    BY <1>6 DEF CreateQuery, Top
  <2> HIDE DEF f
  <2>4. Passes(f)
    BY <2>1, <2>2, NoPreflight DEF Passes
  <2> QED
    BY <2>1, <2>3, <2>4, PassesOn
<1>7. CASE Filter \/ Store
  <2>1. stack # <<>> /\ Top.at \in {"filters", "deserialize"}
    BY <1>7 DEF Filter, Store, At
  <2>2. (\E code : Throw(code)) \/ Goto("after")
    BY <1>7 DEF Filter, Store
  <2> QED
    BY <2>1, <2>2, GotoPasses, PassesThrow DEF Steps
<1>8. CASE FinishPage \/ Finish \/ UNCHANGED vars
  BY <1>1, <1>8, EmptyPasses DEF FinishPage, Finish, vars
<1> QED
  BY <1>2, <1>3, <1>4, <1>5, <1>6, <1>7, <1>8, MatchPasses, HeadlessPasses, SerializePasses
  DEF Next, Step

LEMMA NextPreflightWrites ==
    ASSUME Inv, Preflights, PreflightChangesNothing, [Next]_vars
    PROVE  PreflightChangesNothing'
<1>1. ASSUME NEW pid, stack # <<>>, Top.at \in {"security", "deserialize"},
             writes' = writes \cup {Written(pid)}
      PROVE  PreflightChangesNothing'
  <2>1. Written(pid).method # "OPTIONS"
    BY <1>1, NoPreflight DEF Written
  <2> QED
    BY <1>1, <2>1 DEF PreflightChangesNothing
<1> QED
  BY <1>1, WritesOf DEF PreflightChangesNothing

-----------------------------------------------------------------------------
(* What is promised *)

(* Type correctness, and that no more operations are on the stack than have been
   called, nor any once the process has answered: HeadlessDispatcher and
   Bootstrap::process leave nothing behind, whichever handler or listener throws. *)
THEOREM TypeCorrect == Spec => []TypeOK
<1>1. ASSUME Inv, Languaged PROVE TypeOK
  <2>1. Len(stack) <= MaxCalls + 1
    <3>1. calls \in Nat /\ calls <= MaxCalls + 1 /\ MaxCalls \in Nat /\ Len(stack) \in Nat
      BY <1>1, StackFacts, DispatchAssumption DEF Inv, Typed
    <3>2. stack = <<>> => Len(stack) = 0
      OBVIOUS
    <3>3. \/ Len(stack) = 0
          \/ Len(stack) = 1
          \/ Len(stack) <= calls
          \/ Len(stack) <= calls + 1 /\ calls <= MaxCalls
      BY <1>1, <3>2 DEF Inv, Typed, Depth
    <3>4. \A n, c, m \in Nat :
            n = 0 \/ n = 1 \/ (n <= c /\ c <= m + 1) \/ (n <= c + 1 /\ c <= m) => n <= m + 1
      OBVIOUS
    <3> QED
      BY <3>1, <3>3, <3>4
  <2>2. ASSUME NEW i \in DOMAIN stack
        PROVE  /\ stack[i].request \in Requests
               /\ stack[i].operation \in Operations \cup {NoOperation}
               /\ stack[i].query \in {Settings(o) : o \in Operations} \cup {NoSettings}
               /\ stack[i].at \in {"match", "custom", "security", "query", "filters",
                                  "deserialize", "after"}
    <3>1. stack[i] \in Frames
      BY <1>1 DEF Inv, Typed, SoundFrames
    <3> QED
      BY <3>1 DEF Frames, Steps
  <2>3. repository.operation \in Operations \cup {NoOperation}
    BY <1>1 DEF Inv, Typed, Repositories, Acquired
  <2>4. /\ pc \in {"idle", "middleware", "run", "page", "answered", "uncaught"}
        /\ pc \in {"idle", "answered", "uncaught"} => stack = <<>>
        /\ status \in {200, 201, 400, 403, 404, 405, 500}
        /\ calls \in 0 .. MaxCalls + 1
    BY <1>1 DEF Inv, Typed, Depth, Codes
  <2>5. url \in Languages /\ header \in Languages \cup {NoLanguage, Unknown}
        /\ language \in Languages
    BY <1>1 DEF Languaged
  <2> QED
    BY <2>1, <2>2, <2>3, <2>4, <2>5 DEF TypeOK
<1> QED
  BY <1>1, Invariant, LanguageInvariant, PTL

(* CollectionGetOperationHandler queries the entity and the storage pages of its
   own operation, for any number of operations that run inside each other on the
   one repository. *)
THEOREM QueriesOwnSettings == Spec => []QueriesOwn
<1>1. ASSUME Inv PROVE QueriesOwn
  <2>1. ASSUME NEW i \in DOMAIN stack PROVE Sound(stack[i])
    BY <1>1 DEF Inv, Typed, SoundFrames
  <2> QED
    BY <2>1 DEF QueriesOwn, Sound
<1> QED
  BY <1>1, Invariant, PTL

(* CommonRepository::add puts an object on a page of its own operation unless a
   listener ran another operation since the handler took the repository. *)
THEOREM AddsInOwnPages == Spec => []AddsOwnUnlessInterrupted
<1>1. Init => AddsOwnUnlessInterrupted
  BY DEF Init, AddsOwnUnlessInterrupted
<1> QED
  BY <1>1, Invariant, NextWrites, PTL DEF Spec

(* The response of the process says 201 exactly if its own operation has created
   something: no headless call answers for it. *)
THEOREM CreatedTellsTruth == Spec => []CreatedMeansCreated
<1>1. Inv => CreatedMeansCreated
  BY DEF Inv, Created
<1> QED
  BY <1>1, Invariant, PTL

(* Both documented ways to a language lead to the routes, in that language, for
   any set of languages. *)
THEOREM LanguageDocumented == Spec => []LanguageServed
<1>1. Languaged => LanguageServed
  BY DispatchAssumption DEF Languaged, LanguageServed, Prefixed, getLanguageBasePath
<1> QED
  BY <1>1, LanguageInvariant, PTL

(* A preflight writes nothing if OptionsOperationHandler is the first of the
   registered handlers, for any other handlers and any depth of operations. *)
THEOREM PreflightIsHarmless ==
    ASSUME OptionsFirst PROVE Spec => []PreflightChangesNothing
<1>1. Init => Preflights /\ PreflightChangesNothing
  <2>1. Init => Len(stack) = 0
    BY DEF Init
  <2> QED
    BY <2>1 DEF Init, Preflights, PreflightChangesNothing
<1>2. Inv /\ Inv' /\ Preflights /\ [Next]_vars => Preflights'
  BY NextPreflights
<1>3. Inv /\ Preflights /\ PreflightChangesNothing /\ [Next]_vars => PreflightChangesNothing'
  BY NextPreflightWrites
<1> QED
  BY <1>1, <1>2, <1>3, Invariant, PTL DEF Spec
=================================================================================
