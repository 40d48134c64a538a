------------------------- MODULE SerializerMetadataProofs -------------------------
(***************************************************************************)
(* Proofs about SerializerMetadata, for any processes, classes, hierarchies *)
(* and number of deployments: the type invariant, that a file stands for   *)
(* its hierarchy, that no fallback is cached, and that nothing of old code  *)
(* outlives a flush which overlaps no request.                             *)
(***************************************************************************)
EXTENDS SerializerMetadata, TLAPS

(* Where a process is in the hierarchy of its class. *)
Walking == {"generate", "write", "rename", "read", "put"}

Place ==
    \A p \in Processes :
        /\ pc[p] \in {"off", "ready"} => index[p] = 1
        /\ pc[p] = "off" => generated[p] = {}
        /\ pc[p] \in Walking =>
             class[p] \in Classes /\ index[p] \in 1..(Len(Ancestry[class[p]]) + 1)
        /\ pc[p] \in {"write", "rename", "put"} => index[p] \in 1..Len(Ancestry[class[p]])
        /\ pc[p] = "put" => held[p] # Missing

(* Of a class that c is in the hierarchy of ... *)
Done(S, c, n) == \A i \in 1..n : getClassHierarchy(c)[i] \in S

(* ... the files there are, written to their end. *)
Written == {c \in Classes : yml[c] \in Versions}

(* While no flush has overlapped a request: no flush is under way where a
   process is alive, what a process has generated or passed in the hierarchy is
   written, and what it is to cache was read from a file. *)
Calm(p) ==
    /\ pc[p] # "off" => flush = "none" /\ metadir
    /\ generated[p] \subseteq Written
    /\ pc[p] \in {"generate", "write", "rename"} => Done(Written, class[p], index[p] - 1)
    /\ pc[p] \in {"read", "put"} => yml[class[p]] # Missing
    /\ pc[p] = "rename" => tmp[p]
    /\ pc[p] = "put" => held[p] \in Versions

Undisturbed ==
    past # "disturbed" =>
        /\ HierarchyGenerated
        /\ NeverFallback
        /\ \A p \in Processes : Calm(p)

(* After a flush that overlapped no request every process runs the code that
   is deployed, and so does what it is about to cache. *)
Fresh ==
    past = "settled" =>
        /\ FreshAfterFlush
        /\ \A p \in Processes : /\ pc[p] # "off" => code[p] = version
                                /\ pc[p] = "put" => held[p] = version

(* What a flush has emptied stays empty while no process is alive. *)
Flushed ==
    quiet => /\ \A p \in Processes : pc[p] = "off"
             /\ \A c \in Classes : cache[c] = Missing
             /\ flush = "mkdir" => \A c \in Classes : yml[c] = Missing

Inv == TypeOK /\ Place /\ Undisturbed /\ Fresh /\ Flushed

-----------------------------------------------------------------------------
(* Hierarchies *)

LEMMA AncestryType ==
    ASSUME NEW c \in Classes
    PROVE  /\ Ancestry[c] \in Seq(Classes)
           /\ Len(Ancestry[c]) \in Nat /\ Len(Ancestry[c]) >= 1
           /\ Ancestry[c][1] = c
           /\ \A i \in 1..Len(Ancestry[c]) : Ancestry[c][i] \in Classes
<1>1. Ancestry[c] \in Seq(Classes) /\ Ancestry[c] # <<>> /\ Ancestry[c][1] = c
  BY ClassAssumption
<1> QED
  BY <1>1

(* What is at a place of the hierarchy. *)
LEMMA HierarchyElement ==
    ASSUME NEW c \in Classes, NEW i \in 1..Len(Ancestry[c])
    PROVE  /\ getClassHierarchy(c)[i] = Ancestry[c][Len(Ancestry[c]) + 1 - i]
           /\ getClassHierarchy(c)[i] \in Classes
<1>1. Len(Ancestry[c]) \in Nat
  BY AncestryType
<1>2. getClassHierarchy(c)[i] = Ancestry[c][Len(Ancestry[c]) + 1 - i]
  BY DEF getClassHierarchy
<1>3. Len(Ancestry[c]) + 1 - i \in 1..Len(Ancestry[c])
  BY <1>1
<1> QED
  BY <1>2, <1>3, AncestryType

(* The class itself is the last of its hierarchy. *)
LEMMA HierarchyLast ==
    ASSUME NEW c \in Classes
    PROVE  getClassHierarchy(c)[Len(Ancestry[c])] = c
<1>1. Len(Ancestry[c]) \in Nat /\ Len(Ancestry[c]) >= 1 /\ Ancestry[c][1] = c
  BY AncestryType
<1>2. Len(Ancestry[c]) \in 1..Len(Ancestry[c]) /\ Len(Ancestry[c]) + 1 - Len(Ancestry[c]) = 1
  BY <1>1
<1> QED
  BY <1>1, <1>2, HierarchyElement

(* The ancestors of the class at a place of the hierarchy are at the places up
   to this one. *)
LEMMA HierarchyAncestors ==
    ASSUME NEW c \in Classes, NEW i \in 1..Len(Ancestry[c]), NEW h,
           h = getClassHierarchy(c)[i], NEW j \in 1..Len(Ancestry[h])
    PROVE  \E k \in 1..i : Ancestry[h][j] = getClassHierarchy(c)[k]
<1> DEFINE n == Len(Ancestry[c])
           m == n + 1 - i
<1>1. n \in Nat /\ Ancestry[c] \in Seq(Classes)
  BY AncestryType
<1>2. m \in 1..n /\ h = Ancestry[c][m]
  BY <1>1, HierarchyElement
<1>3. Ancestry[h] = SubSeq(Ancestry[c], m, n)
  BY <1>2, ClassAssumption
<1>4. Len(Ancestry[h]) = i
  BY <1>1, <1>2, <1>3
<1>5. Ancestry[h][j] = Ancestry[c][m + j - 1]
  BY <1>1, <1>2, <1>3, <1>4
<1>6. i + 1 - j \in 1..i /\ i + 1 - j \in 1..n /\ n + 1 - (i + 1 - j) = m + j - 1
  <2>1. \A a \in Nat : \A x \in 1..a : \A y \in 1..x :
           x + 1 - y \in 1..x /\ x + 1 - y \in 1..a
             /\ a + 1 - (x + 1 - y) = (a + 1 - x) + y - 1
    OBVIOUS
  <2>2. j \in 1..i
    BY <1>4
  <2> QED
    BY <1>1, <2>1, <2>2
<1>7. getClassHierarchy(c)[i + 1 - j] = Ancestry[c][m + j - 1]
  BY <1>6, HierarchyElement
<1> QED
  BY <1>5, <1>6, <1>7

(* If all of the hierarchy is done, so are the class and its ancestors. *)
LEMMA HierarchyDone ==
    ASSUME NEW c \in Classes, NEW S, Done(S, c, Len(Ancestry[c]))
    PROVE  c \in S
<1>1. Len(Ancestry[c]) \in Nat /\ Len(Ancestry[c]) >= 1
  BY AncestryType
<1> QED
  BY <1>1, HierarchyLast DEF Done

(* The files of the hierarchy of a class that has a file are written. *)
LEMMA HierarchyWritten ==
    ASSUME HierarchyGenerated, past # "disturbed", NEW c \in Classes, yml[c] # Missing,
           NEW i \in 1..Len(Ancestry[c])
    PROVE  yml[getClassHierarchy(c)[i]] \in Versions
<1>1. Len(Ancestry[c]) \in Nat
  BY AncestryType
<1>2. Len(Ancestry[c]) + 1 - i \in 1..Len(Ancestry[c])
  BY <1>1
<1> QED
  BY <1>2, HierarchyElement DEF HierarchyGenerated

-----------------------------------------------------------------------------
(* Types *)

FilesOK ==
    /\ version \in Versions
    /\ yml \in [Classes -> {Missing, Partial} \cup Versions]
    /\ cache \in [Classes -> {Missing, Partial, Fallback} \cup Versions]
    /\ metadir \in BOOLEAN
    /\ cachedir \in BOOLEAN

ControlOK ==
    /\ pc \in [Processes -> {"off", "ready"} \cup Walking]
    /\ code \in [Processes -> Versions]
    /\ class \in [Processes -> Classes \cup {NoClass}]
    /\ index \in [Processes -> Nat]

MemoryOK ==
    /\ generated \in [Processes -> SUBSET Classes]
    /\ tmp \in [Processes -> BOOLEAN]
    /\ held \in [Processes -> {Missing, Partial, Fallback} \cup Versions]

FlushOK ==
    /\ flush \in {"none", "metadir", "mkdir"}
    /\ quiet \in BOOLEAN
    /\ past \in {"settled", "undisturbed", "disturbed"}

LEMMA TypeParts ==
    /\ TypeOK => FilesOK /\ ControlOK /\ MemoryOK /\ FlushOK
    /\ FilesOK /\ ControlOK /\ MemoryOK /\ FlushOK /\ Place => TypeOK
<1>1. ASSUME Place
      PROVE  \A p \in Processes :
               /\ pc[p] \in {"write", "rename", "put"} =>
                    class[p] \in Classes /\ index[p] \in 1..Len(Ancestry[class[p]])
               /\ pc[p] = "put" => held[p] # Missing
  BY <1>1 DEF Place, Walking
<1> QED
  BY <1>1 DEF TypeOK, FilesOK, ControlOK, MemoryOK, FlushOK, Walking

LEMMA InitInv == Init => Inv
<1> SUFFICES ASSUME Init PROVE Inv
  OBVIOUS
<1>1. 1 \in Versions
  BY VersionAssumption DEF Versions
<1>2. Place
  BY DEF Init, Place, Walking
<1>3. TypeOK
  <2>1. FilesOK /\ FlushOK
    BY <1>1 DEF Init, FilesOK, FlushOK
  <2>2. ControlOK /\ MemoryOK
    BY <1>1 DEF Init, ControlOK, MemoryOK
  <2> QED
    BY <1>2, <2>1, <2>2, TypeParts
<1>4. \A c \in Classes : yml[c] = Missing /\ cache[c] = Missing
  BY DEF Init
<1>5. Missing # Fallback
  BY DEF Missing, Fallback
<1>6. HierarchyGenerated /\ NeverFallback /\ FreshAfterFlush
  BY <1>4, <1>5 DEF HierarchyGenerated, NeverFallback, FreshAfterFlush
<1>7. \A p \in Processes : Calm(p)
  BY DEF Init, Calm
<1>8. Undisturbed /\ Fresh /\ Flushed
  BY <1>6, <1>7 DEF Init, Undisturbed, Fresh, Flushed
<1> QED
  BY <1>2, <1>3, <1>8 DEF Inv

(* Where a process that walks a hierarchy has come to. *)
LEMMA CurrentType ==
    ASSUME Place, NEW p \in Processes, pc[p] \in Walking, ~Exhausted(p)
    PROVE  /\ class[p] \in Classes /\ index[p] \in 1..Len(Ancestry[class[p]])
           /\ Current(p) \in Classes
<1>1. class[p] \in Classes /\ index[p] \in 1..(Len(Ancestry[class[p]]) + 1)
  BY DEF Place
<1>2. Len(Ancestry[class[p]]) \in Nat
  BY <1>1, AncestryType
<1>3. index[p] \in 1..Len(Ancestry[class[p]])
  BY <1>1, <1>2 DEF Exhausted
<1> QED
  BY <1>1, <1>3, HierarchyElement DEF Current

LEMMA WritingCurrent ==
    ASSUME Place, NEW p \in Processes, pc[p] \in {"write", "rename", "put"}
    PROVE  /\ class[p] \in Classes /\ index[p] \in 1..Len(Ancestry[class[p]])
           /\ Current(p) \in Classes
<1>1. class[p] \in Classes /\ index[p] \in 1..Len(Ancestry[class[p]])
  BY DEF Place, Walking
<1> QED
  BY <1>1, HierarchyElement DEF Current

LEMMA DriverType ==
    ASSUME TypeOK, NEW p \in Processes, Current(p) \in Classes
    PROVE  FromDriver(p) \in {Missing, Partial, Fallback} \cup Versions
           /\ FromDriver(p) # Missing
  BY DEF TypeOK, FromDriver, Missing, Fallback

(* A step of p is a step of no other process. *)
Others(p) ==
    \A q \in Processes \ {p} :
        /\ pc'[q] = pc[q] /\ code'[q] = code[q] /\ class'[q] = class[q]
        /\ index'[q] = index[q] /\ generated'[q] = generated[q]
        /\ tmp'[q] = tmp[q] /\ held'[q] = held[q]

LEMMA RequestOthers ==
    ASSUME TypeOK, NEW p \in Processes, Request(p)
    PROVE  Others(p) /\ UNCHANGED <<version, flush>>
<1> USE DEF Others, TypeOK, Goto, deploy, cached, files
<1>1. CASE Start(p)
  BY <1>1 DEF Start
<1>2. CASE Choose(p)
  BY <1>2 DEF Choose
<1>3. CASE Generate(p)
  BY <1>3 DEF Generate, ReadHierarchy
<1>4. CASE Write(p)
  BY <1>4 DEF Write
<1>5. CASE Rename(p)
  BY <1>5 DEF Rename
<1>6. CASE Read(p)
  BY <1>6 DEF Read
<1>7. CASE Put(p)
  BY <1>7 DEF Put
<1>8. CASE End(p)
  BY <1>8 DEF End
<1> QED
  BY <1>1, <1>2, <1>3, <1>4, <1>5, <1>6, <1>7, <1>8 DEF Request

(* The place of p, as Place has it for every process. *)
PlaceOf(p) ==
    /\ pc[p] \in {"off", "ready"} => index[p] = 1
    /\ pc[p] = "off" => generated[p] = {}
    /\ pc[p] \in Walking =>
         class[p] \in Classes /\ index[p] \in 1..(Len(Ancestry[class[p]]) + 1)
    /\ pc[p] \in {"write", "rename", "put"} => index[p] \in 1..Len(Ancestry[class[p]])
    /\ pc[p] = "put" => held[p] # Missing

LEMMA PlaceStep ==
    ASSUME Place, NEW p \in Processes, Others(p), PlaceOf(p)'
    PROVE  Place'
<1>1. \A q \in Processes \ {p} : PlaceOf(q)'
  BY DEF Place, PlaceOf, Others
<1>2. \A q \in Processes : PlaceOf(q)'
  BY <1>1
<1> QED
  BY <1>2 DEF Place, PlaceOf

LEMMA RequestPlace ==
    ASSUME TypeOK, Place, NEW p \in Processes, Request(p)
    PROVE  Place'
<1> SUFFICES PlaceOf(p)'
  BY RequestOthers, PlaceStep
<1>0. PlaceOf(p)
  BY DEF Place, PlaceOf
<1>1. CASE Start(p)
  BY <1>0, <1>1 DEF PlaceOf, Start, Goto, TypeOK, Walking
<1>2. CASE Choose(p)
  <2>1. PICK c \in Types : class' = [class EXCEPT ![p] = c]
    BY <1>2 DEF Choose
  <2>2. c \in Classes /\ class'[p] = c
    BY <2>1, ClassAssumption DEF TypeOK
  <2>3. index'[p] = 1 /\ pc'[p] \in {"read", "generate"}
    BY <1>0, <1>2 DEF PlaceOf, Choose, Goto, TypeOK
  <2>4. 1 \in 1..(Len(Ancestry[c]) + 1)
    BY <2>2, AncestryType
  <2> QED
    BY <2>2, <2>3, <2>4 DEF PlaceOf, Walking
<1>3. CASE Generate(p)
  <2>1. /\ pc[p] = "generate" /\ class[p] \in Classes
        /\ index[p] \in 1..(Len(Ancestry[class[p]]) + 1)
    BY <1>0, <1>3 DEF Generate, PlaceOf, Walking
  <2>2. Len(Ancestry[class[p]]) \in Nat /\ Len(Ancestry[class[p]]) >= 1
    BY <2>1, AncestryType
  <2>3. class'[p] = class[p]
    BY <1>3 DEF Generate
  <2>4. CASE Exhausted(p)
    <3>1. pc'[p] = "read" /\ index'[p] = 1
      BY <1>3, <2>4 DEF Generate, ReadHierarchy, Goto, TypeOK
    <3> QED
      BY <2>1, <2>2, <2>3, <3>1 DEF PlaceOf, Walking
  <2>5. CASE ~Exhausted(p)
    <3>1. index[p] \in 1..Len(Ancestry[class[p]])
      BY <2>1, <2>5, CurrentType DEF Walking
    <3>2. \/ pc'[p] = "generate" /\ index'[p] = index[p] + 1
          \/ pc'[p] = "write" /\ index'[p] = index[p]
      BY <1>3, <2>5 DEF Generate, Goto, TypeOK
    <3>3. index[p] + 1 \in 1..(Len(Ancestry[class[p]]) + 1)
      BY <2>2, <3>1
    <3> QED
      BY <2>1, <2>3, <3>1, <3>2, <3>3 DEF PlaceOf, Walking
  <2> QED
    BY <2>4, <2>5
<1>4. CASE Write(p)
  <2>1. /\ pc[p] = "write" /\ pc'[p] = "rename"
        /\ class'[p] = class[p] /\ index'[p] = index[p]
    BY <1>4 DEF Write, Goto, TypeOK
  <2> QED
    BY <1>0, <2>1 DEF PlaceOf, Walking
<1>5. CASE Rename(p) \/ Put(p)
  <2>1. /\ pc[p] \in {"rename", "put"} /\ pc'[p] \in {"generate", "read"}
        /\ class'[p] = class[p] /\ index'[p] = index[p] + 1
    BY <1>5 DEF Rename, Put, Goto, TypeOK
  <2>2. class[p] \in Classes /\ index[p] \in 1..Len(Ancestry[class[p]])
    BY <2>1, WritingCurrent
  <2>3. Len(Ancestry[class[p]]) \in Nat
    BY <2>2, AncestryType
  <2>4. index[p] + 1 \in 1..(Len(Ancestry[class[p]]) + 1)
    BY <2>2, <2>3
  <2> QED
    BY <2>1, <2>2, <2>4 DEF PlaceOf
<1>6. CASE Read(p)
  <2>1. pc[p] = "read"
    BY <1>6 DEF Read
  <2>2. CASE Exhausted(p)
    BY <1>6, <2>2 DEF Read, Goto, TypeOK, PlaceOf, Walking
  <2>3. CASE ~Exhausted(p)
    <3>1. /\ class[p] \in Classes /\ index[p] \in 1..Len(Ancestry[class[p]])
          /\ Current(p) \in Classes
      BY <2>1, <2>3, CurrentType DEF Walking
    <3>2. Len(Ancestry[class[p]]) \in Nat
      BY <3>1, AncestryType
    <3>3. index[p] + 1 \in 1..(Len(Ancestry[class[p]]) + 1)
          /\ index[p] \in 1..(Len(Ancestry[class[p]]) + 1)
      BY <3>1, <3>2
    <3>4. /\ class'[p] = class[p]
          /\ \/ pc'[p] = "read" /\ index'[p] = index[p] + 1
             \/ pc'[p] = "put" /\ index'[p] = index[p] /\ held'[p] = FromDriver(p)
      BY <1>6, <2>3 DEF Read, Goto, TypeOK
    <3>5. FromDriver(p) # Missing
      BY <3>1, DriverType
    <3> QED
      BY <3>1, <3>3, <3>4, <3>5 DEF PlaceOf
  <2> QED
    BY <2>2, <2>3
<1>7. CASE End(p)
  BY <1>7 DEF End, Goto, TypeOK, PlaceOf, Walking
<1> QED
  BY <1>1, <1>2, <1>3, <1>4, <1>5, <1>6, <1>7 DEF Request

LEMMA RequestType ==
    ASSUME TypeOK, Place, NEW p \in Processes, Request(p)
    PROVE  TypeOK'
<1>1. Place'
  BY RequestPlace
<1>2. FilesOK /\ ControlOK /\ MemoryOK /\ FlushOK
  BY TypeParts
<1>3. 1 \in Versions
  BY VersionAssumption DEF Versions
<1>4. FilesOK'
  <2> USE <1>2 DEF FilesOK, deploy, cached, files
  <2>1. CASE Start(p) \/ Choose(p) \/ Generate(p) \/ Write(p) \/ Read(p) \/ End(p)
    BY <2>1 DEF Start, Choose, Generate, Write, Read, End
  <2>2. CASE Rename(p)
    <3>1. code[p] \in Versions
      BY DEF TypeOK
    <3> QED
      BY <2>2, <3>1 DEF Rename
  <2>3. CASE Put(p)
    <3>1. held[p] \in {Missing, Partial, Fallback} \cup Versions
      BY DEF TypeOK
    <3> QED
      BY <2>3, <3>1 DEF Put
  <2> QED
    BY <2>1, <2>2, <2>3 DEF Request
<1>5. ControlOK'
  <2> USE <1>2 DEF ControlOK, Goto, Walking
  <2>1. CASE Start(p)
    BY <2>1 DEF Start, FilesOK
  <2>2. CASE Choose(p)
    <3>1. PICK c \in Types : /\ class' = [class EXCEPT ![p] = c]
                             /\ Goto(p, IF yml[c] # Missing THEN "read" ELSE "generate")
      BY <2>2 DEF Choose
    <3>2. c \in Classes
      BY ClassAssumption
    <3> QED
      BY <2>2, <3>1, <3>2 DEF Choose
  <2>3. CASE Generate(p) \/ Write(p) \/ Rename(p) \/ Put(p)
    BY <2>3 DEF Generate, ReadHierarchy, Write, Rename, Put
  <2>4. CASE Read(p)
    BY <2>4 DEF Read
  <2>5. CASE End(p)
    BY <2>5, <1>3 DEF End
  <2> QED
    BY <2>1, <2>2, <2>3, <2>4, <2>5 DEF Request
<1>6. MemoryOK'
  <2> USE <1>2 DEF MemoryOK
  <2>1. CASE Start(p) \/ Choose(p) \/ Generate(p)
    BY <2>1 DEF Start, Choose, Generate
  <2>2. CASE Write(p)
    BY <2>2 DEF Write, FilesOK
  <2>3. CASE Rename(p)
    <3>1. Current(p) \in Classes
      BY <2>3, WritingCurrent DEF Rename
    <3> QED
      BY <2>3, <3>1 DEF Rename
  <2>4. CASE Read(p)
    <3>1. CASE pc[p] = "read" /\ ~Exhausted(p)
      <4>1. Current(p) \in Classes
        BY <3>1, CurrentType DEF Walking
      <4>2. FromDriver(p) \in {Missing, Partial, Fallback} \cup Versions
        BY <4>1, DriverType
      <4> QED
        BY <2>4, <3>1, <4>2 DEF Read
    <3> QED
      BY <2>4, <3>1 DEF Read
  <2>5. CASE Put(p) \/ End(p)
    BY <2>5 DEF Put, End
  <2> QED
    BY <2>1, <2>2, <2>3, <2>4, <2>5 DEF Request
<1>7. FlushOK'
  BY <1>2 DEF FlushOK, Request, Start, Choose, Generate, Write, Rename, Read, Put, End, deploy
<1> QED
  BY <1>1, <1>4, <1>5, <1>6, <1>7, TypeParts, PTL

LEMMA FlushType ==
    ASSUME TypeOK, Place, FlushCache \/ FlushMetadir \/ FlushMkdir \/ Deploy
    PROVE  TypeOK' /\ Place'
<1>1. UNCHANGED processes
  BY DEF FlushCache, FlushMetadir, FlushMkdir, Deploy
<1>2. Place'
  BY <1>1 DEF Place, processes
<1>3. FilesOK /\ ControlOK /\ MemoryOK /\ FlushOK
  BY TypeParts
<1>4. FilesOK'
  <2>1. CASE FlushCache
    BY <1>3, <2>1 DEF FilesOK, FlushCache, files
  <2>2. CASE FlushMetadir
    BY <1>3, <2>2 DEF FilesOK, FlushMetadir, cached
  <2>3. CASE FlushMkdir
    BY <1>3, <2>3 DEF FilesOK, FlushMkdir, cached
  <2>4. CASE Deploy
    <3>1. version + 1 \in Versions
      BY <1>3, <2>4, VersionAssumption DEF FilesOK, Deploy, Versions
    <3> QED
      BY <1>3, <2>4, <3>1 DEF FilesOK, Deploy, files, cached
  <2> QED
    BY <2>1, <2>2, <2>3, <2>4
<1>5. ControlOK'
  BY <1>1, <1>3 DEF processes, ControlOK
<1>6. MemoryOK'
  BY <1>1, <1>3 DEF processes, MemoryOK, FlushCache, FlushMetadir, FlushMkdir, Deploy
<1>7. FlushOK'
  BY <1>3 DEF FlushOK, FlushCache, FlushMetadir, FlushMkdir, Deploy, NobodyAlive
<1> QED
  BY <1>2, <1>4, <1>5, <1>6, <1>7, TypeParts, PTL

-----------------------------------------------------------------------------
(* Undisturbed *)

(* A process keeps calm while others generate files. *)
LEMMA CalmKept ==
    ASSUME Place, NEW p \in Processes, Others(p), UNCHANGED flush, metadir => metadir',
           \A c \in Classes : yml[c] # Missing => yml'[c] # Missing,
           Written \subseteq Written',
           NEW q \in Processes, q # p, Calm(q)
    PROVE  Calm(q)'
<1>1. /\ pc'[q] = pc[q] /\ class'[q] = class[q] /\ index'[q] = index[q]
      /\ generated'[q] = generated[q] /\ tmp'[q] = tmp[q] /\ held'[q] = held[q]
  BY DEF Others
<1>2. pc[q] \in {"read", "put"} => class[q] \in Classes
  BY DEF Place, Walking
<1>3. \A c, n : Done(Written, c, n) => Done(Written', c, n)
  BY DEF Done
<1> QED
  BY <1>1, <1>2, <1>3 DEF Calm

(* A step of p that writes no file keeps the files of the hierarchies. *)
LEMMA QuietFiles ==
    ASSUME NEW p \in Processes, Undisturbed, Place, past # "disturbed", Others(p),
           UNCHANGED <<yml, cache, past, flush>>, metadir => metadir', Calm(p)'
    PROVE  Undisturbed'
<1>1. HierarchyGenerated' /\ NeverFallback'
  BY DEF Undisturbed, HierarchyGenerated, NeverFallback
<1>2. Written' = Written
  BY DEF Written
<1>3. \A q \in Processes \ {p} : Calm(q)'
  BY <1>2, CalmKept DEF Undisturbed
<1> QED
  BY <1>1, <1>3 DEF Undisturbed

(* The file of a class whose ancestors are written stands for the hierarchy. *)
LEMMA RenameUndisturbed ==
    ASSUME TypeOK, Place, Undisturbed, past # "disturbed", NEW p \in Processes, Rename(p)
    PROVE  Undisturbed'
<1> DEFINE h == Current(p)
           n == index[p]
<1>1. /\ pc[p] = "rename" /\ pc' = [pc EXCEPT ![p] = "generate"]
      /\ index' = [index EXCEPT ![p] = n + 1]
      /\ generated' = [generated EXCEPT ![p] = @ \cup {h}]
      /\ UNCHANGED <<metadir, cache, class, flush, past>>
  BY DEF Rename, Goto, deploy, cached
<1>2. /\ class[p] \in Classes /\ n \in 1..Len(Ancestry[class[p]]) /\ h \in Classes
      /\ h = getClassHierarchy(class[p])[n]
  BY <1>1, WritingCurrent DEF Current
<1>3. Calm(p) /\ HierarchyGenerated /\ NeverFallback
  BY DEF Undisturbed
<1>4. yml' = [yml EXCEPT ![h] = code[p]] /\ code[p] \in Versions
  BY <1>1, <1>3 DEF Rename, Calm, TypeOK
<1>5. /\ yml'[h] \in Versions
      /\ \A c \in Classes \ {h} : yml'[c] = yml[c]
  BY <1>2, <1>4 DEF TypeOK
<1>6. Written' = Written \cup {h}
  BY <1>2, <1>5 DEF Written
<1>7. Done(Written', class[p], n)
  <2>1. Done(Written, class[p], n - 1)
    BY <1>1, <1>3 DEF Calm
  <2>2. \A i \in 1..n : i \in 1..(n - 1) \/ i = n
    BY <1>2, AncestryType
  <2> QED
    BY <1>2, <1>6, <2>1, <2>2 DEF Done
<1>8. ASSUME NEW c \in Classes, yml'[c] # Missing, NEW j \in 1..Len(Ancestry[c])
      PROVE  Ancestry[c][j] \in Written'
  <2>1. CASE c = h
    <3>1. \E k \in 1..n : Ancestry[c][j] = getClassHierarchy(class[p])[k]
      BY <1>2, <1>8, <2>1, HierarchyAncestors
    <3> QED
      BY <1>7, <3>1 DEF Done
  <2>2. CASE c # h
    <3>1. yml[c] # Missing
      BY <1>5, <1>8, <2>2
    <3>2. yml[Ancestry[c][j]] \in Versions
      BY <1>3, <3>1 DEF HierarchyGenerated
    <3>3. Ancestry[c][j] \in Classes
      BY AncestryType
    <3> QED
      BY <1>6, <3>2, <3>3 DEF Written
  <2> QED
    BY <2>1, <2>2
<1>9. HierarchyGenerated'
  BY <1>8 DEF HierarchyGenerated, Written
<1>10. NeverFallback'
  BY <1>1, <1>3 DEF NeverFallback
<1>11. Calm(p)'
  <2>1. /\ pc'[p] = "generate" /\ index'[p] = n + 1 /\ class'[p] = class[p]
        /\ generated'[p] = generated[p] \cup {h} /\ flush' = flush /\ metadir' = metadir
    BY <1>1 DEF TypeOK
  <2>2. index'[p] - 1 = n
    BY <1>2, <2>1
  <2>3. Done(Written', class'[p], index'[p] - 1)
    BY <1>7, <2>1, <2>2
  <2>4. generated'[p] \subseteq Written'
    BY <1>3, <1>6, <2>1 DEF Calm
  <2> QED
    BY <1>1, <1>3, <2>1, <2>3, <2>4 DEF Calm
<1>12. \A c \in Classes : yml[c] # Missing => yml'[c] # Missing
  <2>1. Missing \notin Versions
    BY DEF Missing, Versions
  <2> QED
    BY <1>5, <2>1
<1>13. Others(p)
  BY RequestOthers DEF Request
<1>14. \A q \in Processes \ {p} : Calm(q)'
  BY <1>1, <1>6, <1>12, <1>13, CalmKept DEF Undisturbed
<1> QED
  BY <1>9, <1>10, <1>11, <1>14 DEF Undisturbed

LEMMA RequestUndisturbed ==
    ASSUME TypeOK, Place, Undisturbed, NEW p \in Processes, Request(p)
    PROVE  Undisturbed'
<1> SUFFICES ASSUME past' # "disturbed" PROVE Undisturbed'
  BY DEF Undisturbed
<1>1. past' = past /\ past # "disturbed"
  BY DEF Request, Start, Choose, Generate, Write, Rename, Read, Put, End, deploy
<1>2. Calm(p) /\ HierarchyGenerated /\ NeverFallback
  BY <1>1 DEF Undisturbed
<1>3. Others(p) /\ UNCHANGED flush
  BY RequestOthers
<1>4. CASE Start(p)
  <2>1. /\ UNCHANGED <<yml, cache, generated>> /\ metadir' /\ pc'[p] = "ready"
        /\ flush = "none"
    BY <1>1, <1>4 DEF Start, Goto, TypeOK
  <2>2. Calm(p)'
    BY <1>2, <1>3, <2>1 DEF Calm, Written
  <2> QED
    BY <1>1, <1>3, <2>1, <2>2, QuietFiles
<1>5. CASE Choose(p)
  <2>1. PICK c \in Types :
          /\ class' = [class EXCEPT ![p] = c]
          /\ Goto(p, IF yml[c] # Missing THEN "read" ELSE "generate")
    BY <1>5 DEF Choose
  <2>2. /\ UNCHANGED <<yml, cache, generated, index>> /\ metadir' /\ pc[p] = "ready"
    BY <1>5 DEF Choose, cached
  <2>3. class'[p] = c /\ pc'[p] = IF yml[c] # Missing THEN "read" ELSE "generate"
    BY <2>1, ClassAssumption DEF Goto, TypeOK
  <2>4. index[p] = 1
    BY <2>2 DEF Place
  <2>5. Done(Written', class'[p], index'[p] - 1)
    BY <2>2, <2>4 DEF Done
  <2>6. Calm(p)'
    BY <1>2, <1>3, <2>2, <2>3, <2>5 DEF Calm, Written
  <2> QED
    BY <1>1, <1>3, <2>2, <2>6, QuietFiles
<1>6. CASE Generate(p)
  <2>1. /\ UNCHANGED <<yml, cache, generated, class>> /\ pc[p] = "generate"
        /\ metadir => metadir'
    BY <1>6 DEF Generate, cached
  <2>2. Written' = Written
    BY <2>1 DEF Written
  <2>3. CASE Exhausted(p)
    <3>1. pc'[p] = "read"
      BY <1>6, <2>3 DEF Generate, ReadHierarchy, Goto, TypeOK
    <3>2. /\ class[p] \in Classes /\ index[p] \in 1..(Len(Ancestry[class[p]]) + 1)
      BY <2>1 DEF Place, Walking
    <3>3. Len(Ancestry[class[p]]) \in Nat
      BY <3>2, AncestryType
    <3>4. index[p] - 1 = Len(Ancestry[class[p]])
      BY <2>3, <3>2, <3>3 DEF Exhausted
    <3>5. Done(Written, class[p], Len(Ancestry[class[p]]))
      BY <1>2, <2>1, <3>4 DEF Calm
    <3>6. class[p] \in Written
      BY <3>2, <3>5, HierarchyDone
    <3>7. yml'[class'[p]] # Missing
      BY <2>1, <3>6 DEF Written, Missing, Versions
    <3>8. Calm(p)'
      BY <1>2, <1>3, <2>1, <2>2, <3>1, <3>7 DEF Calm
    <3> QED
      BY <1>1, <1>3, <2>1, <3>8, QuietFiles
  <2>4. CASE ~Exhausted(p) /\ Current(p) \in generated[p]
    <3>1. pc'[p] = "generate" /\ index'[p] = index[p] + 1 /\ index[p] \in Nat
      BY <1>6, <2>1, <2>4 DEF Generate, TypeOK
    <3>2. Current(p) \in Written
      BY <1>2, <2>4 DEF Calm
    <3>3. Done(Written, class[p], index[p] - 1)
      BY <1>2, <2>1 DEF Calm
    <3>4. \A i \in 1..index[p] : i \in 1..(index[p] - 1) \/ i = index[p]
      BY <3>1
    <3>5. Done(Written, class[p], index[p])
      BY <3>2, <3>3, <3>4 DEF Done, Current
    <3>6. index'[p] - 1 = index[p]
      BY <3>1
    <3>7. Calm(p)'
      BY <1>2, <1>3, <2>1, <2>2, <3>1, <3>5, <3>6 DEF Calm
    <3> QED
      BY <1>1, <1>3, <2>1, <3>7, QuietFiles
  <2>5. CASE ~Exhausted(p) /\ Current(p) \notin generated[p]
    <3>1. pc'[p] = "write" /\ index'[p] = index[p]
      BY <1>6, <2>5 DEF Generate, Goto, TypeOK
    <3>2. Calm(p)'
      BY <1>2, <1>3, <2>1, <2>2, <3>1 DEF Calm
    <3> QED
      BY <1>1, <1>3, <2>1, <3>2, QuietFiles
  <2> QED
    BY <2>3, <2>4, <2>5
<1>7. CASE Write(p)
  <2>1. /\ UNCHANGED <<yml, cache, generated, class, index, metadir>> /\ pc[p] = "write"
        /\ pc'[p] = "rename" /\ tmp'[p] = metadir
    BY <1>7 DEF Write, files, cached, Goto, TypeOK
  <2>2. Calm(p)'
    BY <1>2, <1>3, <2>1 DEF Calm, Written
  <2> QED
    BY <1>1, <1>3, <2>1, <2>2, QuietFiles
<1>8. CASE Rename(p)
  BY <1>1, <1>8, RenameUndisturbed
<1>9. CASE Read(p)
  <2>1. /\ UNCHANGED <<yml, cache, generated, metadir>> /\ pc[p] = "read"
    BY <1>9 DEF Read, files, cached
  <2>2. CASE Exhausted(p)
    <3>1. pc'[p] = "ready"
      BY <1>9, <2>2 DEF Read, Goto, TypeOK
    <3>2. Calm(p)'
      BY <1>2, <1>3, <2>1, <3>1 DEF Calm, Written
    <3> QED
      BY <1>1, <1>3, <2>1, <3>2, QuietFiles
  <2>3. CASE ~Exhausted(p)
    <3>1. /\ class[p] \in Classes /\ index[p] \in 1..Len(Ancestry[class[p]])
      BY <2>1, <2>3, CurrentType DEF Walking
    <3>2. yml[Current(p)] \in Versions
      BY <1>1, <1>2, <2>1, <3>1, HierarchyWritten DEF Calm, Current
    <3>3. FromDriver(p) \in Versions
      BY <3>2 DEF FromDriver, Missing, Versions
    <3>4. /\ class'[p] = class[p]
          /\ pc'[p] = "read" \/ (pc'[p] = "put" /\ held'[p] = FromDriver(p))
      BY <1>9, <2>3, <2>1 DEF Read, Goto, TypeOK
    <3>5. Calm(p)'
      BY <1>2, <1>3, <2>1, <3>3, <3>4 DEF Calm, Written
    <3> QED
      BY <1>1, <1>3, <2>1, <3>5, QuietFiles
  <2> QED
    BY <2>2, <2>3
<1>10. CASE Put(p)
  <2>1. /\ UNCHANGED <<yml, generated, metadir, class>> /\ pc[p] = "put" /\ pc'[p] = "read"
        /\ cache' = [cache EXCEPT ![Current(p)] = held[p]]
    BY <1>10 DEF Put, files, Goto, TypeOK
  <2>2. held[p] # Fallback
    BY <1>2, <2>1 DEF Calm, Versions, Fallback
  <2>3. NeverFallback'
    BY <1>1, <1>2, <2>1, <2>2 DEF NeverFallback, TypeOK
  <2>4. HierarchyGenerated'
    BY <1>1, <1>2, <2>1 DEF HierarchyGenerated
  <2>5. Written' = Written
    BY <2>1 DEF Written
  <2>6. Calm(p)'
    BY <1>2, <1>3, <2>1, <2>5 DEF Calm
  <2>7. \A q \in Processes \ {p} : Calm(q)'
    BY <1>1, <1>3, <2>1, <2>5, CalmKept DEF Undisturbed
  <2> QED
    BY <2>3, <2>4, <2>6, <2>7 DEF Undisturbed
<1>11. CASE End(p)
  <2>1. /\ UNCHANGED <<yml, cache, metadir>> /\ pc'[p] = "off" /\ generated'[p] = {}
    BY <1>11 DEF End, files, cached, Goto, TypeOK
  <2>2. Calm(p)'
    BY <2>1 DEF Calm
  <2> QED
    BY <1>1, <1>3, <2>1, <2>2, QuietFiles
<1> QED
  BY <1>4, <1>5, <1>6, <1>7, <1>8, <1>9, <1>10, <1>11 DEF Request

(* A flush that overlaps no request empties the directories of nobody. *)
LEMMA FlushUndisturbed ==
    ASSUME TypeOK, Place, Undisturbed, Flushed,
           FlushCache \/ FlushMetadir \/ FlushMkdir \/ Deploy
    PROVE  Undisturbed'
<1> SUFFICES ASSUME past' # "disturbed" PROVE Undisturbed'
  BY DEF Undisturbed
<1>1. Missing # Fallback
  BY DEF Missing, Fallback
<1>2. \A p \in Processes : pc[p] = "off" /\ pc'[p] = "off" => generated[p] = {} /\ generated'[p] = {}
  BY FlushType DEF Place
<1>3. UNCHANGED processes
  BY DEF FlushCache, FlushMetadir, FlushMkdir, Deploy
<1>4. ASSUME \A p \in Processes : pc[p] = "off" PROVE \A p \in Processes : Calm(p)'
  BY <1>2, <1>3, <1>4 DEF Calm, processes
<1>5. CASE FlushCache
  <2>1. \A p \in Processes : pc[p] = "off"
    BY <1>5 DEF FlushCache, NobodyAlive
  <2>2. past # "disturbed" /\ UNCHANGED yml /\ \A c \in Classes : cache'[c] = Missing
    BY <1>5 DEF FlushCache, files
  <2>3. HierarchyGenerated' /\ NeverFallback'
    BY <1>1, <2>2 DEF Undisturbed, HierarchyGenerated, NeverFallback
  <2> QED
    BY <1>4, <2>1, <2>3 DEF Undisturbed
<1>6. CASE FlushMetadir
  <2>1. past # "disturbed" /\ flush = "metadir" /\ UNCHANGED cache
        /\ \A c \in Classes : yml'[c] = Missing
    BY <1>6 DEF FlushMetadir, cached
  <2>2. \A p \in Processes : pc[p] = "off"
    BY <2>1 DEF Undisturbed, Calm
  <2>3. HierarchyGenerated' /\ NeverFallback'
    BY <2>1 DEF Undisturbed, HierarchyGenerated, NeverFallback
  <2> QED
    BY <1>4, <2>2, <2>3 DEF Undisturbed
<1>7. CASE FlushMkdir
  <2>1. quiet /\ flush = "mkdir" /\ UNCHANGED <<yml, cache>>
    BY <1>7 DEF FlushMkdir, cached
  <2>2. /\ \A p \in Processes : pc[p] = "off"
        /\ \A c \in Classes : cache'[c] = Missing /\ yml'[c] = Missing
    BY <2>1 DEF Flushed
  <2>3. HierarchyGenerated' /\ NeverFallback'
    BY <1>1, <2>2 DEF HierarchyGenerated, NeverFallback
  <2> QED
    BY <1>4, <2>2, <2>3 DEF Undisturbed
<1>8. CASE Deploy
  <2>1. past # "disturbed" /\ UNCHANGED <<yml, cache, metadir, flush, tmp>>
    BY <1>8 DEF Deploy, files, cached
  <2>2. HierarchyGenerated' /\ NeverFallback'
    BY <2>1 DEF Undisturbed, HierarchyGenerated, NeverFallback
  <2>3. \A p \in Processes : Calm(p)'
    BY <1>3, <2>1 DEF Undisturbed, Calm, processes, Written, Done
  <2> QED
    BY <2>2, <2>3 DEF Undisturbed
<1> QED
  BY <1>5, <1>6, <1>7, <1>8

-----------------------------------------------------------------------------
(* Fresh *)

(* What process p runs and is to cache is of the code that is deployed. *)
FreshOf(p) ==
    /\ pc[p] # "off" => code[p] = version
    /\ pc[p] = "put" => held[p] = version

LEMMA FreshStep ==
    ASSUME Fresh, past = "settled", NEW p \in Processes, Others(p), UNCHANGED version,
           FreshOf(p)', FreshAfterFlush'
    PROVE  Fresh'
<1>1. \A q \in Processes \ {p} : FreshOf(q)'
  BY DEF Fresh, FreshOf, Others
<1> QED
  BY <1>1 DEF Fresh, FreshOf

LEMMA RequestFresh ==
    ASSUME TypeOK, Place, Undisturbed, Fresh, NEW p \in Processes, Request(p)
    PROVE  Fresh'
<1> SUFFICES ASSUME past' = "settled" PROVE Fresh'
  BY DEF Fresh
<1>1. past = "settled" /\ past' = past
  BY DEF Request, Start, Choose, Generate, Write, Rename, Read, Put, End, deploy
<1>2. Calm(p) /\ HierarchyGenerated
  BY <1>1 DEF Undisturbed
<1>3. FreshOf(p) /\ \A c \in Classes : {yml[c], cache[c]} \subseteq {Missing, version}
  BY <1>1 DEF Fresh, FreshOf, FreshAfterFlush
<1>4. Others(p) /\ UNCHANGED version
  BY RequestOthers
<1>5. CASE Rename(p)
  <2>1. /\ pc[p] = "rename" /\ pc'[p] = "generate" /\ UNCHANGED <<cache, code>>
        /\ yml' = [yml EXCEPT ![Current(p)] = code[p]]
    BY <1>2, <1>5 DEF Rename, cached, Goto, TypeOK, Calm
  <2>2. code[p] = version
    BY <1>3, <2>1 DEF FreshOf
  <2>3. \A c \in Classes : yml'[c] \in {Missing, version}
    BY <1>3, <2>1, <2>2 DEF TypeOK
  <2>4. FreshAfterFlush'
    BY <1>3, <1>4, <2>1, <2>3 DEF FreshAfterFlush
  <2>5. FreshOf(p)'
    BY <1>4, <2>1, <2>2 DEF FreshOf
  <2> QED
    BY <1>1, <1>4, <2>4, <2>5, FreshStep
<1>6. CASE Put(p)
  <2>1. /\ pc[p] = "put" /\ pc'[p] = "read" /\ UNCHANGED <<yml, code>>
        /\ cache' = [cache EXCEPT ![Current(p)] = held[p]]
    BY <1>6 DEF Put, files, Goto, TypeOK
  <2>2. \A c \in Classes : cache'[c] \in {Missing, version}
    BY <1>3, <2>1 DEF TypeOK, FreshOf
  <2>3. FreshAfterFlush'
    BY <1>3, <1>4, <2>1, <2>2 DEF FreshAfterFlush
  <2>4. FreshOf(p)'
    BY <1>3, <1>4, <2>1 DEF FreshOf
  <2> QED
    BY <1>1, <1>4, <2>3, <2>4, FreshStep
<1>7. CASE ~Rename(p) /\ ~Put(p)
  <2>1. UNCHANGED <<yml, cache>>
    BY <1>7
    DEF Request, Start, Choose, Generate, Write, Read, End, files, cached
  <2>2. FreshAfterFlush'
    BY <1>3, <1>4, <2>1 DEF FreshAfterFlush
  <2>3. CASE Read(p)
    <3>1. ASSUME pc'[p] = "put" PROVE FreshOf(p)'
      <4>1. ~Exhausted(p) /\ pc[p] = "read" /\ held'[p] = FromDriver(p) /\ UNCHANGED code
        BY <2>3, <3>1 DEF Read, Goto, TypeOK
      <4>2. /\ class[p] \in Classes /\ index[p] \in 1..Len(Ancestry[class[p]])
            /\ Current(p) \in Classes
        BY <4>1, CurrentType DEF Walking
      <4>3. yml[Current(p)] \in Versions
        BY <1>1, <1>2, <4>1, <4>2, HierarchyWritten DEF Calm, Current
      <4>4. yml[Current(p)] # Missing
        BY <4>3 DEF Missing, Versions
      <4>5. FromDriver(p) = version
        BY <1>3, <4>2, <4>4 DEF FromDriver
      <4> QED
        BY <1>3, <1>4, <4>1, <4>5 DEF FreshOf
    <3>2. ASSUME pc'[p] # "put" PROVE FreshOf(p)'
      BY <1>3, <1>4, <2>3, <3>2 DEF Read, Goto, FreshOf
    <3>3. FreshOf(p)'
      BY <3>1, <3>2
    <3> QED
      BY <1>1, <1>4, <2>2, <3>3, FreshStep
  <2>4. CASE Start(p)
    <3>1. pc'[p] = "ready" /\ code'[p] = version
      BY <2>4 DEF Start, Goto, TypeOK
    <3>2. FreshOf(p)'
      BY <1>4, <3>1 DEF FreshOf
    <3> QED
      BY <1>1, <1>4, <2>2, <3>2, FreshStep
  <2>5. CASE End(p)
    <3>1. pc'[p] = "off"
      BY <2>5 DEF End, Goto, TypeOK
    <3>2. FreshOf(p)'
      BY <3>1 DEF FreshOf
    <3> QED
      BY <1>1, <1>4, <2>2, <3>2, FreshStep
  <2>6. CASE Choose(p) \/ Generate(p) \/ Write(p)
    <3>1. pc[p] # "off" /\ pc'[p] \notin {"off", "put"} /\ UNCHANGED code
      BY <2>6 DEF Choose, Generate, ReadHierarchy, Write, Goto, TypeOK
    <3>2. FreshOf(p)'
      BY <1>3, <1>4, <3>1 DEF FreshOf
    <3> QED
      BY <1>1, <1>4, <2>2, <3>2, FreshStep
  <2> QED
    BY <1>7, <2>3, <2>4, <2>5, <2>6 DEF Request
<1> QED
  BY <1>5, <1>6, <1>7

LEMMA FlushFresh ==
    ASSUME TypeOK, Place, Fresh, Flushed,
           FlushCache \/ FlushMetadir \/ FlushMkdir \/ Deploy
    PROVE  Fresh'
<1> SUFFICES ASSUME past' = "settled" PROVE Fresh'
  BY DEF Fresh
<1>1. UNCHANGED processes
  BY DEF FlushCache, FlushMetadir, FlushMkdir, Deploy
<1>2. CASE FlushCache \/ FlushMetadir
  <2>1. past = "settled" /\ UNCHANGED version
    BY <1>2 DEF FlushCache, FlushMetadir
  <2>2. \A c \in Classes : /\ yml'[c] \in {yml[c], Missing}
                           /\ cache'[c] \in {cache[c], Missing}
    BY <1>2 DEF FlushCache, FlushMetadir, files, cached
  <2>3. FreshAfterFlush'
    BY <2>1, <2>2 DEF Fresh, FreshAfterFlush
  <2>4. \A p \in Processes : FreshOf(p)'
    BY <1>1, <2>1 DEF Fresh, FreshOf, processes
  <2> QED
    BY <2>3, <2>4 DEF Fresh, FreshOf
<1>3. CASE FlushMkdir
  <2>1. quiet /\ flush = "mkdir" /\ UNCHANGED <<yml, cache>>
    BY <1>3 DEF FlushMkdir, cached
  <2>2. /\ \A p \in Processes : pc'[p] = "off"
        /\ \A c \in Classes : cache'[c] = Missing /\ yml'[c] = Missing
    BY <1>1, <2>1 DEF Flushed, processes
  <2> QED
    BY <2>2 DEF Fresh, FreshAfterFlush
<1>4. CASE Deploy
  BY <1>4 DEF Deploy
<1> QED
  BY <1>2, <1>3, <1>4

-----------------------------------------------------------------------------
(* Flushed *)

LEMMA RequestFlushed ==
    ASSUME TypeOK, Flushed, NEW p \in Processes, Request(p)
    PROVE  Flushed'
<1>1. CASE Start(p)
  BY <1>1 DEF Start, Flushed
<1>2. CASE ~Start(p)
  <2>1. pc[p] # "off" /\ UNCHANGED quiet
    BY <1>2 DEF Request, Choose, Generate, Write, Rename, Read, Put, End, deploy
  <2> QED
    BY <2>1 DEF Flushed
<1> QED
  BY <1>1, <1>2

LEMMA FlushFlushed ==
    ASSUME TypeOK, Flushed, FlushCache \/ FlushMetadir \/ FlushMkdir \/ Deploy
    PROVE  Flushed'
<1>1. UNCHANGED pc
  BY DEF FlushCache, FlushMetadir, FlushMkdir, Deploy, processes
<1>2. CASE FlushCache
  BY <1>1, <1>2 DEF FlushCache, NobodyAlive, Flushed
<1>3. CASE FlushMetadir
  BY <1>1, <1>3 DEF FlushMetadir, cached, Flushed
<1>4. CASE FlushMkdir
  BY <1>4 DEF FlushMkdir, Flushed
<1>5. CASE Deploy
  BY <1>1, <1>5 DEF Deploy, files, cached, Flushed
<1> QED
  BY <1>2, <1>3, <1>4, <1>5

-----------------------------------------------------------------------------
LEMMA NextInv == Inv /\ [Next]_vars => Inv'
<1> SUFFICES ASSUME Inv, [Next]_vars PROVE Inv'
  OBVIOUS
<1>1. TypeOK /\ Place /\ Undisturbed /\ Fresh /\ Flushed
  BY DEF Inv
<1>2. ASSUME NEW p \in Processes, Request(p) PROVE Inv'
  BY <1>1, <1>2, RequestType, RequestPlace, RequestUndisturbed, RequestFresh,
     RequestFlushed DEF Inv
<1>3. ASSUME FlushCache \/ FlushMetadir \/ FlushMkdir \/ Deploy PROVE Inv'
  BY <1>1, <1>3, FlushType, FlushUndisturbed, FlushFresh, FlushFlushed DEF Inv
<1>4. CASE UNCHANGED vars
  <2>1. TypeOK' /\ Place'
    BY <1>1, <1>4 DEF vars, TypeOK, Place
  <2>2. Undisturbed'
    BY <1>1, <1>4
    DEF vars, Undisturbed, HierarchyGenerated, NeverFallback, Calm, Written, Done
  <2>3. Fresh' /\ Flushed'
    BY <1>1, <1>4 DEF vars, Fresh, FreshAfterFlush, Flushed
  <2> QED
    BY <2>1, <2>2, <2>3 DEF Inv
<1> QED
  BY <1>2, <1>3, <1>4 DEF Next

LEMMA Invariant == Spec => []Inv
  BY InitInv, NextInv, PTL DEF Spec

(* Every variable of the processes and directories keeps its type. *)
THEOREM TypeCorrect == Spec => []TypeOK
<1>1. Inv => TypeOK
  BY DEF Inv
<1> QED
  BY <1>1, Invariant, PTL

(* The file of a class stands for those of all its ancestors, wherever the
   processes that generated them died. *)
THEOREM FilesStandForHierarchy == Spec => []HierarchyGenerated
<1>1. Inv => HierarchyGenerated
  BY DEF Inv, Undisturbed, HierarchyGenerated
<1> QED
  BY <1>1, Invariant, PTL

(* What the factory makes of a class without a file is never cached. *)
THEOREM NoFallbackCached == Spec => []NeverFallback
<1>1. Inv => NeverFallback
  BY DEF Inv, Undisturbed, NeverFallback
<1> QED
  BY <1>1, Invariant, PTL

(* After a flush that overlaps no request nothing of older code is left or
   comes back. *)
THEOREM FlushRefreshes == Spec => []FreshAfterFlush
<1>1. Inv => FreshAfterFlush
  BY DEF Inv, Fresh, FreshAfterFlush
<1> QED
  BY <1>1, Invariant, PTL
================================================================================
