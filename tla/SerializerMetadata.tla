--------------------------- MODULE SerializerMetadata ---------------------------
(***************************************************************************)
(* The two caches of serializer metadata below var/cache/code/t3api, shared *)
(* by all PHP processes without a lock:                                    *)
(*   - jms-metadir: a yml file per class, which SerializerMetadataService  *)
(*     generates from the class and its annotations before the class is    *)
(*     (de)serialized, the ancestors of the class first;                   *)
(*   - jms-serializer/metadata: what the JMS metadata factory made of these *)
(*     files, class by class along the hierarchy.                          *)
(* Clearing the caches in the backend empties both directories one after   *)
(* the other while requests may be running, and a request may die at any   *)
(* step.  Production context: in debug mode files are always generated.    *)
(***************************************************************************)
EXTENDS Integers, Sequences

CONSTANTS
    Processes,      \* PHP processes
    Classes,        \* serializable classes and their ancestors
    Types,          \* the classes requests come to, in data and in payloads
    NoClass,        \* what a process works on when it works on no class
    Ancestry,       \* Ancestry[c]: c, its parent, ... up to the root
    MaxVersion      \* bound: how many versions of the code are deployed

Missing  == 0       \* there is no file
Partial  == -1      \* a file that is written but not to its end
Fallback == -2      \* metadata the factory makes of a class without yml file
Versions == 1..MaxVersion

ASSUME VersionAssumption == MaxVersion \in Nat \ {0}
ASSUME ClassAssumption ==
    /\ NoClass \notin Classes
    /\ Types \subseteq Classes
    /\ Ancestry \in [Classes -> Seq(Classes)]
    /\ \A c \in Classes :
         /\ Ancestry[c] # <<>>
         /\ Ancestry[c][1] = c
         /\ \A i \in 1..Len(Ancestry[c]) :
              Ancestry[Ancestry[c][i]] = SubSeq(Ancestry[c], i, Len(Ancestry[c]))

VARIABLES
    version,        \* version of the code that is deployed
    yml,            \* yml[c]: version of the code the file of c was made of
    metadir,        \* whether the directory jms-metadir exists
    cache,          \* cache[c]: the metadata of c in jms-serializer/metadata
    cachedir,       \* whether this directory exists
    pc,             \* pc[p]: the next call of process p
    code,           \* code[p]: version of the code p runs
    class,          \* class[p]: the class p is about to (de)serialize
    index,          \* index[p]: how far p is in the hierarchy of this class
    generated,      \* generated[p]: self::$runtimeGeneratedCache
    tmp,            \* tmp[p]: whether the temporary file of p exists
    held,           \* held[p]: the metadata p has read and not yet cached
    flush,          \* the next call of SerializerService::clearCache
    quiet,          \* history: no process was alive during this flush
    past            \* history: what the last flush and deployment left

vars == <<version, yml, metadir, cache, cachedir, pc, code, class, index,
          generated, tmp, held, flush, quiet, past>>

files  == <<yml, metadir>>
cached == <<cache, cachedir>>
deploy == <<version, flush, quiet, past>>

Init ==
    /\ version = 1
    /\ yml = [c \in Classes |-> Missing]
    /\ cache = [c \in Classes |-> Missing]
    /\ metadir = FALSE
    /\ cachedir = FALSE
    /\ pc = [p \in Processes |-> "off"]
    /\ code = [p \in Processes |-> 1]
    /\ class = [p \in Processes |-> NoClass]
    /\ index = [p \in Processes |-> 1]
    /\ generated = [p \in Processes |-> {}]
    /\ tmp = [p \in Processes |-> FALSE]
    /\ held = [p \in Processes |-> Missing]
    /\ flush = "none"
    /\ quiet = FALSE
    /\ past = "settled"

-----------------------------------------------------------------------------
(* Mutant: getClassHierarchy without array_reverse. *)
LeafFirst(c) == Ancestry[c]

(* getClassHierarchy: the root first, c last. *)
getClassHierarchy(c) ==
    [i \in 1..Len(Ancestry[c]) |-> Ancestry[c][Len(Ancestry[c]) + 1 - i]]

(* The class of the hierarchy p has come to. *)
Current(p) == getClassHierarchy(class[p])[index[p]]
Exhausted(p) == index[p] > Len(Ancestry[class[p]])

Goto(p, step) == pc' = [pc EXCEPT ![p] = step]

(* A request starts and builds its serializer, which creates the directories.
   Where a flush is under way, the request is one that overlaps it. *)
Start(p) ==
    /\ pc[p] = "off"
    /\ Goto(p, "ready")
    /\ code' = [code EXCEPT ![p] = version]
    /\ metadir' = TRUE
    /\ cachedir' = TRUE
    /\ quiet' = FALSE
    /\ past' = IF flush # "none" THEN "disturbed" ELSE past
    /\ UNCHANGED <<version, yml, cache, class, index, generated, tmp, held, flush>>

(* generateAutoloadForClass, for any class the request comes to: a file that
   exists is taken to be good. *)
Choose(p) ==
    /\ pc[p] = "ready"
    /\ metadir' = TRUE
    /\ \E c \in Types :
         /\ class' = [class EXCEPT ![p] = c]
         /\ Goto(p, IF yml[c] # Missing THEN "read" ELSE "generate")
    /\ UNCHANGED <<yml, cached, code, index, generated, tmp, held, deploy>>

(* All files are there: the factory walks the hierarchy from the root. *)
ReadHierarchy(p) == Goto(p, "read") /\ index' = [index EXCEPT ![p] = 1]

Generate(p) ==
    /\ pc[p] = "generate"
    /\ IF Exhausted(p)
         THEN ReadHierarchy(p) /\ UNCHANGED metadir
       ELSE IF Current(p) \in generated[p]
         THEN index' = [index EXCEPT ![p] = @ + 1] /\ UNCHANGED <<pc, metadir>>
       ELSE metadir' = TRUE /\ Goto(p, "write") /\ UNCHANGED index
    /\ UNCHANGED <<yml, cached, code, class, generated, tmp, held, deploy>>

(* Mutant: file_put_contents into the final file. *)
WriteInPlace(p) ==
    /\ pc[p] = "write"
    /\ yml' = IF metadir THEN [yml EXCEPT ![Current(p)] = Partial] ELSE yml
    /\ tmp' = [tmp EXCEPT ![p] = metadir]
    /\ Goto(p, "rename")
    /\ UNCHANGED <<metadir, cached, code, class, index, generated, held, deploy>>

(* file_put_contents of the temporary file; a warning if a flush has taken
   the directory away. *)
Write(p) ==
    /\ pc[p] = "write"
    /\ tmp' = [tmp EXCEPT ![p] = metadir]
    /\ Goto(p, "rename")
    /\ UNCHANGED <<files, cached, code, class, index, generated, held, deploy>>

(* rename to the file of the class; a warning if the temporary file is gone.
   The class counts as generated either way. *)
Rename(p) ==
    /\ pc[p] = "rename"
    /\ yml' = IF tmp[p] THEN [yml EXCEPT ![Current(p)] = code[p]] ELSE yml
    /\ tmp' = [tmp EXCEPT ![p] = FALSE]
    /\ generated' = [generated EXCEPT ![p] = @ \cup {Current(p)}]
    /\ index' = [index EXCEPT ![p] = @ + 1]
    /\ Goto(p, "generate")
    /\ UNCHANGED <<metadir, cached, code, class, held, deploy>>

(* Mutant: a driver chain with the yml driver only. *)
OnlyFromFile(p) == yml[Current(p)]

(* Of a class without yml file the driver chain takes the bare class. *)
FromDriver(p) == IF yml[Current(p)] = Missing THEN Fallback ELSE yml[Current(p)]

(* The metadata factory (JMS): the metadata of the class from its cache, or
   else from its driver. *)
Read(p) ==
    /\ pc[p] = "read"
    /\ IF Exhausted(p)
         THEN /\ Goto(p, "ready")
              /\ class' = [class EXCEPT ![p] = NoClass]
              /\ index' = [index EXCEPT ![p] = 1]
              /\ UNCHANGED held
       ELSE IF cache[Current(p)] # Missing
         THEN index' = [index EXCEPT ![p] = @ + 1] /\ UNCHANGED <<pc, class, held>>
       ELSE /\ held' = [held EXCEPT ![p] = FromDriver(p)]
            /\ Goto(p, "put")
            /\ UNCHANGED <<class, index>>
    /\ UNCHANGED <<files, cached, code, generated, tmp, deploy>>

(* What was read is cached; without the directory the request fails (End). *)
Put(p) ==
    /\ pc[p] = "put"
    /\ cachedir
    /\ cache' = [cache EXCEPT ![Current(p)] = held[p]]
    /\ held' = [held EXCEPT ![p] = Missing]
    /\ index' = [index EXCEPT ![p] = @ + 1]
    /\ Goto(p, "read")
    /\ UNCHANGED <<files, cachedir, code, class, generated, tmp, deploy>>

(* The request ends, after its last class or (it fails or dies) at any step. *)
End(p) ==
    /\ pc[p] # "off"
    /\ Goto(p, "off")
    /\ code' = [code EXCEPT ![p] = 1]
    /\ class' = [class EXCEPT ![p] = NoClass]
    /\ index' = [index EXCEPT ![p] = 1]
    /\ generated' = [generated EXCEPT ![p] = {}]
    /\ tmp' = [tmp EXCEPT ![p] = FALSE]
    /\ held' = [held EXCEPT ![p] = Missing]
    /\ UNCHANGED <<files, cached, deploy>>

-----------------------------------------------------------------------------
(* SerializerService::clearCache: each directory is renamed, created anew and
   removed.  jms-serializer comes back without its subdirectory metadata,
   which only a request that starts creates. *)
processes == <<pc, code, class, index, generated, held>>

NobodyAlive == \A p \in Processes : pc[p] = "off"

FlushCache ==
    /\ flush = "none"
    /\ flush' = "metadir"
    /\ cache' = [c \in Classes |-> Missing]
    /\ cachedir' = FALSE
    /\ quiet' = NobodyAlive
    /\ past' = IF NobodyAlive THEN past ELSE "disturbed"
    /\ UNCHANGED <<version, files, processes, tmp>>

(* Mutant: clearCache flushes the JMS cache only. *)
FlushNothing ==
    /\ flush = "metadir"
    /\ flush' = "mkdir"
    /\ UNCHANGED <<version, files, cached, processes, tmp, quiet, past>>

FlushMetadir ==
    /\ flush = "metadir"
    /\ flush' = "mkdir"
    /\ yml' = [c \in Classes |-> Missing]
    /\ tmp' = [p \in Processes |-> FALSE]
    /\ metadir' = FALSE
    /\ UNCHANGED <<version, cached, processes, quiet, past>>

FlushMkdir ==
    /\ flush = "mkdir"
    /\ flush' = "none"
    /\ metadir' = TRUE
    /\ quiet' = FALSE
    /\ past' = IF quiet THEN "settled" ELSE "disturbed"
    /\ UNCHANGED <<version, yml, cached, processes, tmp>>

(* New code, with other classes or annotations, for the requests to come. *)
Deploy ==
    /\ version < MaxVersion
    /\ version' = version + 1
    /\ past' = IF past = "settled" THEN "undisturbed" ELSE past
    /\ UNCHANGED <<files, cached, processes, tmp, flush, quiet>>

Request(p) ==
    \/ Start(p)
    \/ Choose(p)
    \/ Generate(p)
    \/ Write(p)
    \/ Rename(p)
    \/ Read(p)
    \/ Put(p)
    \/ End(p)

Next ==
    \/ \E p \in Processes : Request(p)
    \/ FlushCache
    \/ FlushMetadir
    \/ FlushMkdir
    \/ Deploy

Spec == Init /\ [][Next]_vars

-----------------------------------------------------------------------------
(* Properties *)

(* Every variable keeps its type; a process that is to write or to cache
   metadata is at a class of the hierarchy, and has some to cache. *)
TypeOK ==
    /\ version \in Versions
    /\ yml \in [Classes -> {Missing, Partial} \cup Versions]
    /\ cache \in [Classes -> {Missing, Partial, Fallback} \cup Versions]
    /\ metadir \in BOOLEAN
    /\ cachedir \in BOOLEAN
    /\ pc \in [Processes -> {"off", "ready", "generate", "write", "rename",
                             "read", "put"}]
    /\ code \in [Processes -> Versions]
    /\ class \in [Processes -> Classes \cup {NoClass}]
    /\ index \in [Processes -> Nat]
    /\ generated \in [Processes -> SUBSET Classes]
    /\ tmp \in [Processes -> BOOLEAN]
    /\ held \in [Processes -> {Missing, Partial, Fallback} \cup Versions]
    /\ flush \in {"none", "metadir", "mkdir"}
    /\ quiet \in BOOLEAN
    /\ past \in {"settled", "undisturbed", "disturbed"}
    /\ \A p \in Processes :
         pc[p] \in {"write", "rename", "put"} =>
           class[p] \in Classes /\ index[p] \in 1..Len(Ancestry[class[p]])
    /\ \A p \in Processes : pc[p] = "put" => held[p] # Missing

(* The file of a class, which is all generateAutoloadForClass looks at, stands
   for the files of all its ancestors, each written to its end, wherever the
   processes that generated them died; unless a flush overlapped a request. *)
HierarchyGenerated ==
    past # "disturbed" =>
      \A c \in Classes : yml[c] # Missing =>
        \A i \in 1..Len(Ancestry[c]) : yml[Ancestry[c][i]] \in Versions

(* The metadata factory never caches what it makes of a class without the yml
   file, which would be used for all later requests; unless a flush overlapped
   a request. *)
NeverFallback ==
    past # "disturbed" => \A c \in Classes : cache[c] # Fallback

(* After a flush that overlapped no request, no metadata of code that was
   deployed before it is left or comes back, in neither directory, until the
   next deployment. *)
FreshAfterFlush ==
    past = "settled" =>
      \A c \in Classes : {yml[c], cache[c]} \subseteq {Missing, version}
================================================================================
