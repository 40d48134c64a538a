-------------------------------- MODULE MCDispatch --------------------------------
(***************************************************************************)
(* Constants for model checking Dispatch: a resource with a storage page,  *)
(* one with another, one without any (and with operations of methods that  *)
(* no handler serves), and one of files; the project's own handler takes   *)
(* one operation, whose path a later resource has as well.                 *)
(***************************************************************************)
EXTENDS Dispatch

CONSTANTS en, de, CustomPriority

Op(resource, kind, method, path, main) ==
    [resource |-> resource, entity |-> resource, kind |-> kind, method |-> method,
     path |-> path, main |-> main, pages |-> IF main = 0 THEN {} ELSE {main},
     file |-> resource = 4]

MCRoutes == <<
    Op(1, "item", "GET", "a", 1),
    Op(1, "item", "PUT", "a", 1),
    Op(1, "item", "PATCH", "a", 1),
    Op(1, "item", "DELETE", "a", 1),
    Op(1, "collection", "GET", "c", 1),
    Op(2, "collection", "POST", "b", 2),
    Op(2, "collection", "GET", "b", 2),
    Op(3, "item", "POST", "a", 0),
    Op(3, "collection", "GET", "b", 0),
    Op(3, "collection", "PUT", "c", 0),
    Op(4, "collection", "POST", "c", 0)>>

H(class, priority) == [class |-> class, priority |-> priority]

MCRegistered == <<
    H("Options", 10500),
    H("FileUpload", -400),
    H("CollectionGet", -500),
    H("CollectionPost", -500),
    H("CollectionMethodNotAllowed", -9999),
    H("ItemGet", -500),
    H("ItemPut", -500),
    H("ItemPatch", -500),
    H("ItemDelete", -500),
    H("ItemMethodNotAllowed", -9999),
    H("Custom", CustomPriority)>>

MCCustomSupports == {o \in Operations : o.resource = 2 /\ o.method = "GET"}
================================================================================
