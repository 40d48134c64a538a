------------------------------ MODULE MCOperations ------------------------------
(***************************************************************************)
(* Constants for model checking Operations: news records with a title that *)
(* must not be empty and an author, of which one exists at first.          *)
(***************************************************************************)
EXTENDS Operations, TLC

CONSTANTS w1, w2        \* PHP processes
CONSTANTS none, a, b    \* property values: empty, and two others

MCProperties  == {"title", "author"}
MCValues      == {none, a, b}
MCBlank       == [p \in MCProperties |-> none]
MCValidValues == [title |-> {a, b}, author |-> {none, a, b}]

Columns(title, author) == [title |-> title, author |-> author]

(* A body for each case: both properties, one of them, none, an invalid title,
   a page inside and a page outside the storage. *)
MCPayloads ==
    { [columns |-> [title |-> a],                pid |-> NullPid],
      [columns |-> [author |-> b],               pid |-> NullPid],
      [columns |-> [title |-> b, author |-> a],  pid |-> 2],
      [columns |-> [title |-> a, author |-> a],  pid |-> 9],
      [columns |-> [title |-> none],             pid |-> NullPid] }

SmallPayloads ==
    { [columns |-> [title |-> a],                pid |-> NullPid],
      [columns |-> [author |-> b],               pid |-> NullPid],
      [columns |-> [title |-> none],             pid |-> NullPid] }

MCStoragePageIds == {1, 2}

(* A `security` on the author, a `security_post_denormalize` as well. *)
MCSecurityAllows        == {o \in Objects : o["author"] # b}
MCPostDenormalizeAllows == {o \in Objects : o["author"] # a}

NoMethods    == {}
AllMethods   == Methods
Writing      == {"POST", "PUT", "PATCH"}
ItemWriting  == {"PUT", "PATCH"}

NoEdits      == {}
ListenerEdit == {Columns(b, a)}

Symmetric == Permutations(Workers)
================================================================================
