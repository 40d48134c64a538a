------------------------------ MODULE ResourceStore ------------------------------
(***************************************************************************)
(* What the HTTP API of t3api promises to its clients, as an atomic store. *)
(*                                                                         *)
(* A request is opened, takes effect at most once and in one step, and is  *)
(* then answered with a status that tells whether it took effect; or it is *)
(* abandoned (its PHP process died) and never answered.  Operations.tla is *)
(* the pipeline of handlers that implements this with several processes    *)
(* working on the same table.                                              *)
(***************************************************************************)
EXTENDS Integers

CONSTANTS
    Workers,        \* the PHP processes, each handling one request at a time
    Uids,           \* the uids of the table, used and still unused
    Properties,     \* the mapped properties of the entity
    ValidValues     \* ValidValues[p]: the values the validators of p accept

VARIABLES
    rows,           \* the table: rows[u] is the record of uid u
    stage,          \* stage[w]: how far w's request has come
    method,         \* method[w]: the HTTP method of w's request
    status          \* status[w]: the HTTP status of w's answer, 0 before it

vars == <<rows, stage, method, status>>

Changing == {"POST", "PUT", "PATCH", "DELETE"}
Success  == {200, 201}
Refusal  == {400, 403, 404}

Acceptable(columns) == \A p \in Properties : columns[p] \in ValidValues[p]

Init ==
    /\ \A u \in Uids : rows[u].state = "live" => Acceptable(rows[u].columns)
    /\ stage = [w \in Workers |-> "idle"]
    /\ method = [w \in Workers |-> "none"]
    /\ status = [w \in Workers |-> 0]

Open(w) ==
    /\ stage[w] = "idle"
    /\ stage' = [stage EXCEPT ![w] = "open"]
    /\ \E m \in Changing \cup {"GET"} : method' = [method EXCEPT ![w] = m]
    /\ UNCHANGED <<rows, status>>

(* A POST turns an unused uid into a live, acceptable record. *)
Create(u) ==
    /\ rows[u].state = "free"
    /\ rows'[u].state = "live"
    /\ Acceptable(rows'[u].columns)

(* A PUT or a PATCH changes the columns of one record, to acceptable ones,
   and neither its page nor whether it is deleted. *)
Change(u) ==
    /\ rows[u].state # "free"
    /\ rows'[u].state = rows[u].state
    /\ rows'[u].pid = rows[u].pid
    /\ Acceptable(rows'[u].columns)

(* A DELETE marks one record as deleted and keeps its columns. *)
Remove(u) ==
    /\ rows[u].state # "free"
    /\ rows'[u] = [rows[u] EXCEPT !.state = "deleted"]

(* The one step in which the request of w takes effect, on one record. *)
Effect(w) ==
    /\ stage[w] = "open"
    /\ method[w] \in Changing
    /\ stage' = [stage EXCEPT ![w] = "effected"]
    /\ \E u \in Uids :
         /\ \A v \in Uids \ {u} : rows'[v] = rows[v]
         /\ \/ method[w] = "POST" /\ Create(u)
            \/ method[w] \in {"PUT", "PATCH"} /\ Change(u)
            \/ method[w] = "DELETE" /\ Remove(u)
    /\ UNCHANGED <<method, status>>

(* A success is answered only once the request took effect (a GET has none),
   a refusal only when it did not; a 500 leaves the client in doubt. *)
Answer(w, s) ==
    /\ stage[w] \in {"open", "effected"}
    /\ s \in Success => stage[w] = "effected" \/ method[w] = "GET"
    /\ s \in Refusal => stage[w] = "open"
    /\ stage' = [stage EXCEPT ![w] = "answered"]
    /\ status' = [status EXCEPT ![w] = s]
    /\ UNCHANGED <<rows, method>>

(* The answer is delivered, or the process dies before it has one. *)
Close(w) ==
    /\ stage[w] # "idle"
    /\ stage' = [stage EXCEPT ![w] = "idle"]
    /\ method' = [method EXCEPT ![w] = "none"]
    /\ status' = [status EXCEPT ![w] = 0]
    /\ UNCHANGED rows

Next ==
    \E w \in Workers :
        \/ Open(w)
        \/ Effect(w)
        \/ \E s \in Success \cup Refusal \cup {500} : Answer(w, s)
        \/ Close(w)

Spec == Init /\ [][Next]_vars
================================================================================
