-------------------------------- MODULE MCFilters ---------------------------------
(***************************************************************************)
(* Constants for model checking Filters: order filters of two parameters,  *)
(* one of which a search filter uses as well, a search over two properties *)
(* and a range; query strings of up to two parameters.                     *)
(***************************************************************************)
EXTENDS Filters

F(class, parameter, property, direction) ==
    [class |-> class, parameter |-> parameter, property |-> property,
     direction |-> direction]

MCRegistered == <<
    F("order", "order", "date", ""),
    F("order", "order", "title", "asc"),
    F("equal", "order", "text", ""),
    F("order", "sort", "title", "desc"),
    F("range", "date", "date", ""),
    F("equal", "search", "title", ""),
    F("equal", "search", "text", "")>>

E(key, value) == [key |-> key, value |-> value]
P(name, entries) == [name |-> name, entries |-> entries]

Parameters == {
    P("order", <<E("date", "asc"), E("title", "desc")>>),
    P("order", <<E("title", ""), E("date", "")>>),
    P("order", <<E("uid", "asc"), E("title", "asc"), E("date", "desc")>>),
    P("order", <<E("date", "up")>>),
    P("order", <<E(NoKey, "asc")>>),
    P("sort", <<E("title", "")>>),
    P("date", <<E("gt", 1), E("lt", 3)>>),
    P("date", <<E("gt", 2)>>),
    P("date", <<E(NoKey, 2)>>),
    P("search", <<E(NoKey, "asc")>>),
    P("search", <<E("0", "a"), E("1", "asc")>>)}

MCQueryStrings ==
    {<<>>} \cup {<<p>> : p \in Parameters}
           \cup {q \in Parameters \X Parameters : q[1].name # q[2].name}

MCRecords == [date : 1 .. 3, title : {"a", "asc"}, text : {"a", "asc"}]
================================================================================
