----------------------------- MODULE NdgVariables ----------------------------
(***************************************************************************)
(* NgxVariable.hpp, NgxComplexValue.hpp (and NgxScript.hpp, its twin) and   *)
(* http/variables, for a request and its subrequest.  Nginx keeps the      *)
(* values of indexed variables in r->variables, an array that a subrequest *)
(* shares with its parent unless NgxSubRequest copies it; the others are   *)
(* computed at each use.  What nginx does with the array and with the      *)
(* variables args and note, which stand for those of nginx and of other    *)
(* modules, is external.                                                   *)
(***************************************************************************)
EXTENDS Naturals

CONSTANTS
    Uris,       \* the URIs that a request may have, by internal redirects too
    Texts,      \* what a variable may be set to, "" one of them
    Days,       \* bound: the days that a request may last
    NoValue     \* no value

ASSUME VariablesAssumption == NoValue \notin Nat /\ NoValue \notin Texts

Main == "main"
Sub == "sub"
Requests == {Main, Sub}

VARIABLES
    indexed,    \* the variables that the configuration mentions
    uri,        \* of each request; NoValue before it is made
    args,       \* the query string of each, an nginx variable with a set handler
    day,        \* the clock
    array,      \* r->variables, by request; a request uses that of holder
    holder,     \* whose array a request uses
    note,       \* ghost: what the array was set to, by NgxVariable::set
    first       \* ghost: the value of today that was first put in each array

variablesVars == <<indexed, uri, args, day, array, holder, note, first>>

-------------------------------------------------------------------------------

Flags(changeable, nocacheable, set_handler) ==
    [changeable |-> changeable, nocacheable |-> nocacheable, set_handler |-> set_handler]

\* Mutant: parsed_uri without its flag.
get_varsCached == [today |-> Flags(FALSE, FALSE, FALSE), parsed_uri |-> Flags(FALSE, FALSE, FALSE)]

\* NdgVariablesHandler::get_vars; rtt and current_method have the flags and the
\* dependence on the request that parsed_uri has.
get_vars == [today |-> Flags(FALSE, FALSE, FALSE), parsed_uri |-> Flags(FALSE, TRUE, FALSE)]

\* Variables of others: one like $args, one like those of the set directive.
others == [args |-> Flags(TRUE, TRUE, TRUE), note |-> Flags(TRUE, FALSE, FALSE)]

Names == DOMAIN get_vars \cup DOMAIN others
flags(v) == IF v \in DOMAIN get_vars THEN get_vars[v] ELSE others[v]

Blank == [state |-> "none", value |-> NoValue, no_cacheable |-> FALSE]

VariablesInit ==
    /\ indexed = {}
    /\ uri = [r \in Requests |-> NoValue]
    /\ args = [r \in Requests |-> NoValue]
    /\ day = 1
    /\ array = [r \in Requests |-> [v \in Names |-> Blank]]
    /\ holder = [r \in Requests |-> r]
    /\ note = [r \in Requests |-> NoValue]
    /\ first = [r \in Requests |-> NoValue]

\* NgxComplexValue::init: compiling a text gives the variables in it an index.
compile(v) ==
    /\ uri[Main] = NoValue
    /\ indexed' = indexed \cup {v}
    /\ UNCHANGED <<uri, args, day, array, holder, note, first>>

start(u, a) ==
    /\ uri[Main] = NoValue
    /\ uri' = [uri EXCEPT ![Main] = u]
    /\ args' = [args EXCEPT ![Main] = a]
    /\ UNCHANGED <<indexed, day, array, holder, note, first>>

redirect(u) ==
    /\ uri[Main] # NoValue
    /\ uri' = [uri EXCEPT ![Main] = u]
    /\ UNCHANGED <<indexed, args, day, array, holder, note, first>>

\* NgxSubRequest::create: the array is that of the parent, or with copy_vars what
\* copy_variables puts in a new one.
share == holder' = [holder EXCEPT ![Sub] = Main] /\ UNCHANGED <<array, note, first>>

copy_variables ==
    /\ array' = [array EXCEPT ![Sub] = array[Main]]
    /\ note' = [note EXCEPT ![Sub] = note[Main]]
    /\ first' = [first EXCEPT ![Sub] = first[Main]]
    /\ UNCHANGED holder

subrequest(u, a) ==
    /\ uri[Main] # NoValue
    /\ uri[Sub] = NoValue
    /\ uri' = [uri EXCEPT ![Sub] = u]
    /\ args' = [args EXCEPT ![Sub] = a]
    /\ share \/ copy_variables
    /\ UNCHANGED <<indexed, day>>

midnight ==
    /\ day < Days
    /\ day' = day + 1
    /\ UNCHANGED <<indexed, uri, args, array, holder, note, first>>

-------------------------------------------------------------------------------
\* Reading.

\* The get handlers, which call NgxVariableValue::set: a value is valid if it is
\* not cleared, and not "no cacheable" before nginx says so.
value(val, clear) == [state |-> IF clear THEN "not_found" ELSE "valid",
                      value |-> IF clear THEN NoValue ELSE val, no_cacheable |-> FALSE]

get_today == value(day, FALSE)
get_parsed_uri(r) == value(uri[r], FALSE)

get_handler(r, v) ==
    CASE v = "today" -> get_today
      [] v = "parsed_uri" -> get_parsed_uri(r)
      [] v = "args" -> value(args[r], args[r] = "")
      [] v = "note" -> value(NoValue, TRUE)

\* ngx_http_get_flushed_variable: what is cached is used, unless the flag says no.
flushed(r, v) ==
    LET c == array[holder[r]][v]
    IN  IF c.state # "none" /\ ~c.no_cacheable THEN c
        ELSE [get_handler(r, v) EXCEPT !.no_cacheable = flags(v).nocacheable]

\* NgxVariableValue::str: what is not valid is the empty string.
str(c) == IF c.state = "valid" THEN c.value ELSE ""

\* The value that a read finds.
found(r, v) == IF v \in indexed THEN flushed(r, v) ELSE get_handler(r, v)

\* NgxVariable::get, and NgxComplexValue::str of a text with one variable.
get(r, v) ==
    /\ uri[r] # NoValue
    /\ v \in indexed
    /\ array' = [array EXCEPT ![holder[r]][v] = found(r, v)]
    /\ first' = IF v = "today" /\ first[holder[r]] = NoValue
                THEN [first EXCEPT ![holder[r]] = found(r, v).value] ELSE first
    /\ UNCHANGED <<indexed, uri, args, day, holder, note>>

-------------------------------------------------------------------------------
\* Writing.

\* NgxVariable::set: a variable must be changeable, and have a set handler or a
\* place in the array.
set(r, v, text) ==
    /\ uri[r] # NoValue
    /\ flags(v).changeable
    /\ IF flags(v).set_handler
       THEN /\ args' = [args EXCEPT ![r] = text]
            /\ UNCHANGED <<array, note>>
       ELSE /\ v \in indexed
            /\ array' = [array EXCEPT ![holder[r]][v] = value(text, text = "")]
            /\ note' = [note EXCEPT ![holder[r]] = text]
            /\ UNCHANGED args
    /\ UNCHANGED <<indexed, uri, day, holder, first>>

VariablesNext ==
    \/ \E v \in Names : compile(v)
    \/ \E u \in Uris, a \in Texts : start(u, a) \/ subrequest(u, a)
    \/ \E u \in Uris : redirect(u)
    \/ midnight
    \/ \E r \in Requests, v \in Names : get(r, v)
    \/ \E r \in Requests, v \in Names, t \in Texts : set(r, v, t)

VariablesSpec == VariablesInit /\ [][VariablesNext]_variablesVars

-------------------------------------------------------------------------------

\* What a read is to return: what was set; the day on which the requests of this
\* array first asked; else the truth about the request itself.
Due(r, v) ==
    IF v \notin indexed THEN str(get_handler(r, v))
    ELSE IF v = "today" /\ first[holder[r]] # NoValue THEN first[holder[r]]
    ELSE IF v = "note" /\ note[holder[r]] # NoValue THEN note[holder[r]]
    ELSE str(get_handler(r, v))

\* A request and its subrequest share one array of values, so what one of them
\* has read or set is there for the other.  All the same each gets its own URI
\* and arguments, as they are now and not as they were before an internal
\* redirect; a variable that was set keeps its value; and the date, which may be
\* cached, is the same for all that share it, also after midnight.
Fresh ==
    \A r \in Requests, v \in Names : uri[r] # NoValue => str(found(r, v)) = Due(r, v)

===============================================================================
