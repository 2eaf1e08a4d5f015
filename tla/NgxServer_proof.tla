---------------------------- MODULE NgxServer_proof ---------------------------
(***************************************************************************)
(* Proofs about the parts of the server around a request: that every read  *)
(* of a variable is fresh, that the counter of a segment of shared memory  *)
(* loses nothing, that the innermost value that a file of directives gives *)
(* is the one that a request reads, and what becomes of its subrequest.    *)
(***************************************************************************)
EXTENDS NgxConfiguration, NdgVariables, NdgShmem, NdgSubrequest, SequenceTheorems, TLAPS

\* What r->variables has of one variable.
Held == Nat \cup Texts \cup Uris \cup {NoValue}
Cells == [state: {"none", "valid", "not_found"}, value: Held, no_cacheable: BOOLEAN]

\* Every request uses some array, and what an array has of each variable is right:
\* the day that was first read in it, what was last set, or nothing that may be
\* used again.
TodayKept(a) ==
    LET c == array[a]["today"]
    IN  IF first[a] = NoValue THEN c.state = "none"
        ELSE c.state = "valid" /\ c.value = first[a] /\ ~c.no_cacheable

NoteKept(a) ==
    LET c == array[a]["note"]
    IN  IF note[a] = NoValue THEN c.state \in {"none", "not_found"}
        ELSE c.state # "none" /\ ~c.no_cacheable /\ str(c) = note[a]

NotKept(c) == c.state = "none" \/ c.no_cacheable

Kept ==
    /\ day \in Nat
    /\ uri \in [Requests -> Uris \cup {NoValue}]
    /\ args \in [Requests -> Texts \cup {NoValue}]
    /\ holder \in [Requests -> Requests]
    /\ array \in [Requests -> [Names -> Cells]]
    /\ note \in [Requests -> Texts \cup {NoValue}]
    /\ first \in [Requests -> Nat \cup {NoValue}]
    /\ \A a \in Requests :
        /\ TodayKept(a) /\ NoteKept(a)
        /\ NotKept(array[a]["parsed_uri"]) /\ NotKept(array[a]["args"])

LEMMA NamesAre ==
    /\ Names = {"today", "parsed_uri", "args", "note"}
    /\ flags("today") = Flags(FALSE, FALSE, FALSE)
    /\ flags("parsed_uri") = Flags(FALSE, TRUE, FALSE)
    /\ flags("args") = Flags(TRUE, TRUE, TRUE)
    /\ flags("note") = Flags(TRUE, FALSE, FALSE)
<1>1. /\ DOMAIN get_vars = {"today", "parsed_uri"}
      /\ get_vars["today"] = Flags(FALSE, FALSE, FALSE)
      /\ get_vars["parsed_uri"] = Flags(FALSE, TRUE, FALSE)
  BY DEF get_vars
<1>2. /\ DOMAIN others = {"args", "note"}
      /\ others["args"] = Flags(TRUE, TRUE, TRUE)
      /\ others["note"] = Flags(TRUE, FALSE, FALSE)
  BY DEF others
<1> QED
  BY <1>1, <1>2 DEF Names, flags

\* The get handlers make a valid value, or none; NgxVariable::set too.
LEMMA ValueIs ==
    ASSUME NEW val \in Held, NEW clear \in BOOLEAN
    PROVE  /\ value(val, clear) \in Cells
           /\ value(val, clear).state = IF clear THEN "not_found" ELSE "valid"
           /\ value(val, clear).value = IF clear THEN NoValue ELSE val
           /\ ~value(val, clear).no_cacheable
           /\ str(value(val, clear)) = IF clear THEN "" ELSE val
<1>1. NoValue \in Held
  BY DEF Held
<1> QED
  BY <1>1 DEF value, Cells, str

LEMMA Marked ==
    ASSUME NEW c \in Cells, NEW b \in BOOLEAN
    PROVE  /\ [c EXCEPT !.no_cacheable = b] \in Cells
           /\ [c EXCEPT !.no_cacheable = b].state = c.state
           /\ [c EXCEPT !.no_cacheable = b].value = c.value
           /\ [c EXCEPT !.no_cacheable = b].no_cacheable = b
           /\ str([c EXCEPT !.no_cacheable = b]) = str(c)
<1>1. /\ [c EXCEPT !.no_cacheable = b] \in Cells
      /\ [c EXCEPT !.no_cacheable = b].state = c.state
      /\ [c EXCEPT !.no_cacheable = b].value = c.value
      /\ [c EXCEPT !.no_cacheable = b].no_cacheable = b
  BY DEF Cells
<1> QED
  BY <1>1 DEF str

LEMMA HandlersAre ==
    ASSUME Kept, NEW r \in Requests
    PROVE  /\ get_handler(r, "today") = value(day, FALSE) /\ day \in Held
           /\ get_handler(r, "parsed_uri") = value(uri[r], FALSE) /\ uri[r] \in Held
           /\ get_handler(r, "args") = value(args[r], args[r] = "") /\ args[r] \in Held
           /\ get_handler(r, "note") = value(NoValue, TRUE) /\ NoValue \in Held
<1>1. day \in Held /\ uri[r] \in Held /\ args[r] \in Held /\ NoValue \in Held
  BY DEF Kept, Held
<1>2. get_handler(r, "today") = value(day, FALSE)
  BY DEF get_handler, get_today
<1>3. get_handler(r, "parsed_uri") = value(uri[r], FALSE)
  BY DEF get_handler, get_parsed_uri
<1>4. get_handler(r, "args") = value(args[r], args[r] = "")
  BY DEF get_handler
<1>5. get_handler(r, "note") = value(NoValue, TRUE)
  BY DEF get_handler
<1> QED
  BY <1>1, <1>2, <1>3, <1>4, <1>5

LEMMA HandlersGive ==
    ASSUME Kept, NEW r \in Requests
    PROVE  /\ get_handler(r, "today") \in Cells /\ get_handler(r, "today").state = "valid"
           /\ get_handler(r, "today").value = day /\ str(get_handler(r, "today")) = day
           /\ get_handler(r, "parsed_uri") \in Cells
           /\ str(get_handler(r, "parsed_uri")) = uri[r]
           /\ get_handler(r, "args") \in Cells
           /\ get_handler(r, "note") \in Cells
           /\ get_handler(r, "note").state = "not_found"
           /\ str(get_handler(r, "note")) = ""
<1>1. TRUE \in BOOLEAN /\ FALSE \in BOOLEAN /\ (args[r] = "") \in BOOLEAN
  OBVIOUS
<1>2. /\ value(day, FALSE) \in Cells /\ value(day, FALSE).state = "valid"
      /\ value(day, FALSE).value = day /\ str(value(day, FALSE)) = day
  <2>1. day \in Held
    BY HandlersAre
  <2> QED
    BY <1>1, <2>1, ValueIs
<1>3. value(uri[r], FALSE) \in Cells /\ str(value(uri[r], FALSE)) = uri[r]
  <2>1. uri[r] \in Held
    BY HandlersAre
  <2> QED
    BY <1>1, <2>1, ValueIs
<1>4. value(args[r], args[r] = "") \in Cells
  <2>1. args[r] \in Held
    BY HandlersAre
  <2> QED
    BY <1>1, <2>1, ValueIs
<1>5. /\ value(NoValue, TRUE) \in Cells /\ value(NoValue, TRUE).state = "not_found"
      /\ str(value(NoValue, TRUE)) = ""
  <2>1. NoValue \in Held
    BY HandlersAre
  <2> QED
    BY <1>1, <2>1, ValueIs
<1> QED
  BY <1>2, <1>3, <1>4, <1>5, HandlersAre

\* What nginx takes from the array, or asks the handler for and puts there.
LEMMA FlushedIs ==
    ASSUME Kept, NEW r \in Requests
    PROVE  LET a == holder[r]
           IN  /\ IF first[a] = NoValue
                  THEN /\ flushed(r, "today").value = day
                       /\ str(flushed(r, "today")) = day
                  ELSE /\ flushed(r, "today").value = first[a]
                       /\ str(flushed(r, "today")) = first[a]
               /\ flushed(r, "today") \in Cells
               /\ flushed(r, "today").state = "valid" /\ ~flushed(r, "today").no_cacheable
               /\ str(flushed(r, "parsed_uri")) = uri[r]
               /\ flushed(r, "parsed_uri") \in Cells /\ flushed(r, "parsed_uri").no_cacheable
               /\ str(flushed(r, "args")) = str(get_handler(r, "args"))
               /\ flushed(r, "args") \in Cells /\ flushed(r, "args").no_cacheable
               /\ str(flushed(r, "note")) = IF note[a] = NoValue THEN "" ELSE note[a]
               /\ flushed(r, "note") \in Cells
               /\ flushed(r, "note").state \in
                    IF note[a] = NoValue THEN {"not_found"} ELSE {"valid", "not_found"}
               /\ note[a] # NoValue => ~flushed(r, "note").no_cacheable
<1> DEFINE a == holder[r]
           h(v) == get_handler(r, v)
<1>1. a \in Requests
  BY DEF Kept
<1>2. /\ TodayKept(a) /\ NoteKept(a)
      /\ NotKept(array[a]["parsed_uri"]) /\ NotKept(array[a]["args"])
      /\ array[a]["today"] \in Cells /\ array[a]["note"] \in Cells
  BY <1>1, NamesAre DEF Kept
<1>3. /\ h("today") \in Cells /\ h("today").state = "valid" /\ h("today").value = day
      /\ str(h("today")) = day
      /\ h("parsed_uri") \in Cells /\ str(h("parsed_uri")) = uri[r]
      /\ h("args") \in Cells
      /\ h("note") \in Cells /\ h("note").state = "not_found" /\ str(h("note")) = ""
  BY HandlersGive
<1>4. ASSUME NEW v \in {"today", "parsed_uri", "args", "note"}
      PROVE  flushed(r, v) = LET c == array[a][v]
                             IN  IF c.state # "none" /\ ~c.no_cacheable THEN c
                                 ELSE [h(v) EXCEPT !.no_cacheable = flags(v).nocacheable]
  BY DEF flushed
<1> HIDE DEF a, h
<1>5. /\ IF first[a] = NoValue
         THEN flushed(r, "today").value = day /\ str(flushed(r, "today")) = day
         ELSE flushed(r, "today").value = first[a] /\ str(flushed(r, "today")) = first[a]
      /\ flushed(r, "today") \in Cells
      /\ flushed(r, "today").state = "valid" /\ ~flushed(r, "today").no_cacheable
  <2>1. CASE first[a] = NoValue
    <3>1. flushed(r, "today") = [h("today") EXCEPT !.no_cacheable = FALSE]
      BY <1>2, <1>4, <2>1, NamesAre DEF TodayKept, Flags
    <3> QED
      BY <1>3, <2>1, <3>1, Marked
  <2>2. CASE first[a] # NoValue
    <3>1. flushed(r, "today") = array[a]["today"]
      BY <1>2, <1>4, <2>2 DEF TodayKept
    <3> QED
      BY <1>2, <2>2, <3>1 DEF TodayKept, str
  <2> QED
    BY <2>1, <2>2
<1>6. ASSUME NEW v \in {"parsed_uri", "args"}
      PROVE  flushed(r, v) \in Cells /\ flushed(r, v).no_cacheable
             /\ str(flushed(r, v)) = str(h(v))
  <2>1. flushed(r, v) = [h(v) EXCEPT !.no_cacheable = TRUE]
    BY <1>2, <1>4, <1>6, NamesAre DEF NotKept, Flags
  <2>2. h(v) \in Cells
    BY <1>3, <1>6
  <2>3. TRUE \in BOOLEAN
    OBVIOUS
  <2> QED
    BY <2>1, <2>2, <2>3, Marked
<1>7. /\ str(flushed(r, "note")) = IF note[a] = NoValue THEN "" ELSE note[a]
      /\ flushed(r, "note") \in Cells
      /\ flushed(r, "note").state \in
            IF note[a] = NoValue THEN {"not_found"} ELSE {"valid", "not_found"}
      /\ note[a] # NoValue => ~flushed(r, "note").no_cacheable
  <2>1. CASE flushed(r, "note") = array[a]["note"] /\ array[a]["note"].state # "none"
             /\ ~array[a]["note"].no_cacheable
    BY <1>2, <2>1 DEF NoteKept, str, Cells
  <2>2. CASE flushed(r, "note") = [h("note") EXCEPT !.no_cacheable = FALSE]
             /\ ~(array[a]["note"].state # "none" /\ ~array[a]["note"].no_cacheable)
    <3>1. note[a] = NoValue
      BY <1>2, <2>2 DEF NoteKept
    <3>2. FALSE \in BOOLEAN
      OBVIOUS
    <3> QED
      BY <1>3, <2>2, <3>1, <3>2, Marked
  <2>3. flags("note").nocacheable = FALSE
    BY NamesAre DEF Flags
  <2> QED
    BY <1>4, <2>1, <2>2, <2>3
<1> QED
  BY <1>3, <1>5, <1>6, <1>7 DEF a, h

\* A step that only changes the requests, or what is looked up, or the clock.
LEMMA ArraysKept ==
    ASSUME Kept, UNCHANGED <<array, note, first>>, day' \in Nat,
           uri' \in [Requests -> Uris \cup {NoValue}],
           args' \in [Requests -> Texts \cup {NoValue}],
           holder' \in [Requests -> Requests]
    PROVE  Kept'
BY DEF Kept, TodayKept, NoteKept, NotKept, str

LEMMA SubrequestKeeps ==
    ASSUME Kept, NEW u \in Uris, NEW a \in Texts, subrequest(u, a)
    PROVE  Kept'
<1>1. /\ uri' \in [Requests -> Uris \cup {NoValue}]
      /\ args' \in [Requests -> Texts \cup {NoValue}]
      /\ day' = day
  BY DEF Kept, subrequest
<1>2. Main \in Requests /\ Sub \in Requests
  BY DEF Requests
<1>3. CASE share
  <2>1. holder' \in [Requests -> Requests] /\ UNCHANGED <<array, note, first>>
    BY <1>2, <1>3 DEF Kept, share
  <2> QED
    BY <1>1, <2>1, ArraysKept DEF Kept
<1>4. CASE copy_variables
  <2>1. /\ array' \in [Requests -> [Names -> Cells]]
        /\ note' \in [Requests -> Texts \cup {NoValue}]
        /\ first' \in [Requests -> Nat \cup {NoValue}]
        /\ holder' = holder
    BY <1>2, <1>4 DEF Kept, copy_variables
  <2>2. ASSUME NEW b \in Requests
        PROVE  \E c \in Requests :
                  array'[b] = array[c] /\ note'[b] = note[c] /\ first'[b] = first[c]
    <3>1. CASE b = Sub
      BY <1>2, <1>4, <3>1 DEF Kept, copy_variables
    <3>2. CASE b # Sub
      BY <1>2, <1>4, <3>2 DEF Kept, copy_variables
    <3> QED
      BY <3>1, <3>2
  <2>3. ASSUME NEW b \in Requests
        PROVE  /\ TodayKept(b)' /\ NoteKept(b)'
               /\ NotKept(array[b]["parsed_uri"])' /\ NotKept(array[b]["args"])'
    <3>1. PICK c \in Requests :
                  array'[b] = array[c] /\ note'[b] = note[c] /\ first'[b] = first[c]
      BY <2>2
    <3>2. /\ TodayKept(c) /\ NoteKept(c)
          /\ NotKept(array[c]["parsed_uri"]) /\ NotKept(array[c]["args"])
      BY DEF Kept
    <3>3. TodayKept(b)'
      BY <3>1, <3>2 DEF TodayKept
    <3>4. NoteKept(b)'
      BY <3>1, <3>2 DEF NoteKept, str
    <3>5. NotKept(array[b]["parsed_uri"])' /\ NotKept(array[b]["args"])'
      BY <3>1, <3>2 DEF NotKept
    <3> QED
      BY <3>3, <3>4, <3>5
  <2> QED
    BY <1>1, <2>1, <2>3 DEF Kept
<1> QED
  BY <1>3, <1>4 DEF subrequest

\* A read leaves in the array what it found.
LEMMA GetKeeps ==
    ASSUME Kept, NEW r \in Requests, NEW v \in Names, get(r, v)
    PROVE  Kept'
<1> DEFINE a == holder[r]
           c == flushed(r, v)
<1>1. a \in Requests
  BY DEF Kept
<1>2. /\ array' = [array EXCEPT ![a][v] = c]
      /\ first' = IF v = "today" /\ first[a] = NoValue THEN [first EXCEPT ![a] = c.value]
                  ELSE first
      /\ UNCHANGED <<uri, args, day, holder, note>>
  BY DEF get, found
<1>3. v \in {"today", "parsed_uri", "args", "note"}
  BY NamesAre
<1>4. /\ c \in Cells
      /\ v = "today" => c.state = "valid" /\ ~c.no_cacheable
                        /\ c.value = IF first[a] = NoValue THEN day ELSE first[a]
      /\ v \in {"parsed_uri", "args"} => c.no_cacheable
      /\ v = "note" => IF note[a] = NoValue THEN c.state = "not_found"
                       ELSE c.state # "none" /\ ~c.no_cacheable /\ str(c) = note[a]
  <2>1. CASE v = "today"
    BY <2>1, FlushedIs
  <2>2. CASE v \in {"parsed_uri", "args"}
    BY <2>2, FlushedIs
  <2>3. CASE v = "note"
    BY <2>3, FlushedIs
  <2> QED
    BY <1>3, <2>1, <2>2, <2>3
<1> HIDE DEF a, c
<1>5. /\ array' \in [Requests -> [Names -> Cells]]
      /\ array'[a][v] = c
      /\ \A b \in Requests, w \in Names : b # a \/ w # v => array'[b][w] = array[b][w]
  BY <1>1, <1>2, <1>4 DEF Kept
<1>6. /\ first' \in [Requests -> Nat \cup {NoValue}]
      /\ first'[a] = IF v = "today" /\ first[a] = NoValue THEN day ELSE first[a]
      /\ \A b \in Requests \ {a} : first'[b] = first[b]
  BY <1>1, <1>2, <1>4 DEF Kept
<1>7. ASSUME NEW b \in Requests
      PROVE  /\ TodayKept(b)' /\ NoteKept(b)'
             /\ NotKept(array[b]["parsed_uri"])' /\ NotKept(array[b]["args"])'
  <2>1. {"today", "parsed_uri", "args", "note"} = Names
    BY NamesAre
  <2>2. /\ TodayKept(b) /\ NoteKept(b)
        /\ NotKept(array[b]["parsed_uri"]) /\ NotKept(array[b]["args"])
    BY DEF Kept
  <2>3. TodayKept(b)'
    BY <1>4, <1>5, <1>6, <2>1, <2>2, VariablesAssumption DEF TodayKept, Kept
  <2>4. NoteKept(b)'
    BY <1>2, <1>4, <1>5, <2>1, <2>2 DEF NoteKept, str
  <2>5. NotKept(array[b]["parsed_uri"])' /\ NotKept(array[b]["args"])'
    BY <1>4, <1>5, <2>1, <2>2 DEF NotKept
  <2> QED
    BY <2>3, <2>4, <2>5
<1> QED
  BY <1>2, <1>5, <1>6, <1>7 DEF Kept

LEMMA SetKeeps ==
    ASSUME Kept, NEW r \in Requests, NEW v \in Names, NEW t \in Texts, set(r, v, t)
    PROVE  Kept'
<1> DEFINE a == holder[r]
           c == value(t, t = "")
<1>1. a \in Requests
  BY DEF Kept
<1>2. CASE flags(v).set_handler
  <2>1. args' = [args EXCEPT ![r] = t] /\ UNCHANGED <<uri, day, array, holder, note, first>>
    BY <1>2 DEF set
  <2>2. args' \in [Requests -> Texts \cup {NoValue}]
    BY <2>1 DEF Kept
  <2> QED
    BY <2>1, <2>2, ArraysKept DEF Kept
<1>3. CASE ~flags(v).set_handler
  <2>1. v = "note"
    <3>1. v \in {"today", "parsed_uri", "args", "note"} /\ flags(v).changeable
      BY NamesAre DEF set
    <3>2. /\ ~flags("today").changeable /\ ~flags("parsed_uri").changeable
          /\ flags("args").set_handler
      BY NamesAre DEF Flags
    <3> QED
      BY <1>3, <3>1, <3>2
  <2>2. /\ array' = [array EXCEPT ![a]["note"] = c] /\ note' = [note EXCEPT ![a] = t]
        /\ UNCHANGED <<uri, args, day, holder, first>>
    BY <1>3, <2>1 DEF set
  <2>3. c \in Cells /\ c.state # "none" /\ ~c.no_cacheable /\ str(c) = t
    <3>1. t \in Held /\ (t = "") \in BOOLEAN
      BY DEF Held
    <3> QED
      BY <3>1, ValueIs
  <2> HIDE DEF a, c
  <2>4. /\ array' \in [Requests -> [Names -> Cells]]
        /\ array'[a]["note"] = c
        /\ \A b \in Requests, w \in Names : b # a \/ w # "note" => array'[b][w] = array[b][w]
    BY <1>1, <2>1, <2>2, <2>3 DEF Kept
  <2>5. /\ note' \in [Requests -> Texts \cup {NoValue}]
        /\ note'[a] = t
        /\ \A b \in Requests \ {a} : note'[b] = note[b]
    BY <1>1, <2>2 DEF Kept
  <2>6. ASSUME NEW b \in Requests
        PROVE  /\ TodayKept(b)' /\ NoteKept(b)'
               /\ NotKept(array[b]["parsed_uri"])' /\ NotKept(array[b]["args"])'
    <3>1. {"today", "parsed_uri", "args", "note"} = Names
      BY NamesAre
    <3>2. /\ TodayKept(b) /\ NoteKept(b)
          /\ NotKept(array[b]["parsed_uri"]) /\ NotKept(array[b]["args"])
      BY DEF Kept
    <3>3. TodayKept(b)'
      BY <2>2, <2>4, <3>1, <3>2 DEF TodayKept
    <3>4. NoteKept(b)'
      <4>1. "note" \in Names /\ t # NoValue
        BY <3>1, VariablesAssumption
      <4>2. CASE b = a
        BY <2>3, <2>4, <2>5, <4>1, <4>2 DEF NoteKept, str
      <4>3. CASE b # a
        BY <2>4, <2>5, <3>2, <4>1, <4>3 DEF NoteKept, str
      <4> QED
        BY <4>2, <4>3
    <3>5. NotKept(array[b]["parsed_uri"])' /\ NotKept(array[b]["args"])'
      BY <2>4, <3>1, <3>2 DEF NotKept
    <3> QED
      BY <3>3, <3>4, <3>5
  <2> QED
    BY <2>2, <2>4, <2>5, <2>6 DEF Kept
<1> QED
  BY <1>2, <1>3

LEMMA VariablesKept == Kept /\ [VariablesNext]_variablesVars => Kept'
<1> SUFFICES ASSUME Kept, [VariablesNext]_variablesVars
             PROVE  Kept'
  OBVIOUS
<1>1. CASE \E v \in Names : compile(v)
  BY <1>1, ArraysKept DEF compile, Kept
<1>2. CASE \E u \in Uris, a \in Texts : start(u, a)
  <2>1. PICK u \in Uris, a \in Texts : start(u, a)
    BY <1>2
  <2>2. /\ uri' \in [Requests -> Uris \cup {NoValue}]
        /\ args' \in [Requests -> Texts \cup {NoValue}]
    BY <2>1 DEF start, Kept
  <2> QED
    BY <2>1, <2>2, ArraysKept DEF start, Kept
<1>3. CASE \E u \in Uris, a \in Texts : subrequest(u, a)
  BY <1>3, SubrequestKeeps
<1>4. CASE \E u \in Uris : redirect(u)
  <2>1. PICK u \in Uris : redirect(u)
    BY <1>4
  <2>2. uri' \in [Requests -> Uris \cup {NoValue}]
    BY <2>1 DEF redirect, Kept
  <2> QED
    BY <2>1, <2>2, ArraysKept DEF redirect, Kept
<1>5. CASE midnight
  BY <1>5, ArraysKept DEF midnight, Kept
<1>6. CASE \E r \in Requests, v \in Names : get(r, v)
  BY <1>6, GetKeeps
<1>7. CASE \E r \in Requests, v \in Names, t \in Texts : set(r, v, t)
  BY <1>7, SetKeeps
<1>8. CASE UNCHANGED variablesVars
  BY <1>8, ArraysKept DEF variablesVars, Kept
<1> QED
  BY <1>1, <1>2, <1>3, <1>4, <1>5, <1>6, <1>7, <1>8 DEF VariablesNext

LEMMA KeptIsFresh == Kept => Fresh
<1> SUFFICES ASSUME Kept, NEW r \in Requests, NEW v \in Names
             PROVE  str(found(r, v)) = Due(r, v)
  BY DEF Fresh
<1>1. CASE v \notin indexed
  BY <1>1 DEF found, Due
<1>2. CASE v \in indexed
  <2>1. found(r, v) = flushed(r, v)
    BY <1>2 DEF found
  <2>2. CASE v = "today"
    <3>1. str(get_handler(r, "today")) = day
      BY HandlersGive
    <3> QED
      BY <1>2, <2>1, <2>2, <3>1, FlushedIs DEF Due
  <2>3. CASE v = "parsed_uri"
    <3>1. str(get_handler(r, "parsed_uri")) = uri[r]
      BY HandlersGive
    <3> QED
      BY <1>2, <2>1, <2>3, <3>1, FlushedIs DEF Due
  <2>4. CASE v = "args"
    BY <1>2, <2>1, <2>4, FlushedIs DEF Due
  <2>5. CASE v = "note"
    <3>1. str(get_handler(r, "note")) = ""
      BY HandlersGive
    <3> QED
      BY <1>2, <2>1, <2>5, <3>1, FlushedIs DEF Due
  <2> QED
    BY <2>2, <2>3, <2>4, <2>5, NamesAre
<1> QED
  BY <1>1, <1>2

\* Every read of a variable is fresh (NgxVariable::get, NgxSubRequest::copy_variables):
\* for any URIs and texts, any number of days, and an array that is shared or copied.
THEOREM VariablesFresh == VariablesSpec => []Fresh
<1>1. VariablesInit => Kept
  <2>1. Blank \in Cells /\ Blank.state = "none"
    BY DEF Blank, Cells, Held
  <2> QED
    BY <2>1, NamesAre DEF VariablesInit, Kept, TodayKept, NoteKept, NotKept
<1> QED
  BY <1>1, VariablesKept, KeptIsFresh, PTL DEF VariablesSpec

-------------------------------------------------------------------------------
\* NdgShmem: no count is lost, for any number of workers and segments.  Counted
\* alone is not inductive: it has to be known that a worker that is about to add
\* has found a counter in its segment, which nothing takes away.

States == {"idle", "open", "find", "construct", "add"}
Segment == [size: Nat, counter: Nat \cup {None}, lock: Workers \cup {None}]

ShmemTypes ==
    /\ size \in Nat
    /\ named \in Segments \cup {None}
    /\ segments \in [Segments -> Segment]
    /\ worker \in [Workers -> States]
    /\ segment \in [Workers -> Segments \cup {None}]
    /\ counted \in [Segments -> Nat]

\* Past the static initialisation a worker has a segment, and past
\* find_or_construct the segment has a counter.
HasCounter ==
    \A w \in Workers :
        /\ worker[w] \in {"find", "construct", "add"} => segment[w] \in Segments
        /\ worker[w] = "add" => segments[segment[w]].counter # None

Counting == ShmemTypes /\ HasCounter /\ Counted

\* What the steps do to one segment: its size, its lock, its lock and counter.
LEMMA SegmentSize ==
    ASSUME NEW s \in Segment, NEW n \in Nat
    PROVE  /\ [s EXCEPT !.size = n] \in Segment
           /\ [s EXCEPT !.size = n].counter = s.counter
BY DEF Segment

LEMMA SegmentLock ==
    ASSUME NEW s \in Segment, NEW l \in Workers \cup {None}
    PROVE  /\ [s EXCEPT !.lock = l] \in Segment
           /\ [s EXCEPT !.lock = l].counter = s.counter
BY DEF Segment

LEMMA SegmentCounter ==
    ASSUME NEW s \in Segment, NEW c \in Nat \cup {None}, NEW l \in Workers \cup {None}
    PROVE  /\ [s EXCEPT !.lock = l, !.counter = c] \in Segment
           /\ [s EXCEPT !.lock = l, !.counter = c].counter = c
           /\ [s EXCEPT !.counter = c] \in Segment
           /\ [s EXCEPT !.counter = c].counter = c
BY DEF Segment

\* A step that keeps every counter, and leaves no worker further than it was,
\* keeps the invariant: the worker it moves has a segment if it needs one.
LEMMA CountersKept ==
    ASSUME Counting, ShmemTypes', UNCHANGED counted,
           \A s \in Segments : segments'[s].counter = segments[s].counter,
           \A w \in Workers :
               /\ worker'[w] = "add" => worker[w] = "add" /\ segment'[w] = segment[w]
               /\ worker'[w] \in {"find", "construct"} => segment'[w] \in Segments
    PROVE  Counting'
<1>1. Counted'
  BY DEF Counting, Counted
<1>2. HasCounter'
  BY DEF Counting, HasCounter, ShmemTypes
<1> QED
  BY <1>1, <1>2 DEF Counting

\* The steps of the request.
LEMMA EndsKeeps ==
    ASSUME Counting, NEW w \in Workers, ends(w)
    PROVE  Counting'
<1>1. ShmemTypes'
  BY DEF Counting, ShmemTypes, ends, Goto, States
<1>2. \A v \in Workers : worker'[v] \in {"find", "construct"} => segment'[v] \in Segments
  BY DEF Counting, ShmemTypes, HasCounter, ends, Goto
<1>3. \A v \in Workers : worker'[v] = "add" => worker[v] = "add" /\ segment'[v] = segment[v]
  BY DEF Counting, ShmemTypes, ends, Goto
<1> QED
  BY <1>1, <1>2, <1>3, CountersKept DEF ends

LEMMA OpenKeeps ==
    ASSUME Counting, NEW w \in Workers, openOrCreate(w)
    PROVE  Counting'
<1>1. PICK s \in Segments :
          /\ named' = s
          /\ segments' = IF named = None THEN [segments EXCEPT ![s].size = size] ELSE segments
          /\ IF segments'[s].size < Least THEN Gone(w)
             ELSE /\ segment' = [segment EXCEPT ![w] = s]
                  /\ Goto(w, "find")
  BY DEF Counting, ShmemTypes, openOrCreate
<1>2. /\ segments' \in [Segments -> Segment]
      /\ \A t \in Segments : segments'[t].counter = segments[t].counter
  <2>1. CASE named = None
    <3>1. segments' = [segments EXCEPT ![s] = [segments[s] EXCEPT !.size = size]]
      BY <1>1, <2>1
    <3>2. /\ [segments[s] EXCEPT !.size = size] \in Segment
          /\ [segments[s] EXCEPT !.size = size].counter = segments[s].counter
      BY SegmentSize DEF Counting, ShmemTypes
    <3> QED
      BY <3>1, <3>2 DEF Counting, ShmemTypes
  <2> QED
    BY <1>1, <2>1 DEF Counting, ShmemTypes
<1>3. /\ worker' \in [Workers -> States]
      /\ segment' \in [Workers -> Segments \cup {None}]
      /\ \A v \in Workers :
             /\ worker'[v] = "add" => worker[v] = "add" /\ segment'[v] = segment[v]
             /\ worker'[v] \in {"find", "construct"} => segment'[v] \in Segments
  <2>1. CASE Gone(w)
    BY <2>1 DEF Gone, Counting, ShmemTypes, HasCounter, States
  <2>2. CASE segment' = [segment EXCEPT ![w] = s] /\ Goto(w, "find")
    BY <2>2 DEF Goto, Counting, ShmemTypes, HasCounter, States
  <2> QED
    BY <1>1, <2>1, <2>2
<1>4. ShmemTypes'
  BY <1>1, <1>2, <1>3 DEF Counting, ShmemTypes, openOrCreate
<1> QED
  BY <1>2, <1>3, <1>4, CountersKept DEF openOrCreate

LEMMA LockKeeps ==
    ASSUME Counting, NEW w \in Workers, lock(w)
    PROVE  Counting'
<1> DEFINE s == segment[w]
<1>1. s \in Segments
  BY DEF Counting, HasCounter, lock
<1>2. /\ [segments[s] EXCEPT !.lock = w] \in Segment
      /\ [segments[s] EXCEPT !.lock = w].counter = segments[s].counter
  BY <1>1, SegmentLock DEF Counting, ShmemTypes
<1>3. segments' = [segments EXCEPT ![s] = [segments[s] EXCEPT !.lock = w]]
  BY DEF lock
<1>4. \A t \in Segments : segments'[t].counter = segments[t].counter
  BY <1>1, <1>2, <1>3 DEF Counting, ShmemTypes
<1>5. ShmemTypes'
  BY <1>1, <1>2, <1>3 DEF Counting, ShmemTypes, lock, Goto, States
<1>6. \A v \in Workers :
          /\ worker'[v] = "add" => worker[v] = "add" /\ segment'[v] = segment[v]
          /\ worker'[v] \in {"find", "construct"} => segment'[v] \in Segments
  BY <1>1 DEF Counting, ShmemTypes, HasCounter, lock, Goto
<1> QED
  BY <1>4, <1>5, <1>6, CountersKept DEF lock

LEMMA ConstructKeeps ==
    ASSUME Counting, NEW w \in Workers, find_or_construct(w), None \notin Nat
    PROVE  Counting'
<1> DEFINE s == segment[w]
<1>1. s \in Segments /\ segments[s] \in Segment
  BY DEF Counting, ShmemTypes, HasCounter, find_or_construct
<1>2. PICK c \in Nat : c = IF segments[s].counter = None THEN 0 ELSE segments[s].counter
  BY <1>1 DEF Segment
<1>3. segments' = [segments EXCEPT ![s] = [segments[s] EXCEPT !.lock = None, !.counter = c]]
  <2>1. segments' = constructed(w)
    BY DEF find_or_construct
  <2> QED
    BY <1>2, <2>1, Zenon DEF constructed
<1>4. /\ [segments[s] EXCEPT !.lock = None, !.counter = c] \in Segment
      /\ [segments[s] EXCEPT !.lock = None, !.counter = c].counter = c
  <2>1. c \in Nat \cup {None} /\ None \in Workers \cup {None}
    BY <1>2
  <2> QED
    BY <1>1, <2>1, SegmentCounter
<1>5. /\ segments' \in [Segments -> Segment]
      /\ segments'[s].counter = c
      /\ \A t \in Segments \ {s} : segments'[t] = segments[t]
  BY <1>1, <1>3, <1>4 DEF Counting, ShmemTypes
<1>6. ShmemTypes'
  BY <1>5 DEF Counting, ShmemTypes, find_or_construct, Goto, States
<1>7. c = counted[s]
  BY <1>1, <1>2 DEF Counting, ShmemTypes, Counted
<1>8. Counted'
  BY <1>2, <1>5, <1>7 DEF Counting, Counted, find_or_construct
<1>9. HasCounter'
  BY <1>1, <1>2, <1>5 DEF Counting, ShmemTypes, HasCounter, find_or_construct, Goto
<1> QED
  BY <1>6, <1>8, <1>9 DEF Counting

LEMMA AddKeeps ==
    ASSUME Counting, NEW w \in Workers, add(w), None \notin Nat
    PROVE  Counting'
<1> DEFINE s == segment[w]
           c == segments[s].counter + 1
<1>1. /\ s \in Segments
      /\ segments[s] \in Segment
      /\ segments[s].counter # None
  BY DEF Counting, ShmemTypes, HasCounter, add
<1>2. segments[s].counter = counted[s] /\ counted[s] \in Nat
  BY <1>1 DEF Counting, ShmemTypes, Counted
<1>3. c \in Nat /\ c # None
  BY <1>2
<1>4. segments' = [segments EXCEPT ![s] = [segments[s] EXCEPT !.counter = c]]
  BY DEF add
<1>5. /\ [segments[s] EXCEPT !.counter = c] \in Segment
      /\ [segments[s] EXCEPT !.counter = c].counter = c
  BY <1>1, <1>3, SegmentCounter
<1>6. /\ segments' \in [Segments -> Segment]
      /\ segments'[s].counter = c
      /\ \A t \in Segments \ {s} : segments'[t] = segments[t]
  BY <1>1, <1>4, <1>5 DEF Counting, ShmemTypes
<1>7. /\ counted' \in [Segments -> Nat]
      /\ counted'[s] = c
      /\ \A t \in Segments \ {s} : counted'[t] = counted[t]
  BY <1>1, <1>2, <1>3 DEF Counting, ShmemTypes, add
<1>8. ShmemTypes'
  BY <1>6, <1>7 DEF Counting, ShmemTypes, add, Goto, States
<1>9. Counted'
  BY <1>3, <1>6, <1>7 DEF Counting, Counted
<1>10. HasCounter'
  BY <1>1, <1>3, <1>6 DEF Counting, ShmemTypes, HasCounter, add, Goto
<1> QED
  BY <1>8, <1>9, <1>10 DEF Counting

\* The processes: nobody gains a segment, and no counter changes.
LEMMA ProcessesKeep ==
    ASSUME Counting, Sizes \subseteq Nat,
           (\E w \in Workers : killed(w)) \/ reload \/ upgrade \/ exit_master \/ UNCHANGED shmemVars
    PROVE  Counting'
<1>1. CASE \E w \in Workers : killed(w)
  <2>1. PICK w \in Workers : killed(w)
    BY <1>1
  <2>2. ShmemTypes'
    BY <2>1 DEF Counting, ShmemTypes, killed, Gone, States
  <2>3. \A v \in Workers :
            /\ worker'[v] = "add" => worker[v] = "add" /\ segment'[v] = segment[v]
            /\ worker'[v] \in {"find", "construct"} => segment'[v] \in Segments
    BY <2>1 DEF Counting, ShmemTypes, HasCounter, killed, Gone
  <2> QED
    BY <2>1, <2>2, <2>3, CountersKept DEF killed
<1>2. CASE reload
  <2>1. ShmemTypes'
    BY <1>2 DEF Counting, ShmemTypes, reload
  <2> QED
    BY <1>2, <2>1, CountersKept DEF reload
<1>3. CASE upgrade \/ exit_master \/ UNCHANGED shmemVars
  <2>1. ShmemTypes' /\ UNCHANGED <<segments, worker, segment, counted>>
    BY <1>3 DEF Counting, ShmemTypes, upgrade, exit_master, shmemVars
  <2> QED
    BY <2>1, CountersKept DEF Counting, HasCounter
<1> QED
  BY <1>1, <1>2, <1>3

\* A new segment has no counter and nothing has been added to it.
LEMMA InitCounting ==
    ASSUME ShmemInit, None \notin Nat, Sizes \subseteq Nat
    PROVE  Counting
<1>1. [size |-> 0, counter |-> None, lock |-> None] \in Segment
  BY DEF Segment
<1>2. ShmemTypes
  BY <1>1 DEF ShmemInit, ShmemTypes, States
<1>3. HasCounter /\ Counted
  BY DEF ShmemInit, HasCounter, Counted
<1> QED
  BY <1>2, <1>3 DEF Counting

\* No count is lost (NdgShmemHandler::handler), for any number of workers, of
\* segments and of bytes: the counter of a segment is what was added to it.
THEOREM ShmemCounted == ShmemSpec => []Counted
<1>1. ShmemInit => Counting
  BY ShmemAssumption, InitCounting
<1>2. Counting /\ [ShmemNext]_shmemVars => Counting'
  <2> SUFFICES ASSUME Counting, [ShmemNext]_shmemVars
               PROVE  Counting'
    OBVIOUS
  <2>1. CASE \E w \in Workers : ends(w)
    BY <2>1, EndsKeeps
  <2>2. CASE \E w \in Workers : openOrCreate(w)
    BY <2>2, OpenKeeps
  <2>3. CASE \E w \in Workers : lock(w)
    BY <2>3, LockKeeps
  <2>4. CASE \E w \in Workers : find_or_construct(w)
    BY <2>4, ShmemAssumption, ConstructKeeps
  <2>5. CASE \E w \in Workers : add(w)
    BY <2>5, ShmemAssumption, AddKeeps
  <2>6. CASE (\E w \in Workers : killed(w)) \/ reload \/ upgrade \/ exit_master \/ UNCHANGED shmemVars
    BY <2>6, ShmemAssumption, ProcessesKeep
  <2> QED
    BY <2>1, <2>2, <2>3, <2>4, <2>5, <2>6 DEF ShmemNext
<1>3. Counting => Counted
  BY DEF Counting
<1> QED
  BY <1>1, <1>2, <1>3, PTL DEF ShmemSpec

-------------------------------------------------------------------------------
\* NgxConfiguration: what a request reads is the value of the innermost block that
\* gave one.  Up to the end of the file a field is what was said first; then the
\* blocks become, one after the other, what is nearest to them.

Fields == {"msg", "headers", "footer", "enabled", "loc", "args", "upstream", "init",
           "size", "timeout"}

Inherits(b, f) == IF b = "ssrv" THEN f = "timeout"
                  ELSE b \in {"srv", "loc", "nest"} /\ f \in {"enabled", "loc", "args"}

Shaped ==
    /\ DOMAIN conf = Blocks
    /\ \A b \in Blocks : DOMAIN conf[b] = Fields
    /\ DOMAIN handler = Blocks

\* A location that is answered by a module has what the handler reads.
Answered ==
    \A b \in Location :
        handler[b] # Unset => /\ handler[b] \in {"echo", "subrequest", "upstream"}
                              /\ conf[b][Reads[handler[b]]] # Unset

Reading == stage \in {"pre", "parse"} => merged = {} /\ conf = said

\* The blocks that are merged with the one around them have their values; nothing
\* else has changed since the file was read.
Merging ==
    stage \in {"merge", "post", "serve"} =>
        /\ stage \in {"post", "serve"} => merged = DOMAIN Parent
        /\ \A b \in Blocks, f \in Fields :
            IF Inherits(b, f) /\ b \in merged THEN Nearest(b, f, conf[b][f])
            ELSE conf[b][f] = said[b][f] \/ (b = "main" /\ f = "size")

Configured == count \in Nat /\ Shaped /\ Answered /\ Reading /\ Merging

LEMMA CreateIs ==
    /\ DOMAIN create = Fields
    /\ \A f \in Fields : create[f] = Unset
BY DEF create, Fields

LEMMA ReadsAre ==
    Reads["echo"] = "msg" /\ Reads["subrequest"] = "loc" /\ Reads["upstream"] = "upstream"
BY DEF Reads

LEMMA ParentsAre ==
    /\ DOMAIN Parent = {"srv", "loc", "nest", "ssrv"}
    /\ Parent["srv"] = "main" /\ Parent["loc"] = "srv" /\ Parent["nest"] = "loc"
    /\ Parent["ssrv"] = "smain"
BY DEF Parent

LEMMA AroundIs ==
    /\ Around["main"] = {"main"} /\ Around["smain"] = {"smain"}
    /\ \A b \in DOMAIN Parent : /\ Around[b] = Around[Parent[b]] \cup {b}
                                /\ b \notin Around[Parent[b]]
<1>1. /\ Around["main"] = {"main"}
      /\ Around["srv"] = {"main", "srv"}
      /\ Around["loc"] = {"main", "srv", "loc"}
      /\ Around["nest"] = {"main", "srv", "loc", "nest"}
      /\ Around["smain"] = {"smain"}
      /\ Around["ssrv"] = {"smain", "ssrv"}
  BY DEF Around
<1>2. ASSUME NEW b \in {"srv", "loc", "nest", "ssrv"}
      PROVE  Around[b] = Around[Parent[b]] \cup {b} /\ b \notin Around[Parent[b]]
  <2>1. CASE b = "srv"
    BY <1>1, <2>1, ParentsAre
  <2>2. CASE b = "loc"
    BY <1>1, <2>2, ParentsAre
  <2>3. CASE b = "nest"
    BY <1>1, <2>3, ParentsAre
  <2>4. CASE b = "ssrv"
    BY <1>1, <2>4, ParentsAre
  <2> QED
    BY <2>1, <2>2, <2>3, <2>4
<1> QED
  BY <1>1, <1>2, ParentsAre

\* What the directives have in common: which field each setter fills, and where
\* the ones that only set a handler may stand.
Sound(c) ==
    /\ c.at \subseteq Blocks
    /\ c.set \in {"slot", "keyval", "echo", "legacy_echo", "subrequest", "upstream",
                  "balance", "other", "discard", "time"}
    /\ c.set \in {"echo", "legacy_echo"} => c.field = "msg"
    /\ c.set = "subrequest" => c.field = "loc"
    /\ c.set = "upstream" => c.field = "upstream"
    /\ c.set = "keyval" => c.field = "headers"
    /\ c.set \in {"balance", "other"} => c.field = "init"
    /\ c.set = "slot" => c.field \in Fields
    /\ c.set \in {"discard", "time"} => c.at \cap Location = {}

LEMMA CmdIs ==
    ASSUME NEW x, NEW at, NEW n, NEW s, NEW f,
           at \subseteq Blocks,
           \/ s = "slot" /\ f \in Fields
           \/ s \in {"echo", "legacy_echo"} /\ f = "msg"
           \/ s = "subrequest" /\ f = "loc"
           \/ s = "upstream" /\ f = "upstream"
           \/ s = "keyval" /\ f = "headers"
           \/ s \in {"balance", "other"} /\ f = "init"
           \/ s \in {"discard", "time"} /\ at \cap Location = {}
    PROVE  Sound(Cmd(x, at, n, s, f))
BY DEF Cmd, Sound

LEMMA CmdsAreSound == ASSUME NEW c \in cmds PROVE Sound(c)
<1>1. PICK m \in modules : c \in m.cmds
  BY DEF cmds
<1>2. Location \subseteq Blocks /\ {"srv", "main", "ups", "ssrv"} \subseteq Blocks
      /\ {"ssrv"} \cap Location = {}
  BY DEF Location, Blocks
<1>3. CASE m \in {NdgEchoInit, NdgLegacyEchoInit}
  BY <1>1, <1>2, <1>3, CmdIs DEF NdgEchoInit, NdgLegacyEchoInit, Module
<1>4. CASE m \in {NdgFilterInit, NdgFooterInit}
  BY <1>1, <1>2, <1>4, CmdIs DEF NdgFilterInit, NdgFooterInit, Module, Fields
<1>5. CASE m = NdgTestInit
  BY <1>1, <1>2, <1>5, CmdIs DEF NdgTestInit, Module, Fields
<1>6. CASE m = NdgSubrequestInit
  BY <1>1, <1>2, <1>6, CmdIs DEF NdgSubrequestInit, Module, Fields
<1>7. CASE m \in {NdgUpstreamInit, NdgLoadBalanceInit, OtherBalancer}
  BY <1>1, <1>2, <1>7, CmdIs DEF NdgUpstreamInit, NdgLoadBalanceInit, OtherBalancer, Module
<1>8. CASE m = NdgShmemInit
  BY <1>1, <1>2, <1>8, CmdIs DEF NdgShmemInit, Module, Fields
<1>9. CASE m \in {NdgVariablesInit, NdgDataHookInit}
  BY <1>1, <1>9 DEF NdgVariablesInit, NdgDataHookInit, Module
<1>10. CASE m = NdgStreamDiscardInit
  <2>1. \/ c = Cmd("ndg_discard_time_out", {"ssrv"}, take(1, 0), "slot", "timeout")
        \/ c = Cmd("ndg_stream_discard", {"ssrv"}, take(0, 0), "discard", "")
    BY <1>1, <1>10 DEF NdgStreamDiscardInit, Module
  <2>2. "timeout" \in Fields
    BY DEF Fields
  <2> QED
    BY <1>2, <2>1, <2>2, CmdIs
<1>11. CASE m = NdgStreamTimeInit
  <2>1. c = Cmd("ndg_stream_time", {"ssrv"}, take(0, 0), "time", "")
    BY <1>1, <1>11 DEF NdgStreamTimeInit, Module
  <2> QED
    BY <1>2, <2>1, CmdIs
<1> QED
  BY <1>3, <1>4, <1>5, <1>6, <1>7, <1>8, <1>9, <1>10, <1>11 DEF modules

\* What a directive may do to the configurations and handlers of its block.
Filled(b, f, x) ==
    /\ conf' = [conf EXCEPT ![b][f] = x]
    /\ said' = [said EXCEPT ![b][f] = x]

Accepts(b) ==
    \/ UNCHANGED <<conf, said>>
    \/ \E f \in Fields : \E x :
         Filled(b, f, x) /\ (f \in {"msg", "loc", "upstream"} => x # Unset)

Handles(b) ==
    \/ UNCHANGED handler
    \/ \E h : /\ handler' = [handler EXCEPT ![b] = h]
              /\ b \in Location => /\ h \in {"echo", "subrequest", "upstream"}
                                   /\ conf'[b][Reads[h]] # Unset

LEMMA ValuesGiven ==
    ASSUME Configured, count' = count + 1, NEW f, NEW x \in Values(f)
    PROVE  x # Unset
<1>1. count' \in Nat
  BY DEF Configured
<1>2. x \in {count', Empty}
  BY DEF Values
<1> QED
  BY <1>1, <1>2, ConfigurationAssumption

LEMMA DirectiveDoes ==
    ASSUME Configured, NEW b \in Blocks, NEW c \in cmds, NEW n \in {0, 1, 2},
           directive(b, c, n)
    PROVE  \/ stage' \in {"refused", "dead"} /\ UNCHANGED <<conf, handler, said>>
           \/ stage' = stage /\ Accepts(b) /\ Handles(b)
<1>1. /\ Sound(c)
      /\ stage = "parse" /\ conf = said /\ b \in c.at /\ count' = count + 1
      /\ DOMAIN conf = Blocks /\ DOMAIN conf[b] = Fields
  BY CmdsAreSound DEF Configured, Reading, Shaped, directive
<1>2. CASE n \notin c.args
  BY <1>2 DEF directive, Refuse
<1>3. CASE n \in c.args
  <2>1. PICK v \in Values(c.field) :
            CASE c.set = "slot" -> slot(b, c.field, v)
              [] c.set = "keyval" -> keyval(b, c.field, v)
              [] c.set = "echo" -> set_echo(b, c.field, v)
              [] c.set = "legacy_echo" -> set_legacy_echo(b, c.field, v)
              [] c.set = "subrequest" -> set_subrequest_loc(b, c.field, v)
              [] c.set = "upstream" -> set_upstream_pass(b, c.field, v)
              [] c.set = "balance" -> set_load_balance(b, c.field)
              [] c.set = "other" -> other(b, c.field)
              [] c.set = "discard" -> set_discard(b)
              [] c.set = "time" -> set_time(b)
    BY <1>3 DEF directive
  <2>2. v # Unset
    BY <1>1, ValuesGiven
  <2>3. ASSUME NEW f \in Fields, conf[b][f] = Unset, NEW x, Give(b, f, x)
        PROVE  Filled(b, f, x)
    BY <1>1, <2>3 DEF Give, Filled
  <2>4. ASSUME NEW f \in Fields, NEW x, Filled(b, f, x)
        PROVE  conf'[b][f] = x
    BY <1>1, <2>4 DEF Filled
  <2>5. ASSUME NEW f \in Fields, NEW x, Filled(b, f, x), x # Unset \/ f \in {"headers", "init"}
        PROVE  Accepts(b)
    BY <2>5 DEF Accepts
  <2>6. ASSUME NEW h \in {"echo", "subrequest", "upstream"}, content(b, h),
               conf'[b][Reads[h]] # Unset
        PROVE  stage' = stage /\ Handles(b)
    BY <2>6 DEF content, Handles
  <2>7. {"msg", "loc", "upstream", "headers", "init"} \subseteq Fields
    BY DEF Fields
  <2>8. CASE c.set = "slot"
    <3>1. c.field \in Fields /\ slot(b, c.field, v)
      BY <1>1, <2>1, <2>8 DEF Sound
    <3> QED
      BY <2>2, <2>3, <2>5, <3>1 DEF slot, Refuse, Handles
  <2>9. CASE c.set = "keyval"
    <3>1. c.field = "headers" /\ keyval(b, c.field, v)
      BY <1>1, <2>1, <2>9 DEF Sound
    <3>2. PICK all : /\ Filled(b, "headers", all) /\ UNCHANGED <<stage, handler>>
      BY <3>1 DEF keyval, Filled
    <3> QED
      BY <2>5, <2>7, <3>2 DEF Handles
  <2>10. CASE c.set = "echo"
    <3>1. c.field = "msg" /\ set_echo(b, "msg", v)
      BY <1>1, <2>1, <2>10 DEF Sound
    <3>2. CASE conf[b]["msg"] # Unset
      BY <3>1, <3>2 DEF set_echo, Refuse
    <3>3. CASE conf[b]["msg"] = Unset
      <4>1. Filled(b, "msg", v) /\ content(b, "echo")
        BY <2>3, <2>7, <3>1, <3>3 DEF set_echo
      <4> QED
        BY <2>2, <2>4, <2>5, <2>6, <2>7, <4>1, ReadsAre
    <3> QED
      BY <3>2, <3>3
  <2>11. CASE c.set = "legacy_echo"
    <3>1. c.field = "msg" /\ set_legacy_echo(b, "msg", v)
      BY <1>1, <2>1, <2>11 DEF Sound
    <3>2. CASE stage' = "dead" /\ UNCHANGED <<conf, handler, said>>
      BY <3>2
    <3>3. CASE Filled(b, "msg", v) /\ content(b, "echo")
      BY <2>2, <2>4, <2>5, <2>6, <2>7, <3>3, ReadsAre
    <3> QED
      BY <3>1, <3>2, <3>3 DEF set_legacy_echo, Filled
  <2>12. CASE c.set = "subrequest"
    <3>1. c.field = "loc" /\ set_subrequest_loc(b, "loc", v)
      BY <1>1, <2>1, <2>12 DEF Sound
    <3>2. content(b, "subrequest")
      BY <3>1 DEF set_subrequest_loc
    <3>3. CASE conf[b]["loc"] = Unset
      <4>1. Filled(b, "loc", v)
        BY <2>3, <2>7, <3>1, <3>3 DEF set_subrequest_loc
      <4> QED
        BY <2>2, <2>4, <2>5, <2>6, <2>7, <3>2, <4>1, ReadsAre
    <3>4. CASE conf[b]["loc"] # Unset
      <4>1. UNCHANGED <<conf, said>>
        BY <3>1, <3>4 DEF set_subrequest_loc
      <4>2. conf'[b][Reads["subrequest"]] # Unset /\ Accepts(b)
        BY <3>4, <4>1, ReadsAre DEF Accepts
      <4> QED
        BY <2>6, <3>2, <4>2
    <3> QED
      BY <3>3, <3>4
  <2>13. CASE c.set = "upstream"
    <3>1. c.field = "upstream" /\ set_upstream_pass(b, "upstream", v)
      BY <1>1, <2>1, <2>13 DEF Sound
    <3>2. CASE Refuse
      BY <3>2 DEF Refuse
    <3>3. CASE Filled(b, "upstream", v) /\ content(b, "upstream")
      BY <2>2, <2>4, <2>5, <2>6, <2>7, <3>3, ReadsAre
    <3> QED
      BY <3>1, <3>2, <3>3 DEF set_upstream_pass, Filled
  <2>14. CASE c.set = "balance"
    <3>1. c.field = "init" /\ set_load_balance(b, "init")
      BY <1>1, <2>1, <2>14 DEF Sound
    <3>2. CASE conf[b]["init"] = Unset
      <4>1. Filled(b, "init", "ndg") /\ UNCHANGED <<stage, handler>>
        BY <2>3, <2>7, <3>1, <3>2 DEF set_load_balance
      <4> QED
        BY <2>5, <2>7, <4>1 DEF Handles
    <3>3. CASE conf[b]["init"] # Unset
      BY <3>1, <3>3 DEF set_load_balance
    <3> QED
      BY <3>2, <3>3
  <2>15. CASE c.set = "other"
    <3>1. c.field = "init" /\ other(b, "init")
      BY <1>1, <2>1, <2>15 DEF Sound
    <3>2. Filled(b, "init", "other") /\ UNCHANGED <<stage, handler>>
      BY <3>1 DEF other, Filled
    <3> QED
      BY <2>5, <2>7, <3>2 DEF Handles
  <2>16. CASE c.set \in {"discard", "time"}
    <3>1. b \notin Location
      BY <1>1, <2>16 DEF Sound
    <3>2. PICK h : content(b, h) /\ UNCHANGED <<conf, said>>
      BY <2>1, <2>16 DEF set_discard, set_time
    <3> QED
      BY <3>1, <3>2 DEF content, Accepts, Handles
  <2> QED
    BY <1>1, <2>8, <2>9, <2>10, <2>11, <2>12, <2>13, <2>14, <2>15, <2>16 DEF Sound
<1> QED
  BY <1>2, <1>3

LEMMA DirectiveKeeps ==
    ASSUME Configured, NEW b \in Blocks, NEW c \in cmds, NEW n \in {0, 1, 2},
           directive(b, c, n)
    PROVE  Configured'
<1>1. stage = "parse" /\ conf = said /\ merged = {} /\ merged' = merged /\ count' \in Nat
  BY DEF Configured, Reading, directive
<1>2. CASE stage' \in {"refused", "dead"} /\ UNCHANGED <<conf, handler, said>>
  BY <1>1, <1>2 DEF Configured, Shaped, Answered, Reading, Merging
<1>3. CASE stage' = stage /\ Accepts(b) /\ Handles(b)
  <2>1. /\ DOMAIN conf = Blocks
        /\ \A l \in Blocks : DOMAIN conf[l] = Fields
        /\ DOMAIN handler = Blocks
    BY DEF Configured, Shaped
  <2>2. /\ conf' = said'
        /\ DOMAIN conf' = Blocks
        /\ \A l \in Blocks : DOMAIN conf'[l] = Fields
        /\ \A l \in Blocks \ {b} : conf'[l] = conf[l]
        /\ \A f \in {"msg", "loc", "upstream"} :
                conf[b][f] # Unset => conf'[b][f] # Unset
    <3>1. CASE UNCHANGED <<conf, said>>
      BY <1>1, <2>1, <3>1
    <3>2. CASE \E f \in Fields : \E x :
                Filled(b, f, x) /\ (f \in {"msg", "loc", "upstream"} => x # Unset)
      <4>1. PICK f \in Fields : \E x :
                Filled(b, f, x) /\ (f \in {"msg", "loc", "upstream"} => x # Unset)
        BY <3>2
      <4>2. PICK x : Filled(b, f, x) /\ (f \in {"msg", "loc", "upstream"} => x # Unset)
        BY <4>1
      <4>3. conf' = [conf EXCEPT ![b] = [conf[b] EXCEPT ![f] = x]] /\ conf' = said'
        BY <1>1, <4>2 DEF Filled
      <4>4. /\ DOMAIN [conf[b] EXCEPT ![f] = x] = Fields
            /\ [conf[b] EXCEPT ![f] = x][f] = x
            /\ \A g \in Fields \ {f} : [conf[b] EXCEPT ![f] = x][g] = conf[b][g]
        BY <2>1
      <4>5. /\ DOMAIN conf' = Blocks
            /\ conf'[b] = [conf[b] EXCEPT ![f] = x]
            /\ \A l \in Blocks \ {b} : conf'[l] = conf[l]
        BY <2>1, <4>3
      <4>6. {"msg", "loc", "upstream"} \subseteq Fields
        BY DEF Fields
      <4> QED
        BY <2>1, <4>2, <4>3, <4>4, <4>5, <4>6
    <3> QED
      BY <1>3, <3>1, <3>2 DEF Accepts
  <2>3. /\ DOMAIN handler' = Blocks
        /\ \A l \in Blocks \ {b} : handler'[l] = handler[l]
        /\ b \in Location =>
            handler'[b] = handler[b] \/ (handler'[b] \in {"echo", "subrequest", "upstream"}
                                         /\ conf'[b][Reads[handler'[b]]] # Unset)
    <3>1. CASE UNCHANGED handler
      BY <2>1, <3>1
    <3>2. CASE \E h : /\ handler' = [handler EXCEPT ![b] = h]
                      /\ b \in Location => /\ h \in {"echo", "subrequest", "upstream"}
                                           /\ conf'[b][Reads[h]] # Unset
      <4>1. PICK h : /\ handler' = [handler EXCEPT ![b] = h]
                     /\ b \in Location => /\ h \in {"echo", "subrequest", "upstream"}
                                          /\ conf'[b][Reads[h]] # Unset
        BY <3>2
      <4>2. handler'[b] = h
        BY <2>1, <4>1
      <4> QED
        BY <2>1, <4>1, <4>2
    <3> QED
      BY <1>3, <3>1, <3>2 DEF Handles
  <2>4. ASSUME NEW l \in Location, handler'[l] # Unset
        PROVE  /\ handler'[l] \in {"echo", "subrequest", "upstream"}
               /\ conf'[l][Reads[handler'[l]]] # Unset
    <3>1. l \in Blocks
      BY DEF Location, Blocks
    <3>2. CASE handler'[l] = handler[l]
      <4>1. /\ handler[l] \in {"echo", "subrequest", "upstream"}
            /\ conf[l][Reads[handler[l]]] # Unset
        BY <2>4, <3>2 DEF Configured, Answered
      <4>2. Reads[handler[l]] \in {"msg", "loc", "upstream"}
        BY <4>1, ReadsAre
      <4> QED
        BY <2>2, <3>1, <3>2, <4>1, <4>2
    <3>3. CASE handler'[l] # handler[l]
      BY <2>3, <2>4, <3>1, <3>3
    <3> QED
      BY <3>2, <3>3
  <2>5. Shaped' /\ Answered'
    BY <2>2, <2>3, <2>4 DEF Shaped, Answered
  <2>6. Reading' /\ Merging'
    BY <1>1, <1>3, <2>2 DEF Reading, Merging
  <2> QED
    BY <1>1, <2>5, <2>6 DEF Configured
<1> QED
  BY <1>2, <1>3, DirectiveDoes

LEMMA EndOfFileKeeps == ASSUME Configured, endOfFile PROVE Configured'
<1>1. /\ merged = {} /\ conf = said /\ stage' = "merge"
      /\ UNCHANGED <<count, handler, merged, said>>
  BY DEF Configured, Reading, endOfFile
<1>2. /\ DOMAIN conf' = Blocks
      /\ \A b \in Blocks : DOMAIN conf'[b] = Fields
      /\ \A b \in Blocks, f \in Fields :
            conf'[b][f] = conf[b][f] \/ (b = "main" /\ f = "size")
  <2> DEFINE c == [conf["main"] EXCEPT !["size"] = init(conf["main"]["size"], Default)]
  <2>1. conf' = [conf EXCEPT !["main"] = c]
    BY DEF endOfFile, init_main
  <2>2. /\ DOMAIN c = Fields
        /\ \A f \in Fields \ {"size"} : c[f] = conf["main"][f]
    <3>1. DOMAIN conf["main"] = Fields
      BY DEF Configured, Shaped, Blocks
    <3> QED
      BY <3>1
  <2>3. DOMAIN conf = Blocks /\ \A b \in Blocks : DOMAIN conf[b] = Fields
    BY DEF Configured, Shaped
  <2> HIDE DEF c
  <2> QED
    BY <2>1, <2>2, <2>3
<1>3. Answered'
  <2>1. ASSUME NEW b \in Location, handler[b] # Unset
        PROVE  /\ handler[b] \in {"echo", "subrequest", "upstream"}
               /\ conf'[b][Reads[handler[b]]] # Unset
    <3>1. /\ handler[b] \in {"echo", "subrequest", "upstream"}
          /\ conf[b][Reads[handler[b]]] # Unset
      BY <2>1 DEF Configured, Answered
    <3>2. Reads[handler[b]] \in Fields /\ b \in Blocks /\ b # "main"
      BY <3>1, ReadsAre DEF Fields, Location, Blocks
    <3> QED
      BY <1>2, <3>1, <3>2
  <2> QED
    BY <1>1, <2>1 DEF Answered
<1>4. Shaped' /\ Reading' /\ Merging'
  BY <1>1, <1>2 DEF Configured, Shaped, Reading, Merging
<1> QED
  BY <1>1, <1>3, <1>4 DEF Configured

\* NgxValue::merge gives the value of the nearest block, if that of the parent is
\* that of the blocks around.
LEMMA MergeIsNearest ==
    ASSUME NEW b \in DOMAIN Parent, NEW f, NEW p, NEW c,
           c = said[b][f],
           \/ Nearest(Parent[b], f, p)
           \/ invalid(p) /\ \A a \in Around[Parent[b]] : invalid(said[a][f])
    PROVE  Nearest(b, f, merge(c, p, Default))
<1> DEFINE outer == {a \in Around[Parent[b]] : ~invalid(said[a][f])}
           stated == {a \in Around[b] : ~invalid(said[a][f])}
<1>1. Around[b] = Around[Parent[b]] \cup {b}
  BY AroundIs
<1>2. Nearest(b, f, merge(c, p, Default)) <=>
        IF stated = {} THEN merge(c, p, Default) = Default
        ELSE \E a \in stated : stated \subseteq Around[a] /\ merge(c, p, Default) = said[a][f]
  BY DEF Nearest
<1>3. CASE ~invalid(c)
  <2>1. merge(c, p, Default) = said[b][f] /\ b \in stated /\ stated \subseteq Around[b]
    BY <1>1, <1>3 DEF merge
  <2> QED
    BY <1>2, <2>1
<1>4. CASE invalid(c)
  <2>1. stated = outer
    BY <1>1, <1>4
  <2>2. merge(c, p, Default) = IF invalid(p) THEN Default ELSE p
    BY <1>4 DEF merge
  <2>3. CASE outer = {}
    <3>1. invalid(p) \/ p = Default
      BY <2>3 DEF Nearest
    <3> QED
      BY <1>2, <2>1, <2>2, <2>3, <3>1
  <2>4. CASE outer # {}
    <3>1. PICK a \in outer : outer \subseteq Around[a] /\ p = said[a][f]
      BY <2>4 DEF Nearest
    <3>2. ~invalid(p)
      BY <3>1
    <3> QED
      BY <1>2, <2>1, <2>2, <2>4, <3>1, <3>2
  <2> QED
    BY <2>3, <2>4
<1> QED
  BY <1>3, <1>4

LEMMA MergeIsSet == ASSUME NEW c, NEW p PROVE merge(c, p, Default) # Unset
<1>1. Default # Unset
  BY ConfigurationAssumption
<1> QED
  BY <1>1 DEF merge, invalid

\* What the merge functions do to the fields of a block.
LEMMA MergedFields ==
    ASSUME NEW c, NEW p, DOMAIN c = Fields
    PROVE  /\ LET m == NdgStreamDiscardMerge(c, p)
              IN  /\ DOMAIN m = Fields
                  /\ \A f \in Fields : m[f] = IF f = "timeout" THEN merge(c[f], p[f], Default)
                                              ELSE c[f]
           /\ LET m == NdgSubrequestMerge(NdgTestMerge(c, p), p)
              IN  /\ DOMAIN m = Fields
                  /\ \A f \in Fields : m[f] = IF f \in {"enabled", "loc", "args"}
                                              THEN merge(c[f], p[f], Default) ELSE c[f]
<1>1. {"enabled", "loc", "args", "timeout"} \subseteq Fields
  BY DEF Fields
<1>2. /\ DOMAIN NdgStreamDiscardMerge(c, p) = Fields
      /\ \A f \in Fields : NdgStreamDiscardMerge(c, p)[f] =
            IF f = "timeout" THEN merge(c[f], p[f], Default) ELSE c[f]
  BY <1>1 DEF NdgStreamDiscardMerge
<1>3. /\ DOMAIN NdgTestMerge(c, p) = Fields
      /\ \A f \in Fields : NdgTestMerge(c, p)[f] =
            IF f = "enabled" THEN merge(c[f], p[f], Default) ELSE c[f]
  BY <1>1 DEF NdgTestMerge
<1>4. ASSUME NEW e, DOMAIN e = Fields
      PROVE  /\ DOMAIN NdgSubrequestMerge(e, p) = Fields
             /\ \A f \in Fields : NdgSubrequestMerge(e, p)[f] =
                    IF f \in {"loc", "args"} THEN merge(e[f], p[f], Default) ELSE e[f]
  BY <1>1, <1>4 DEF NdgSubrequestMerge
<1> QED
  BY <1>1, <1>2, <1>3, <1>4

\* The value that a block finds in its parent: the nearest one, or, of the outermost
\* block, what it was given.
LEMMA ParentHas ==
    ASSUME Configured, stage = "merge", NEW b \in DOMAIN Parent, NEW f \in Fields,
           Inherits(b, f), Parent[b] \in DOMAIN Parent => Parent[b] \in merged
    PROVE  LET p == conf[Parent[b]][f]
           IN  \/ Nearest(Parent[b], f, p)
               \/ invalid(p) /\ \A a \in Around[Parent[b]] : invalid(said[a][f])
<1> DEFINE o == Parent[b]
           p == conf[o][f]
<1>1. o \in Blocks /\ f # "size"
  BY ParentsAre DEF Inherits, Blocks
<1>2. CASE o \in DOMAIN Parent
  <2>1. Inherits(o, f) /\ o \in merged
    BY <1>2, ParentsAre DEF Inherits
  <2> QED
    BY <1>1, <2>1 DEF Configured, Merging
<1>3. CASE o \notin DOMAIN Parent
  <2>1. o \in {"main", "smain"} /\ ~Inherits(o, f) /\ Around[o] = {o}
    BY <1>3, ParentsAre, AroundIs DEF Inherits
  <2>2. p = said[o][f]
    BY <1>1, <2>1 DEF Configured, Merging
  <2>3. CASE invalid(p)
    BY <2>1, <2>2, <2>3
  <2>4. CASE ~invalid(p)
    <3>1. {a \in Around[o] : ~invalid(said[a][f])} = {o}
      BY <2>1, <2>2, <2>4
    <3> QED
      BY <2>1, <2>2, <3>1 DEF Nearest
  <2> QED
    BY <2>3, <2>4
<1> QED
  BY <1>2, <1>3

LEMMA MergeKeeps ==
    ASSUME Configured, NEW b \in Blocks, mergeBlock(b)
    PROVE  Configured'
<1> DEFINE p == conf[Parent[b]]
           m == conf'[b]
<1>1. /\ stage = "merge" /\ b \in DOMAIN Parent /\ b \notin merged
      /\ Parent[b] \in DOMAIN Parent => Parent[b] \in merged
      /\ merged' = merged \cup {b}
      /\ stage' = IF merged' = DOMAIN Parent THEN "post" ELSE stage
      /\ UNCHANGED <<count, handler, said>>
  BY DEF mergeBlock
<1>2. b \in {"srv", "loc", "nest", "ssrv"}
  BY <1>1, ParentsAre
<1>3. DOMAIN conf = Blocks /\ \A l \in Blocks : DOMAIN conf[l] = Fields
  BY DEF Configured, Shaped
<1>4. /\ DOMAIN conf' = Blocks
      /\ m = IF b = "ssrv" THEN NdgStreamDiscardMerge(conf[b], p)
             ELSE NdgSubrequestMerge(NdgTestMerge(conf[b], p), p)
      /\ \A l \in Blocks \ {b} : conf'[l] = conf[l]
  BY <1>3 DEF mergeBlock
<1>5. /\ DOMAIN m = Fields
      /\ \A f \in Fields : m[f] = IF Inherits(b, f) THEN merge(conf[b][f], p[f], Default)
                                  ELSE conf[b][f]
  <2>1. DOMAIN conf[b] = Fields
    BY <1>3
  <2>2. CASE b = "ssrv"
    BY <1>4, <2>1, <2>2, MergedFields DEF Inherits
  <2>3. CASE b \in {"srv", "loc", "nest"}
    BY <1>4, <2>1, <2>3, MergedFields DEF Inherits
  <2> QED
    BY <1>2, <2>2, <2>3
<1> HIDE DEF m
<1>6. \A f \in Fields : conf[b][f] = said[b][f]
  BY <1>1, <1>2 DEF Configured, Merging
<1>7. ASSUME NEW f \in Fields, Inherits(b, f)
      PROVE  Nearest(b, f, m[f])
  <2>1. m[f] = merge(said[b][f], p[f], Default)
    BY <1>5, <1>6, <1>7
  <2>2. \/ Nearest(Parent[b], f, p[f])
        \/ invalid(p[f]) /\ \A a \in Around[Parent[b]] : invalid(said[a][f])
    BY <1>1, <1>7, ParentHas
  <2> QED
    BY <1>1, <2>1, <2>2, MergeIsNearest
<1>8. Merging'
  <2>1. stage' \in {"post", "serve"} => merged' = DOMAIN Parent
    BY <1>1
  <2>2. ASSUME NEW l \in Blocks, NEW f \in Fields, Inherits(l, f), l \in merged'
        PROVE  Nearest(l, f, conf[l][f])'
    <3>1. Nearest(l, f, conf'[l][f])
      <4>1. CASE l = b
        BY <1>7, <2>2, <4>1 DEF m
      <4>2. CASE l # b
        BY <1>1, <1>4, <2>2, <4>2 DEF Configured, Merging
      <4> QED
        BY <4>1, <4>2
    <3> QED
      BY <1>1, <3>1 DEF Nearest
  <2>3. ASSUME NEW l \in Blocks, NEW f \in Fields, ~(Inherits(l, f) /\ l \in merged')
        PROVE  conf'[l][f] = said[l][f] \/ (l = "main" /\ f = "size")
    <3>1. CASE l = b
      BY <1>1, <1>5, <1>6, <2>3, <3>1 DEF m
    <3>2. CASE l # b
      BY <1>1, <1>4, <2>3, <3>2 DEF Configured, Merging
    <3> QED
      BY <3>1, <3>2
  <2> QED
    BY <1>1, <2>1, <2>2, <2>3 DEF Merging, Inherits
<1>9. Answered'
  <2>1. ASSUME NEW l \in Location, handler[l] # Unset
        PROVE  /\ handler[l] \in {"echo", "subrequest", "upstream"}
               /\ conf'[l][Reads[handler[l]]] # Unset
    <3>1. /\ handler[l] \in {"echo", "subrequest", "upstream"}
          /\ conf[l][Reads[handler[l]]] # Unset
      BY <2>1 DEF Configured, Answered
    <3>2. PICK f \in Fields : f = Reads[handler[l]]
      BY <3>1, ReadsAre DEF Fields
    <3>3. conf'[l][f] # Unset
      <4>1. l \in Blocks
        BY DEF Location, Blocks
      <4>2. CASE l # b
        BY <1>4, <3>1, <3>2, <4>1, <4>2
      <4>3. CASE l = b /\ ~Inherits(b, f)
        BY <1>5, <3>1, <3>2, <4>3 DEF m
      <4>4. CASE l = b /\ Inherits(b, f)
        BY <1>5, <3>2, <4>4, MergeIsSet DEF m
      <4> QED
        BY <4>2, <4>3, <4>4
    <3> QED
      BY <3>1, <3>2, <3>3
  <2> QED
    BY <1>1, <2>1 DEF Answered
<1>10. Shaped' /\ Reading'
  BY <1>1, <1>3, <1>4, <1>5 DEF Configured, Shaped, Reading, m
<1> QED
  BY <1>1, <1>8, <1>9, <1>10 DEF Configured

LEMMA ConfiguredKept == Configured /\ [ConfigurationNext]_configurationVars => Configured'
<1> SUFFICES ASSUME Configured, [ConfigurationNext]_configurationVars
             PROVE  Configured'
  OBVIOUS
<1>1. ASSUME UNCHANGED <<count, conf, handler, merged, said>>,
             stage' \in {"pre", "parse"} => stage \in {"pre", "parse"},
             stage' \in {"post", "serve"} => stage \in {"post", "serve"},
             stage' = "merge" => stage = "merge"
      PROVE  Configured'
  BY <1>1 DEF Configured, Shaped, Answered, Reading, Merging, Nearest
<1>2. CASE preconfiguration
  BY <1>1, <1>2 DEF preconfiguration
<1>3. CASE \E b \in Blocks, c \in cmds, n \in {0, 1, 2} : directive(b, c, n)
  BY <1>3, DirectiveKeeps
<1>4. CASE endOfFile
  BY <1>4, EndOfFileKeeps
<1>5. CASE \E b \in Blocks : mergeBlock(b)
  BY <1>5, MergeKeeps
<1>6. CASE postconfiguration
  BY <1>1, <1>6 DEF postconfiguration
<1>7. CASE UNCHANGED configurationVars
  BY <1>1, <1>7 DEF configurationVars
<1> QED
  BY <1>2, <1>3, <1>4, <1>5, <1>6, <1>7 DEF ConfigurationNext

LEMMA ConfiguredIsEffective == Configured => Effective
<1> SUFFICES ASSUME Configured, stage = "serve"
             PROVE  /\ \A b \in {"srv", "loc", "nest"}, f \in {"enabled", "loc", "args"} :
                            Nearest(b, f, conf[b][f])
                    /\ Nearest("ssrv", "timeout", conf["ssrv"]["timeout"])
                    /\ \A b \in Location, f \in {"msg", "headers", "footer", "upstream"} :
                            conf[b][f] = said[b][f]
                    /\ \A b \in Location :
                            handler[b] # Unset => conf[b][Reads[handler[b]]] # Unset
  BY DEF Effective, conf_of
<1>1. /\ merged = {"srv", "loc", "nest", "ssrv"}
      /\ \A b \in Blocks, f \in Fields :
            IF Inherits(b, f) /\ b \in merged THEN Nearest(b, f, conf[b][f])
            ELSE conf[b][f] = said[b][f] \/ (b = "main" /\ f = "size")
  BY ParentsAre DEF Configured, Merging
<1>2. ASSUME NEW b \in {"srv", "loc", "nest"}, NEW f \in {"enabled", "loc", "args"}
      PROVE  Nearest(b, f, conf[b][f])
  <2>1. b \in Blocks /\ f \in Fields /\ Inherits(b, f) /\ b \in merged
    BY <1>1 DEF Blocks, Fields, Inherits
  <2> QED
    BY <1>1, <2>1
<1>3. Nearest("ssrv", "timeout", conf["ssrv"]["timeout"])
  <2>1. "ssrv" \in Blocks /\ "timeout" \in Fields /\ Inherits("ssrv", "timeout")
    BY DEF Blocks, Fields, Inherits
  <2> QED
    BY <1>1, <2>1
<1>4. ASSUME NEW b \in Location, NEW f \in {"msg", "headers", "footer", "upstream"}
      PROVE  conf[b][f] = said[b][f]
  <2>1. b \in Blocks /\ f \in Fields /\ ~Inherits(b, f) /\ b # "main"
    BY DEF Location, Blocks, Fields, Inherits
  <2> QED
    BY <1>1, <2>1
<1>5. \A b \in Location : handler[b] # Unset => conf[b][Reads[handler[b]]] # Unset
  BY DEF Configured, Answered
<1> QED
  BY <1>2, <1>3, <1>4, <1>5

\* A request reads what the innermost block around it was given, and a location that
\* is answered has what its handler reads (NgxValue::merge, the merge functions of
\* the *Conf.hpp and the setters): for any number of directives.
THEOREM ConfigurationEffective == ConfigurationSpec => []Effective
<1>1. ConfigurationInit => Configured
  <2> SUFFICES ASSUME ConfigurationInit
               PROVE  Configured
    OBVIOUS
  <2>1. Shaped
    BY CreateIs DEF ConfigurationInit, Shaped
  <2>2. Answered
    BY DEF ConfigurationInit, Answered, Location, Blocks
  <2>3. count \in Nat /\ Reading /\ Merging
    BY DEF ConfigurationInit, Reading, Merging
  <2> QED
    BY <2>1, <2>2, <2>3 DEF Configured
<1> QED
  BY <1>1, ConfiguredKept, ConfiguredIsEffective, PTL DEF ConfigurationSpec

-------------------------------------------------------------------------------
(***************************************************************************)
(* A request that is answered from a subrequest, for any bodies, statuses  *)
(* and lengths.  Hooked is the inductive invariant for HookedWhole.  Owing *)
(* says what the parent has yet to send of the length that it declared:    *)
(* with it every step is a step of HttpMessage.                            *)
(***************************************************************************)

Subrequests == [state: {"none", "header", "body", "over"}, status: Nat, rc: Int,
                listed: BOOLEAN]

Responses == [declared: Nat \cup {NoHeader}, sent: Nat, ended: BOOLEAN, lost: BOOLEAN,
              code: Nat]

Hooked ==
    /\ sub \in Subrequests
    /\ todo \in Seq(Seq(Nat))
    /\ given \in Seq(Nat)
    /\ out \in Seq(Nat) \cup {Null}
    /\ ctx \in Contexts \cup {Null}
    /\ do_hook <=> ctx # Null /\ ctx.headers
    /\ pc = "content" => sub.state = "none"
    /\ sub.state \in {"none", "header"} =>
        /\ given = <<>> /\ out = Null
        /\ ctx # Null => ctx.body = <<>> /\ ~ctx.headers
    /\ HookedWhole

\* Nothing of the response has been sent yet.
Silent == wire.declared = NoHeader /\ wire.sent = 0 /\ ~wire.ended /\ ~wire.lost

\* A call of the writer.
Call(n, last) == [size |-> n, last |-> last]

\* One, two or three calls remain, the last of them marks the end, and together
\* they send the rest of what was declared.
Owes(cs, n) ==
    \/ cs = <<Call(n, TRUE)>>
    \/ cs = <<Call(n, FALSE), Call(0, TRUE)>>
    \/ \E a, b \in Nat : n = a + b /\ cs = <<Call(a, FALSE), Call(b, FALSE), Call(0, TRUE)>>

Owing ==
    /\ wire \in Responses
    /\ pc \in {"content", "waiting", "post"} => Silent
    /\ pc = "send" =>
        /\ wire.declared \in Nat /\ ~wire.ended /\ ~wire.lost
        /\ \E n \in Nat : wire.declared = wire.sent + n /\ Owes(calls, n)

-------------------------------------------------------------------------------
\* Writing a field of a context, or of the subrequest.

LEMMA SetStatus ==
    ASSUME NEW c \in Contexts, NEW s \in Int
    PROVE  /\ [c EXCEPT !.status = s] \in Contexts
           /\ [c EXCEPT !.status = s].headers = c.headers
           /\ [c EXCEPT !.status = s].body = c.body
BY DEF Contexts

LEMMA SetHeaders ==
    ASSUME NEW c \in Contexts
    PROVE  /\ [c EXCEPT !.headers = TRUE] \in Contexts
           /\ [c EXCEPT !.headers = TRUE].headers
           /\ [c EXCEPT !.headers = TRUE].body = c.body
BY DEF Contexts

LEMMA SetBody ==
    ASSUME NEW c \in Contexts, NEW b \in Seq(Nat)
    PROVE  /\ [c EXCEPT !.body = b] \in Contexts
           /\ [c EXCEPT !.body = b].headers = c.headers
           /\ [c EXCEPT !.body = b].body = b
BY DEF Contexts

\* sub_post moves the subrequest to its end and may write the parent's status.
LEMMA SubPostFrame ==
    ASSUME sub \in Subrequests, ctx \in Contexts \cup {Null}, NEW rc \in Int, sub_post(rc)
    PROVE  /\ sub' \in Subrequests /\ sub'.state = "over"
           /\ IF ctx = Null THEN ctx' = Null
              ELSE ctx' \in Contexts /\ ctx'.headers = ctx.headers /\ ctx'.body = ctx.body
<1>1. PICK listed \in BOOLEAN :
          sub' = [sub EXCEPT !.state = "over", !.rc = rc, !.listed = listed]
  BY DEF sub_post
<1>2. sub' \in Subrequests /\ sub'.state = "over"
  BY <1>1 DEF Subrequests
<1>3. state(rc) \in Int
  BY DEF state, OK
<1>4. CASE kind = "hooking" /\ ctx # Null
  <2>1. ctx \in Contexts /\ ctx' = [ctx EXCEPT !.status = state(rc)]
    BY <1>4 DEF sub_post
  <2>2. ctx' \in Contexts /\ ctx'.headers = ctx.headers /\ ctx'.body = ctx.body
    BY <1>3, <2>1, SetStatus
  <2> QED
    BY <1>2, <1>4, <2>2
<1>5. CASE ~(kind = "hooking" /\ ctx # Null)
  BY <1>2, <1>5 DEF sub_post
<1> QED
  BY <1>4, <1>5

-------------------------------------------------------------------------------
\* The data hook.

\* Steps that leave the two places, and what is given, alone.
LEMMA PlacesKept ==
    ASSUME Hooked, sub' \in Subrequests, todo' \in Seq(Seq(Nat)),
           pc' = "content" => sub'.state = "none",
           sub'.state \in {"none", "header"} => sub.state \in {"none", "header"},
           UNCHANGED <<given, out, ctx, do_hook>>
    PROVE  Hooked'
BY DEF Hooked, HookedWhole

LEMMA StartHooked ==
    ASSUME Hooked, NEW m, handle(m)
    PROVE  Hooked'
<1>1. pc = "content" /\ UNCHANGED <<given, out, ctx, do_hook>>
  BY Zenon DEF handle
<1>2. sub.state = "none"
  BY <1>1 DEF Hooked
<1>3. CASE UNCHANGED <<sub, todo>>
  BY <1>1, <1>2, <1>3, PlacesKept DEF Hooked
<1>4. CASE /\ sub' = [sub EXCEPT !.state = "header", !.listed = TRUE]
           /\ todo' \in Bodies
           /\ pc' = "waiting"
  <2>1. sub' \in Subrequests
    BY <1>4 DEF Hooked, Subrequests
  <2> QED
    BY <1>1, <1>2, <1>4, <2>1, PlacesKept, SubrequestAssumption
<1> QED
  BY <1>3, <1>4, Zenon DEF handle, create_subrequest

LEMMA HookingHooked ==
    ASSUME Hooked, hooking
    PROVE  Hooked'
<1>1. /\ ctx = Null
      /\ ctx' = [data(ctx) EXCEPT !.hook = TRUE]
      /\ UNCHANGED <<pc, sub, todo, given, out, do_hook>>
  BY DEF hooking, sr
<1>2. ctx' = [hook |-> TRUE, status |-> 0, headers |-> FALSE, body |-> <<>>]
  BY <1>1 DEF data, FreshCtx
<1>3. ctx' \in Contexts /\ ~ctx'.headers /\ ctx'.body = <<>>
  BY <1>2, EmptySeq DEF Contexts
<1>4. ctx' # Null
  BY <1>3, SubrequestAssumption
<1> QED
  BY <1>1, <1>3, <1>4 DEF Hooked, HookedWhole

LEMMA SubHeaderHooked ==
    ASSUME Hooked, NEW code \in Codes, subHeader(code)
    PROVE  Hooked'
<1>1. /\ sub.state = "header"
      /\ sub' = [sub EXCEPT !.state = "body", !.status = code]
      /\ UNCHANGED <<pc, todo, given, out>>
  BY DEF subHeader
<1>2. code \in Nat
  BY SubrequestAssumption
<1>3. sub' \in Subrequests /\ sub'.state = "body"
  BY <1>1, <1>2 DEF Hooked, Subrequests
<1>4. pc # "content" /\ given = <<>> /\ out = Null
      /\ (ctx # Null => ctx.body = <<>> /\ ~ctx.headers)
  BY <1>1 DEF Hooked
<1>5. CASE header_filter
  <2>1. ctx # Null /\ ctx \in Contexts /\ ctx.body = <<>>
    BY <1>4, <1>5 DEF Hooked, header_filter
  <2>2. ctx' = [ctx EXCEPT !.headers = TRUE] /\ do_hook'
    BY <1>5 DEF subHeader
  <2>3. ctx' \in Contexts /\ ctx'.headers /\ ctx'.body = <<>>
    BY <2>1, <2>2, SetHeaders
  <2>4. ctx' # Null
    BY <2>3, SubrequestAssumption
  <2> QED
    BY <1>1, <1>3, <1>4, <2>2, <2>3, <2>4 DEF Hooked, HookedWhole
<1>6. CASE ~header_filter
  <2>1. ctx' = ctx /\ ~do_hook'
    BY <1>6 DEF subHeader
  <2> QED
    BY <1>1, <1>3, <1>4, <2>1 DEF Hooked, HookedWhole
<1> QED
  BY <1>5, <1>6

\* The bytes go to one of the two buffers, the one that has those before them.
LEMMA FeedHooked ==
    ASSUME Hooked, NEW bytes \in Seq(Nat), feed(bytes),
           todo' \in Seq(Seq(Nat)), sub.state = "body", UNCHANGED <<pc, sub, do_hook>>
    PROVE  Hooked'
<1>1. given' = given \o bytes /\ given' \in Seq(Nat)
  <2>1. given \in Seq(Nat) /\ given' = given \o bytes
    BY DEF Hooked, feed
  <2> QED
    BY <2>1, ConcatProperties
<1>2. pc # "content"
  BY DEF Hooked
<1>3. CASE do_hook
  <2>1. ctx # Null /\ ctx \in Contexts /\ ctx.headers
    BY <1>3 DEF Hooked
  <2>2. ctx.body = given /\ (out = Null \/ out = <<>>)
    BY <2>1 DEF Hooked, HookedWhole
  <2>3. ctx' = [ctx EXCEPT !.body = given \o bytes] /\ out' = out
    BY <1>3, <2>2 DEF feed, body_filter
  <2>4. given \o bytes \in Seq(Nat)
    BY <1>1
  <2>5. ctx' \in Contexts /\ ctx'.headers /\ ctx'.body = given \o bytes
    BY <2>1, <2>3, <2>4, SetBody
  <2>6. ctx' # Null
    BY <2>5, SubrequestAssumption
  <2> QED
    BY <1>1, <1>2, <1>3, <2>2, <2>3, <2>5, <2>6 DEF Hooked, HookedWhole
<1>4. CASE ~do_hook
  <2>1. ctx' = ctx /\ out' = IF out = Null THEN bytes ELSE out \o bytes
    BY <1>4 DEF feed, body_filter
  <2>2. ~(ctx # Null /\ ctx.headers)
    BY <1>4 DEF Hooked
  <2>3. given = IF out = Null THEN <<>> ELSE out
    BY <2>2 DEF Hooked, HookedWhole
  <2>4. out' = given \o bytes
    BY <2>1, <2>3, ConcatEmptySeq
  <2>5. out' # Null
    BY <1>1, <2>4, SubrequestAssumption
  <2> QED
    BY <1>1, <1>2, <1>4, <2>1, <2>2, <2>4, <2>5 DEF Hooked, HookedWhole
<1> QED
  BY <1>3, <1>4

LEMMA SubBodyHooked ==
    ASSUME Hooked, subBody
    PROVE  Hooked'
<1>1. /\ sub.state = "body" /\ todo # <<>> /\ todo' = Tail(todo)
      /\ UNCHANGED <<pc, sub, do_hook>>
  BY DEF subBody
<1>2. Head(todo) \in Seq(Nat) /\ todo' \in Seq(Seq(Nat))
  BY <1>1, HeadTailProperties DEF Hooked
<1>3. CASE UNCHANGED <<given, out, ctx>>
  BY <1>1, <1>2, <1>3, PlacesKept DEF Hooked
<1>4. CASE feed(Head(todo))
  BY <1>1, <1>2, <1>4, FeedHooked
<1> QED
  BY <1>3, <1>4 DEF subBody

LEMMA SubBreaksHooked ==
    ASSUME Hooked, subBreaks
    PROVE  Hooked'
<1>1. /\ sub.state = "body" /\ todo # <<>>
      /\ sub' = [sub EXCEPT !.rc = ERROR]
      /\ UNCHANGED <<pc, given, out, ctx, do_hook>>
  BY DEF subBreaks
<1>2. PICK k \in 0 .. Len(Head(todo)) : todo' = <<SubSeq(Head(todo), 1, k)>>
  BY DEF subBreaks
<1>3. Head(todo) \in Seq(Nat)
  BY <1>1, HeadTailProperties DEF Hooked
<1>4. SubSeq(Head(todo), 1, k) \in Seq(Nat)
  <2>1. \A i \in 1 .. k : Head(todo)[i] \in Nat
    BY <1>3
  <2> QED
    BY <1>2, <1>3, <2>1, SubSeqProperties
<1>5. todo' \in Seq(Seq(Nat))
  BY <1>2, <1>4
<1>6. sub' \in Subrequests /\ sub'.state = "body"
  <2>1. sub \in Subrequests
    BY DEF Hooked
  <2>2. ERROR \in Int
    BY DEF ERROR
  <2> QED
    BY <1>1, <2>1, <2>2 DEF Subrequests
<1> QED
  BY <1>1, <1>5, <1>6, PlacesKept DEF Hooked

LEMMA SubEndsHooked ==
    ASSUME Hooked, subEnds
    PROVE  Hooked'
<1>1. /\ sub.state \in {"header", "body"} /\ todo' = <<>>
      /\ UNCHANGED <<pc, given, out, do_hook>>
  BY DEF subEnds
<1>2. PICK rc \in Int : sub_post(rc)
  BY SubrequestAssumption DEF subEnds, Hooked, Subrequests, ERROR
<1>3. /\ sub' \in Subrequests /\ sub'.state = "over"
      /\ IF ctx = Null THEN ctx' = Null
         ELSE ctx' \in Contexts /\ ctx'.headers = ctx.headers /\ ctx'.body = ctx.body
  BY <1>2, SubPostFrame DEF Hooked
<1>4. ctx # Null => ctx' # Null
  BY <1>3, SubrequestAssumption
<1>5. todo' \in Seq(Seq(Nat))
  BY <1>1, EmptySeq
<1> QED
  BY <1>1, <1>3, <1>4, <1>5 DEF Hooked, HookedWhole

LEMMA HookedKept == Hooked /\ [Next]_vars => Hooked'
<1> SUFFICES ASSUME Hooked, [Next]_vars
             PROVE  Hooked'
  OBVIOUS
<1>1. CASE \E m \in Methods : handle(m)
  BY <1>1, StartHooked
<1>2. CASE hooking
  BY <1>2, HookingHooked
<1>3. CASE \E code \in Codes : subHeader(code)
  BY <1>3, SubHeaderHooked
<1>4. CASE subBody
  BY <1>4, SubBodyHooked
<1>5. CASE subBreaks
  BY <1>5, SubBreaksHooked
<1>6. CASE subEnds
  BY <1>6, SubEndsHooked
<1>7. ASSUME UNCHANGED <<sr, ctx>>, pc' = "content" => pc = "content"
      PROVE  Hooked'
  <2>1. UNCHANGED <<sub, todo, given, out, ctx, do_hook>>
    BY <1>7 DEF sr
  <2> QED
    BY <1>7, <2>1, PlacesKept DEF Hooked
<1>8. CASE wake
  BY <1>7, <1>8 DEF wake
<1>9. CASE parent_post
  BY <1>7, <1>9 DEF parent_post, lose, errorPage, respond, relay, swallowed
<1>10. CASE hooked
  BY <1>7, <1>10 DEF hooked, errorPage, respond
<1>11. CASE send
  BY <1>7, <1>11 DEF send, lose, swallowed
<1>12. CASE UNCHANGED vars
  BY <1>7, <1>12 DEF vars, sr
<1> QED
  BY <1>1, <1>2, <1>3, <1>4, <1>5, <1>6, <1>8, <1>9, <1>10, <1>11, <1>12 DEF Next

LEMMA InitHooked == Init => Hooked
<1> SUFFICES ASSUME Init PROVE Hooked
  OBVIOUS
<1>1. sub \in Subrequests /\ sub.state = "none"
  BY DEF Init, Subrequests, OK
<1>2. <<>> \in Seq(Nat) /\ <<>> \in Seq(Seq(Nat))
  BY EmptySeq
<1> QED
  BY <1>1, <1>2 DEF Init, Hooked, HookedWhole

\* However the body is cut and whenever the hook is asked for, a subrequest's body
\* is in order in one place (NdgDataHookHandler), for bodies of any length.
THEOREM SubrequestHookedWhole == Spec => []HookedWhole
<1>1. Hooked => HookedWhole
  BY DEF Hooked
<1> QED
  BY <1>1, InitHooked, HookedKept, PTL DEF Spec
-------------------------------------------------------------------------------
\* The response.

LEMMA LoseFields ==
    ASSUME NEW w \in Responses
    PROVE  /\ [w EXCEPT !.lost = TRUE] \in Responses
           /\ [w EXCEPT !.lost = TRUE].declared = w.declared
           /\ [w EXCEPT !.lost = TRUE].sent = w.sent
           /\ [w EXCEPT !.lost = TRUE].ended = w.ended
           /\ [w EXCEPT !.lost = TRUE].lost
BY DEF Responses

\* A response is declared as long as what it is then to send.
LEMMA RespondSteps ==
    ASSUME Owing, Silent, NEW code \in Nat, NEW n \in Nat, NEW parts,
           respond(code, n, parts), Owes(parts, n)
    PROVE  Owing' /\ Message!Header
<1>1. /\ pc' = "send" /\ calls' = parts
      /\ wire \in Responses /\ wire' = [wire EXCEPT !.declared = n, !.code = code]
  BY DEF respond, Owing
<1>2. /\ wire' \in Responses /\ wire'.declared = n
      /\ wire'.sent = wire.sent /\ wire'.ended = wire.ended /\ wire'.lost = wire.lost
  <2>1. wire' \in Responses
    BY <1>1 DEF Responses
  <2>2. wire'.declared = n /\ wire'.sent = wire.sent
    BY <1>1 DEF Responses
  <2>3. wire'.ended = wire.ended /\ wire'.lost = wire.lost
    BY <1>1 DEF Responses
  <2> QED
    BY <2>1, <2>2, <2>3
<1>3. wire'.declared = wire'.sent + n
  BY <1>2 DEF Silent
<1>4. Owes(calls', n)
  BY <1>1
<1>5. wire'.declared \in Nat /\ ~wire'.ended /\ ~wire'.lost
  BY <1>2 DEF Silent
<1>6. Owing'
  BY <1>1, <1>2, <1>3, <1>4, <1>5 DEF Owing
<1>7. Message!Header
  BY <1>2 DEF Message!Header, Silent
<1> QED
  BY <1>6, <1>7

LEMMA ErrorPageSteps ==
    ASSUME Owing, Silent, NEW code \in Nat, errorPage(code)
    PROVE  Owing' /\ Message!Header
<1>1. PageSize \in Nat
  BY SubrequestAssumption
<1>2. Owes(<<[size |-> PageSize, last |-> TRUE]>>, PageSize)
  BY DEF Owes, Call
<1> QED
  BY <1>1, <1>2, RespondSteps DEF errorPage

LEMMA LoseSteps ==
    ASSUME Owing, lose
    PROVE  Owing' /\ Message!Lose
<1>1. pc' = "done" /\ wire \in Responses /\ wire' = [wire EXCEPT !.lost = TRUE]
  BY DEF lose, Owing
<1>2. /\ wire' \in Responses /\ wire'.declared = wire.declared
      /\ wire'.sent = wire.sent /\ wire'.ended = wire.ended /\ wire'.lost
  BY <1>1, LoseFields
<1>3. wire'.lost = TRUE
  BY <1>2 DEF Responses
<1> QED
  BY <1>1, <1>2, <1>3 DEF Owing, Message!Lose

\* A step that sends nothing, and does not begin to.
LEMMA QuietSteps ==
    ASSUME Owing, UNCHANGED <<calls, wire>>,
           \/ pc' = pc
           \/ pc = "content" /\ pc' = "waiting"
           \/ pc = "waiting" /\ pc' = "post"
           \/ pc' = "stuck"
    PROVE  Owing' /\ UNCHANGED Message!vars
BY DEF Owing, Silent, Owes, Message!vars

LEMMA StartSteps ==
    ASSUME Owing, NEW m, handle(m)
    PROVE  Owing' /\ [Message!Next]_Message!vars
<1>1. pc = "content" /\ Silent
  BY DEF handle, Owing
<1>2. CASE errorPage(405)
  BY <1>1, <1>2, ErrorPageSteps DEF Message!Next
<1>3. CASE lose
  BY <1>3, LoseSteps DEF Message!Next
<1>4. CASE pc' = "waiting" /\ UNCHANGED <<calls, wire>>
  BY <1>1, <1>4, QuietSteps
<1> QED
  BY <1>2, <1>3, <1>4, Zenon DEF handle, create_subrequest

LEMMA ParentPostSteps ==
    ASSUME Owing, Hooked, parent_post
    PROVE  Owing' /\ [Message!Next]_Message!vars
<1>1. pc = "post" /\ Silent
  BY DEF parent_post, Owing
<1>2. CASE lose
  BY <1>2, LoseSteps DEF Message!Next
<1>3. CASE errorPage(500)
  BY <1>1, <1>3, ErrorPageSteps DEF Message!Next
<1>4. CASE swallowed
  BY <1>4, QuietSteps DEF swallowed
<1>5. CASE out # Null /\ relay
  <2>1. Len(out) \in Nat /\ MsgLen \in Nat
    BY <1>5, SubrequestAssumption DEF Hooked
  <2>2. Owes(<<[size |-> Len(out), last |-> FALSE], [size |-> MsgLen, last |-> FALSE],
               [size |-> 0, last |-> TRUE]>>, MsgLen + Len(out))
    <3>1. PICK a \in Nat, n \in Nat : a = Len(out) /\ n = MsgLen + a /\ n = a + MsgLen
      BY <2>1
    <3>2. Owes(<<Call(a, FALSE), Call(MsgLen, FALSE), Call(0, TRUE)>>, n)
      BY <2>1, <3>1, Zenon DEF Owes
    <3> QED
      BY <3>1, <3>2 DEF Call
  <2>3. MsgLen + Len(out) \in Nat /\ 200 \in Nat
    BY <2>1
  <2>4. Owing' /\ Message!Header
    BY <1>1, <1>5, <2>2, <2>3, RespondSteps, Zenon DEF relay
  <2> QED
    BY <2>4 DEF Message!Next
<1> QED
  BY <1>2, <1>3, <1>4, <1>5, Zenon DEF parent_post

LEMMA HookedSteps ==
    ASSUME Owing, Hooked, hooked
    PROVE  Owing' /\ [Message!Next]_Message!vars
<1>1. pc = "post" /\ Silent
  BY DEF hooked, Owing
<1>2. CASE errorPage(500)
  BY <1>1, <1>2, ErrorPageSteps DEF Message!Next
<1>3. CASE ctx # Null /\ respond(200, Len(ctx.body), <<[size |-> Len(ctx.body), last |-> TRUE]>>)
  <2>1. Len(ctx.body) \in Nat
    BY <1>3 DEF Hooked, Contexts
  <2>2. Owes(<<[size |-> Len(ctx.body), last |-> TRUE]>>, Len(ctx.body))
    BY Zenon DEF Owes, Call
  <2>3. 200 \in Nat
    OBVIOUS
  <2>4. Owing' /\ Message!Header
    BY <1>1, <1>3, <2>1, <2>2, <2>3, RespondSteps, Zenon
  <2> QED
    BY <2>4 DEF Message!Next
<1> QED
  BY <1>2, <1>3, Zenon DEF hooked

LEMMA TwoCalls ==
    ASSUME NEW x, NEW y, NEW cs, cs = <<x, y>>
    PROVE  Len(cs) # 1 /\ Head(cs) = x /\ Tail(cs) = <<y>>
OBVIOUS

LEMMA ThreeCalls ==
    ASSUME NEW x, NEW y, NEW z, NEW cs, cs = <<x, y, z>>
    PROVE  Len(cs) # 1 /\ Head(cs) = x /\ Tail(cs) = <<y, z>>
OBVIOUS

\* Every form of what is owed gives up its first call for a shorter form.
LEMMA OwesLess ==
    ASSUME NEW cs, NEW n \in Nat, Owes(cs, n)
    PROVE  \/ Len(cs) = 1 /\ Head(cs) = Call(n, TRUE)
           \/ \E a \in 0 .. n :
                Len(cs) # 1 /\ Head(cs) = Call(a, FALSE) /\ Owes(Tail(cs), n - a)
<1>1. CASE cs = <<Call(n, TRUE)>>
  BY <1>1
<1>2. CASE cs = <<Call(n, FALSE), Call(0, TRUE)>>
  <2>1. /\ Len(cs) # 1 /\ Head(cs) = Call(n, FALSE)
        /\ Tail(cs) = <<Call(0, TRUE)>>
    BY <1>2, TwoCalls, Zenon
  <2>2. n - n = 0 /\ n \in 0 .. n
    OBVIOUS
  <2> QED
    BY <2>1, <2>2 DEF Owes
<1>3. ASSUME NEW a \in Nat, NEW b \in Nat, n = a + b,
             cs = <<Call(a, FALSE), Call(b, FALSE), Call(0, TRUE)>>
      PROVE  /\ Len(cs) # 1 /\ Head(cs) = Call(a, FALSE) /\ a \in 0 .. n
             /\ Owes(Tail(cs), n - a)
  <2>1. /\ Len(cs) # 1 /\ Head(cs) = Call(a, FALSE)
        /\ Tail(cs) = <<Call(b, FALSE), Call(0, TRUE)>>
    <3>1. PICK x, y, z : x = Call(a, FALSE) /\ y = Call(b, FALSE) /\ z = Call(0, TRUE)
      OBVIOUS
    <3>2. cs = <<x, y, z>>
      BY <1>3, <3>1, Zenon
    <3>3. Len(cs) # 1 /\ Head(cs) = x /\ Tail(cs) = <<y, z>>
      BY <3>2, ThreeCalls
    <3> QED
      BY <3>1, <3>3, Zenon
  <2>2. n - a = b /\ a \in 0 .. n
    BY <1>3
  <2> QED
    BY <2>1, <2>2 DEF Owes
<1> QED
  BY <1>1, <1>2, <1>3 DEF Owes

\* A call that is made sends m bytes in all, and the end if e.
LEMMA CallSteps ==
    ASSUME Owing, pc = "send", NEW m \in Nat, NEW e \in BOOLEAN, NEW n \in Nat,
           wire' = [wire EXCEPT !.sent = m, !.ended = e],
           m >= wire.sent, wire.declared = m + n,
           IF e THEN pc' = "done" /\ n = 0
           ELSE pc' = "send" /\ Owes(calls', n)
    PROVE  Owing' /\ [Message!Next]_Message!vars
<1>1. wire \in Responses /\ ~wire.ended /\ ~wire.lost /\ wire.declared \in Nat
  BY DEF Owing
<1>2. /\ wire' \in Responses /\ wire'.declared = wire.declared
      /\ wire'.sent = m /\ wire'.ended = e /\ wire'.lost = wire.lost
  <2>1. wire' \in Responses
    BY <1>1 DEF Responses
  <2>2. wire'.declared = wire.declared /\ wire'.sent = m
    BY <1>1 DEF Responses
  <2>3. wire'.ended = e /\ wire'.lost = wire.lost
    BY <1>1 DEF Responses
  <2> QED
    BY <2>1, <2>2, <2>3
<1>3. wire.declared # NoHeader /\ wire.declared >= m
  BY <1>1 DEF NoHeader
<1>4. CASE e
  <2>1. Owing'
    BY <1>2, <1>4 DEF Owing
  <2>2. Message!Last
    BY <1>1, <1>2, <1>3, <1>4 DEF Message!Last
  <2> QED
    BY <2>1, <2>2 DEF Message!Next
<1>5. CASE ~e
  <2>1. Owing'
    BY <1>1, <1>2, <1>5 DEF Owing
  <2>2. wire'.ended = wire.ended
    BY <1>1, <1>2, <1>5 DEF Responses
  <2>3. Message!Piece
    BY <1>1, <1>2, <1>3, <2>2 DEF Message!Piece, Message!Fits
  <2> QED
    BY <2>1, <2>3 DEF Message!Next
<1> QED
  BY <1>4, <1>5

LEMMA SendSteps ==
    ASSUME Owing, send
    PROVE  Owing' /\ [Message!Next]_Message!vars
<1>1. pc = "send"
  BY DEF send
<1>2. PICK n \in Nat : wire.declared = wire.sent + n /\ Owes(calls, n)
  BY <1>1 DEF Owing
<1>3. wire \in Responses /\ wire.sent \in Nat /\ ~wire.ended /\ ~wire.lost
      /\ wire.declared \in Nat
  BY <1>1 DEF Owing, Responses
<1>4. CASE lose
  BY <1>4, LoseSteps DEF Message!Next
<1>5. CASE swallowed
  BY <1>5, QuietSteps DEF swallowed
<1>6. CASE /\ wire' = [wire EXCEPT !.sent = wire.sent + Head(calls).size,
                                   !.ended = wire.ended \/ Head(calls).last]
           /\ calls' = Tail(calls)
           /\ pc' = IF Len(calls) = 1 THEN "done" ELSE "send"
  <2>1. CASE Len(calls) = 1 /\ Head(calls) = Call(n, TRUE)
    <3>1. Head(calls).size = n /\ Head(calls).last = TRUE
      BY <2>1 DEF Call
    <3>2. wire' = [wire EXCEPT !.sent = wire.sent + n, !.ended = TRUE]
      BY <1>6, <3>1
    <3>3. wire.sent + n \in Nat /\ wire.sent + n >= wire.sent
          /\ wire.declared = wire.sent + n + 0
      BY <1>2, <1>3
    <3> QED
      BY <1>1, <1>6, <2>1, <3>2, <3>3, CallSteps
  <2>2. ASSUME NEW a \in 0 .. n, Len(calls) # 1, Head(calls) = Call(a, FALSE),
               Owes(Tail(calls), n - a)
        PROVE  Owing' /\ [Message!Next]_Message!vars
    <3>1. Head(calls).size = a /\ Head(calls).last = FALSE
      BY <2>2 DEF Call
    <3>2. wire' = [wire EXCEPT !.sent = wire.sent + a, !.ended = FALSE]
      BY <1>3, <1>6, <3>1
    <3>3. wire.sent + a \in Nat /\ wire.sent + a >= wire.sent
          /\ n - a \in Nat /\ wire.declared = wire.sent + a + (n - a)
      BY <1>2, <1>3
    <3> QED
      BY <1>1, <1>6, <2>2, <3>2, <3>3, CallSteps
  <2> QED
    BY <1>2, <2>1, <2>2, OwesLess
<1> QED
  BY <1>4, <1>5, <1>6, Zenon DEF send

LEMMA StepsFramed ==
    Owing /\ Hooked /\ [Next]_vars => Owing' /\ [Message!Next]_Message!vars
<1> SUFFICES ASSUME Owing, Hooked, [Next]_vars
             PROVE  Owing' /\ [Message!Next]_Message!vars
  OBVIOUS
<1>1. CASE \E m \in Methods : handle(m)
  BY <1>1, StartSteps
<1>2. CASE hooking \/ subBody \/ subBreaks \/ subEnds
  BY <1>2, QuietSteps DEF hooking, subBody, subBreaks, subEnds
<1>3. CASE \E code \in Codes : subHeader(code)
  BY <1>3, QuietSteps DEF subHeader
<1>4. CASE wake
  BY <1>4, QuietSteps DEF wake
<1>5. CASE parent_post
  BY <1>5, ParentPostSteps
<1>6. CASE hooked
  BY <1>6, HookedSteps
<1>7. CASE send
  BY <1>7, SendSteps
<1>8. CASE UNCHANGED vars
  BY <1>8, QuietSteps DEF vars
<1> QED
  BY <1>1, <1>2, <1>3, <1>4, <1>5, <1>6, <1>7, <1>8 DEF Next

\* Whatever the subrequest sends and wherever it breaks off, the parent's response
\* (NdgSubrequestCallback::parent_post) is a well-formed message: as many bytes as
\* it declares, and one end, after the last of them.
THEOREM SubrequestWellFramed == Spec => WellFramed
<1>1. Init => Owing /\ Hooked /\ Message!Init
  <2> SUFFICES ASSUME Init PROVE Owing /\ Hooked /\ Message!Init
    OBVIOUS
  <2>1. wire = [declared |-> NoHeader, sent |-> 0, ended |-> FALSE, lost |-> FALSE,
                code |-> 0]
    BY DEF Init
  <2>2. wire \in Responses /\ Silent
    BY <2>1 DEF Responses, Silent
  <2>3. Message!Init
    BY <2>1 DEF Message!Init
  <2>4. pc = "content"
    BY DEF Init
  <2> QED
    BY <2>2, <2>3, <2>4, InitHooked DEF Owing
<1> QED
  BY <1>1, HookedKept, StepsFramed, PTL DEF Spec, WellFramed, Message!Spec

===============================================================================
