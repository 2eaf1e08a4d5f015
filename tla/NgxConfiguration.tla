--------------------------- MODULE NgxConfiguration --------------------------
(***************************************************************************)
(* How the directives of this repository become what a request reads:      *)
(* NgxTake, NgxModule, NgxValue, NgxHttpModule, NgxStreamModule and the     *)
(* *Init.hpp and *Conf.hpp of every module.  Nginx, which reads the file,  *)
(* calls the modules back in this order: preconfiguration, the directives, *)
(* the merging of blocks from the outside in, postconfiguration.           *)
(*                                                                         *)
(* The file has one block of each kind, a location with another one in it, *)
(* an upstream block, and a stream server.  A directive may stand before   *)
(* or after the blocks in its block, so blocks get theirs in any order.    *)
(* What it is given is "", if that is a string, or else its place in the   *)
(* file, so that no two directives give the same.                          *)
(***************************************************************************)
EXTENDS Naturals, Sequences, FiniteSets

CONSTANTS
    Empty,           \* the string ""
    Unset,           \* NgxUnsetValue, or a string without data
    Default,         \* the default of a field
    MaxDirectives    \* bound: the directives in the file

ASSUME ConfigurationAssumption == Unset \notin Nat \cup {Empty, Default}

Location == {"loc", "nest"}
Parent == [srv |-> "main", loc |-> "srv", nest |-> "loc", ssrv |-> "smain"]
Blocks == {"main", "srv", "loc", "nest", "ups", "smain", "ssrv"}

VARIABLES
    stage,       \* "pre", "parse", "merge", "post", "serve", or "refused" or "dead"
    legacy,      \* whether legacy/ is linked or http/: they share directives
    count,       \* of directives
    conf,        \* the fields of a block's configurations, of all modules
    handler,     \* the handler of a location or a stream server
    merged,      \* the blocks that were merged with their parents
    phases,      \* the modules with a handler in a phase, or with filters
    variables,   \* the names added to nginx's variables
    said         \* ghost: the first value that a block gave to a field

configurationVars == <<stage, legacy, count, conf, handler, merged, phases, variables, said>>

-------------------------------------------------------------------------------
\* The directives.

\* NgxTake::take: the numbers of arguments from m to n; without n, just m.  From
\* nginx's limit on, "at least": one, or else two.
Limit == 8
take(m, n) == IF n < m THEN {m} ELSE IF n >= Limit THEN (IF m = 1 THEN 1 ELSE 2)..Limit
              ELSE m..n

Cmd(name, at, args, set, field) ==
    [name |-> name, at |-> at, args |-> args, set |-> set, field |-> field]

\* A module: its directives, and the callbacks it gives beside create.
Module(name, cmds, ctx) == [name |-> name, cmds |-> cmds, ctx |-> ctx]

NdgEchoInit == Module("echo", {Cmd("ndg_echo", Location, {1}, "echo", "msg")}, {})
NdgLegacyEchoInit ==
    Module("echo", {Cmd("ndg_echo", Location, take(1, 0), "legacy_echo", "msg")}, {})
NdgFilterInit ==
    Module("footer", {Cmd("ndg_header", Location, {2}, "keyval", "headers"),
                      Cmd("ndg_footer", Location, {1}, "slot", "footer")},
           {"postconfiguration"})
NdgFooterInit ==
    Module("footer", {Cmd("ndg_header", Location, take(2, 0), "keyval", "headers"),
                      Cmd("ndg_footer", Location, take(1, 0), "slot", "footer")},
           {"postconfiguration"})
NdgTestInit ==
    Module("test", {Cmd("ndg_test", Location \cup {"srv"}, take(1, 0), "slot", "enabled")},
           {"postconfiguration", "merge"})
NdgSubrequestInit ==
    Module("subrequest",
           {Cmd("ndg_subrequest_loc", Location, take(1, 0), "subrequest", "loc"),
            Cmd("ndg_subrequest_args", Location \cup {"srv"}, take(1, 0), "slot", "args")},
           {"merge"})
NdgUpstreamInit ==
    Module("upstream",
           {Cmd("ndg_upstream_pass", Location, take(1, 0), "upstream", "upstream")}, {})
NdgLoadBalanceInit ==
    Module("balance", {Cmd("ndg_load_balance", {"ups"}, take(0, 0), "balance", "init")}, {})
NdgShmemInit ==
    Module("shmem", {Cmd("ndg_shmem_size", {"main"}, take(1, 0), "slot", "size")},
           {"postconfiguration", "init_main"})
NdgVariablesInit == Module("variables", {}, {"preconfiguration"})
NdgDataHookInit == Module("datahook", {}, {"postconfiguration"})
NdgStreamDiscardInit ==
    Module("discard", {Cmd("ndg_discard_time_out", {"ssrv"}, take(1, 0), "slot", "timeout"),
                       Cmd("ndg_stream_discard", {"ssrv"}, take(0, 0), "discard", "")},
           {"merge"})
NdgStreamTimeInit ==
    Module("time", {Cmd("ndg_stream_time", {"ssrv"}, take(0, 0), "time", "")}, {})

\* A balancer of nginx's own.
OtherBalancer == Module("other", {Cmd("least_conn", {"ups"}, {0}, "other", "init")}, {})

modules ==
    (IF legacy THEN {NdgLegacyEchoInit, NdgFooterInit} ELSE {NdgEchoInit, NdgFilterInit})
    \cup {NdgTestInit, NdgSubrequestInit, NdgUpstreamInit, NdgLoadBalanceInit, NdgShmemInit,
          NdgVariablesInit, NdgDataHookInit, NdgStreamDiscardInit, NdgStreamTimeInit,
          OtherBalancer}

cmds == UNION {x.cmds : x \in modules}
With(callback) == {x.name : x \in {y \in modules : callback \in y.ctx}}

\* NgxPool::alloc gives a configuration zeros, and then its constructor: all that
\* is not given is unset.
create == [msg |-> Unset, headers |-> Unset, footer |-> Unset, enabled |-> Unset,
           loc |-> Unset, args |-> Unset, upstream |-> Unset, init |-> Unset,
           size |-> Unset, timeout |-> Unset]

ConfigurationInit ==
    /\ stage = "pre"
    /\ legacy \in BOOLEAN
    /\ count = 0
    /\ conf = [b \in Blocks |-> create]
    /\ handler = [b \in Blocks |-> Unset]
    /\ merged = {}
    /\ phases = {}
    /\ variables = {}
    /\ said = [b \in Blocks |-> create]

\* NdgVariablesInit: NgxVariables::init adds each, or throws in nginx's frames.
preconfiguration ==
    /\ stage = "pre"
    /\ \/ /\ variables' = IF "variables" \in With("preconfiguration")
                         THEN {"today", "rtt", "current_method", "parsed_uri"} ELSE {}
          /\ stage' = "parse"
       \/ stage' = "dead" /\ UNCHANGED variables
    /\ UNCHANGED <<legacy, count, conf, handler, merged, phases, said>>

-------------------------------------------------------------------------------
\* A directive.

\* The flags, times and sizes are numbers.
Values(f) == IF f \in {"enabled", "timeout", "size"} THEN {count'} ELSE {count', Empty}

Give(b, f, v) ==
    /\ conf' = [conf EXCEPT ![b][f] = v]
    /\ said' = IF said[b][f] = Unset THEN [said EXCEPT ![b][f] = v] ELSE said

Refuse == stage' = "refused" /\ UNCHANGED <<conf, handler, said>>

\* NgxHttpCoreModule::handler and NgxStreamCoreModule::handler: the last wins.
content(b, h) == handler' = [handler EXCEPT ![b] = h] /\ UNCHANGED stage

\* nginx's slots take a field once.
slot(b, f, v) ==
    IF conf[b][f] # Unset THEN Refuse
    ELSE Give(b, f, v) /\ UNCHANGED <<stage, handler>>

\* One array takes what all directives of the block give.
keyval(b, f, v) ==
    LET all == IF conf[b][f] = Unset THEN <<v>> ELSE Append(conf[b][f], v)
    IN  /\ conf' = [conf EXCEPT ![b][f] = all]
        /\ said' = [said EXCEPT ![b][f] = all]
        /\ UNCHANGED <<stage, handler>>

set_echo(b, f, v) ==
    IF conf[b][f] # Unset THEN Refuse
    ELSE Give(b, f, v) /\ content(b, "echo")

\* With ENABLE_SCRIPT: the text is compiled, and a second one replaces the first.
\* NgxComplexValue::init throws in nginx's frames if it does not compile.
set_legacy_echo(b, f, v) ==
    \/ /\ conf' = [conf EXCEPT ![b][f] = v]
       /\ said' = [said EXCEPT ![b][f] = v]
       /\ content(b, "echo")
    \/ /\ stage' = "dead"
       /\ UNCHANGED <<conf, handler, said>>

\* What the slot returns is ignored: a second directive is accepted and not used.
set_subrequest_loc(b, f, v) ==
    /\ IF conf[b][f] = Unset THEN Give(b, f, v) ELSE UNCHANGED <<conf, said>>
    /\ content(b, "subrequest")

\* Most of the ngx_url_t is not initialised: whether the name is found is open.
set_upstream_pass(b, f, v) ==
    \/ /\ conf' = [conf EXCEPT ![b][f] = v]
       /\ said' = [said EXCEPT ![b][f] = v]
       /\ content(b, "upstream")
    \/ Refuse

\* NgxHttpUpstreamModule::init throws if the block has a balancer.
set_load_balance(b, f) ==
    IF conf[b][f] = Unset THEN Give(b, f, "ndg") /\ UNCHANGED <<stage, handler>>
    ELSE stage' = "dead" /\ UNCHANGED <<conf, handler, said>>

other(b, f) ==
    /\ conf' = [conf EXCEPT ![b][f] = "other"]
    /\ said' = [said EXCEPT ![b][f] = "other"]
    /\ UNCHANGED <<stage, handler>>

set_discard(b) == content(b, "discard") /\ UNCHANGED <<conf, said>>
set_time(b) == content(b, "time") /\ UNCHANGED <<conf, said>>

\* nginx counts the arguments and calls the directive.
directive(b, c, n) ==
    /\ stage = "parse"
    /\ count < MaxDirectives
    /\ count' = count + 1
    /\ b \in c.at
    /\ IF n \notin c.args THEN Refuse
       ELSE \E v \in Values(c.field) :
            CASE c.set = "slot" -> slot(b, c.field, v)
              [] c.set = "keyval" -> keyval(b, c.field, v)
              [] c.set = "echo" -> set_echo(b, c.field, v)
              [] c.set = "legacy_echo" -> set_legacy_echo(b, c.field, v)
              [] c.set = "subrequest" -> set_subrequest_loc(b, c.field, v)
              [] c.set = "upstream" -> set_upstream_pass(b, c.field, v)
              [] c.set = "balance" -> set_load_balance(b, c.field)
              [] c.set = "other" -> other(b, c.field)
              [] c.set = "discard" -> set_discard(b)
              [] c.set = "time" -> set_time(b)
    /\ UNCHANGED <<legacy, merged, phases, variables>>

-------------------------------------------------------------------------------
\* The end of the file.

\* NgxValue::invalid: unset, or a string without data or of no length.
invalid(v) == v \in {Unset, Empty}

\* Mutant: a value that the parent has is passed over.
mergeDefault(c, p, d) == IF invalid(c) THEN d ELSE c

\* NgxValue::merge and NgxValue::init
merge(c, p, d) == IF invalid(c) THEN (IF invalid(p) THEN d ELSE p) ELSE c
init(x, d) == IF x = Unset THEN d ELSE x

\* The merge functions, each with its default; the other modules have none.
NdgTestMerge(c, p) == [c EXCEPT !.enabled = merge(c.enabled, p.enabled, Default)]
NdgSubrequestMerge(c, p) ==
    [c EXCEPT !.loc = merge(c.loc, p.loc, Default), !.args = merge(c.args, p.args, Default)]
NdgStreamDiscardMerge(c, p) == [c EXCEPT !.timeout = merge(c.timeout, p.timeout, Default)]

\* NdgShmemConf::init
init_main == [conf EXCEPT !["main"].size = init(conf["main"].size, Default)]

endOfFile ==
    /\ stage = "parse"
    /\ conf' = init_main
    /\ stage' = "merge"
    /\ UNCHANGED <<legacy, count, handler, merged, phases, variables, said>>

\* A block is merged with its parent once that one is.
mergeBlock(b) ==
    /\ stage = "merge"
    /\ b \in DOMAIN Parent \ merged
    /\ Parent[b] \in DOMAIN Parent => Parent[b] \in merged
    /\ merged' = merged \cup {b}
    /\ LET c == conf[b]
           p == conf[Parent[b]]
       IN  conf' = [conf EXCEPT ![b] =
                    IF b = "ssrv" THEN NdgStreamDiscardMerge(c, p)
                    ELSE NdgSubrequestMerge(NdgTestMerge(c, p), p)]
    /\ stage' = IF merged' = DOMAIN Parent THEN "post" ELSE stage
    /\ UNCHANGED <<legacy, count, handler, phases, variables, said>>

\* The init functions of the handlers put them in their phase, where a push may
\* fail and throw in nginx's frames, or on top of the filters, where nothing can.
postconfiguration ==
    /\ stage = "post"
    /\ \/ phases' = With("postconfiguration") /\ stage' = "serve"
       \/ /\ phases' \in SUBSET With("postconfiguration")
          /\ ~({"test", "shmem"} \subseteq phases')
          /\ stage' = "dead"
    /\ UNCHANGED <<legacy, count, conf, handler, merged, variables, said>>

-------------------------------------------------------------------------------

ConfigurationNext ==
    \/ preconfiguration
    \/ \E b \in Blocks, c \in cmds, n \in {0, 1, 2} : directive(b, c, n)
    \/ endOfFile
    \/ \E b \in Blocks : mergeBlock(b)
    \/ postconfiguration

ConfigurationSpec == ConfigurationInit /\ [][ConfigurationNext]_configurationVars

-------------------------------------------------------------------------------

\* NgxModuleConfig::get: what a request to a block reads.
conf_of(b) == conf[b]

\* What the content handlers read, and must therefore find.
Reads == [echo |-> "msg", subrequest |-> "loc", upstream |-> "upstream"]

\* The blocks around a block, itself included.
Around == [main |-> {"main"}, srv |-> {"main", "srv"}, loc |-> {"main", "srv", "loc"},
           nest |-> {"main", "srv", "loc", "nest"}, ups |-> {"ups"},
           smain |-> {"smain"}, ssrv |-> {"smain", "ssrv"}]

\* The value a field should have in a block: that of the innermost block around it
\* that was given one, which all others that were are around as well.
Nearest(b, f, v) ==
    LET given == {a \in Around[b] : ~invalid(said[a][f])}
    IN  IF given = {} THEN v = Default
        ELSE \E a \in given : given \subseteq Around[a] /\ v = said[a][f]

\* Whatever the order of the directives and the blocks, a request reads the value
\* that the innermost block around it was given, or the default of the module if
\* none was; "" counts as not given.  Fields of modules without merge are read as
\* they stand in the block, and a location that is answered by a module has what
\* the handler of that module reads.
Effective ==
    stage = "serve" =>
        /\ \A b \in {"srv", "loc", "nest"}, f \in {"enabled", "loc", "args"} :
            Nearest(b, f, conf_of(b)[f])
        /\ Nearest("ssrv", "timeout", conf_of("ssrv").timeout)
        /\ \A b \in Location, f \in {"msg", "headers", "footer", "upstream"} :
            conf_of(b)[f] = said[b][f]
        /\ \A b \in Location : handler[b] # Unset => conf_of(b)[Reads[handler[b]]] # Unset

===============================================================================
