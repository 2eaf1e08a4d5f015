# Verification of ngx_cpp_dev

ngx_cpp_dev is a kit of C++ headers (`src/ngxpp`) for writing nginx modules, with
modules that use it: `src/http`, `src/stream` and, in an older style,
`src/legacy`. This directory holds TLA+ modules of the parts of it that have
state, the TLC configurations that check them, and proofs for TLAPS.
`PROJECT.json` maps each definition to the lines it models.

An nginx worker is one thread. Nothing of this code runs in parallel with itself
inside a worker, yet its handlers are pieces of longer conversations: they run
when nginx's loop calls them, keep what they know in events, contexts and static
variables, and while they run the kernel, the clients and, through callbacks,
they themselves change what they looked at a moment ago. The project is about
that: sequences of calls no test runs, and events that come in an order nobody
wrote down.

## Inventory

| Component | State it keeps | Operations | What is hard | What makes it correct |
|---|---|---|---|---|
| Events (`NgxEvent.hpp`) | nginx's `ngx_event_t`: ready, timedout, timer_set, the key in the timer tree | `timeout(ms, reset)`, `timeout(ngx_nil)`, `wait`, `wait_for`, `process` | nginx does not move an armed timer by less than 300 ms, so resets add up; cancelling what has fired already | the timer tree agrees with what the callers asked for |
| Timer pool (`NgxTimer.hpp`) | a static deque of free events; per event its function and its timer | `add`, `call`, `acquire`, `release` | callbacks that add while their own event is not back in the deque; reuse of events | a pooled event is idle, none is lost, every add is answered once by its own function |
| `http/test` | timers it leaves behind | the rewrite handler, `timer_call` | timers that outlive the request and add themselves again | one chain of timers for each request, for good |
| `stream/discard` | the read event and its timer, the list of reusable connections | the content handler, `discard_read_handler` | edge-triggered input between `recv` and the wait; a timeout that races late input; stale fetched events; a wait that fails half-way | no input goes unreported, silent sessions are closed, on time and once |
| `stream/time` | the write event and its timer, bytes that nginx holds back | the content handler, `time_write_handler` | a socket that drains between the send and the wait; repeated waits | 100 ms in all, success only when all is sent, every session ends |
| `NgxFilter.hpp` | nginx's two top pointers, a static next pointer for each module and chain | `set`, `init`, `next` | the order in which modules are linked | every call reaches nginx's writer through every filter |
| `http/filter`, `legacy/footer` | a flag in the request's context, the declared length | header filter, body filter | bodies cut anywhere; error pages, subrequests and empty bodies through the same context | the body is as long as declared, and ends once, with the footer |
| `http/echo`, `legacy/echo`, `NgxResponse` | header_sent, the chains to be sent | handler, `send`, `flush`, `eof` | failures between two sends | a well-formed response, or a lost connection |
| `NgxSubRequest`, `legacy/subrequest`, `legacy/datahook` | the parent's write handler, its reference count, the captured headers and body | `create`, `sub_post`, `parent_post`, two filters | who finalizes what, exceptions in callbacks, output held back | the parent is finalized once, with the subrequest's body |
| `NgxUpstream`, `legacy/upstream` | nginx's upstream, its buffer | `create_request`, `reinit_request`, `process_header`, `start` | answers that arrive byte by byte, retries | the body has the length that the peer's header gives |
| `NgxLoadBalance`, `legacy/loadbalance` | per request a counter of tries and the round robin's data | `init`, `get` | peers that fail, a peer released to an algorithm that did not choose it | a request ends, counters of peers balance |
| `legacy/shmem` | an atomic counter in a segment shared by the workers | log handler, `exit_master` | several processes, crashes, reloads with another size | no sent byte is counted twice or lost |
| Containers (`NgxList`, `NgxArray`, `NgxQueue`, `NgxChain`, `NgxBuf`, `NgxRbtree`, `NgxHeaders`) | nginx's own structures | iteration, push, merge, remove, reshape | empty containers, a merge with itself, entries removed but still there | they behave like sequences and sets |
| `NgxVariable`, `NgxScript`, `NgxComplexValue`, `http/variables` | values in the request | get, set, evaluation | the kinds of variables, values that are not cacheable | what is set is what is got |
| `NgxModule`, `NgxConfig`, `NgxHttpModule`, `NgxStreamModule`, `NgxValue`, the `*Init` and `*Conf` files | configurations and contexts | create, merge, `data` | unset values, inheritance | the innermost value that is set wins |
| `NgxThread`, `NgxStreamFilter` | none of their own | | not used by any module here | |
| `NgxPool`, `NgxAllocator`, `NgxString`, `NgxLog`, `NgxClock`, `NgxDatetime`, `NgxDigest`, `NgxGlobal`, `NgxException`, `NgxWrapper` | none of their own | conversions, checked calls | | |

How they interact: nginx calls a handler of a module with an event, a request or
a session. The handler wraps it (`NgxEvent`, `NgxConnection`, `NgxRequest`), acts
on it, and either finishes or asks nginx to call it again (`wait_for`,
`NgxTimer::add`, a subrequest). A failed check (`NgxException::require`, `fail`)
leaves the handler through its catch, whose effect is part of each model. A
response passes the filters that the modules put on nginx's two chains when the
configuration was read.

The list `hazards` of `PROJECT.json` names what can go wrong at which line, and
which properties look for it.

## Modules

    NgxEvent         operators on one event
     |- NgxEventApi      arbitrary calls of timeout            MCNgxEventApi
     |- NgxTimer         the timer pool and the loop
     |   '- NdgTestTimer     http/test and others on top       MCNdgTestTimer
     |- StreamDiscard    stream/discard, loop, epoll, clients  MCStreamDiscard
     '- StreamTime       stream/time, loop, epoll, clients     MCStreamTime
    NgxFilter        operators on the chains of filters
    NdgFilter        operators of the footer's filters
     '- NdgEcho          one request, handler to wire          MCNdgEcho
    NdgSubrequest    a parent, its subrequest, the data hook   MCNdgSubrequest
    HttpMessage      abstract: what a client relies on; NdgEcho and
                     NdgSubrequest implement it
    NdgLoadBalance   operators on a request's peer data
     '- NdgUpstream      a request answered by a backend       MCNdgUpstream
    NgxConfiguration directives, merging, phases       -.
    NdgVariables     values that requests share         |- together in MCNgxServer
    NdgShmem         workers on a counter in a segment -'
    NgxList          headers of a request and its subrequest -.
    NgxArray         arrays that move                         |- together in
    NgxChain         links and the pool's list                |  MCNgxContainers
    NgxQueue         rings of the caller's nodes             -'
    NgxEvent_proof       lemmas on timers, for the next three
     |- NgxTimer_proof       NgxTimer, NdgTestTimer, NgxEventApi
     |- StreamDiscard_proof
     '- StreamTime_proof
    NdgUpstream_proof, NdgEcho_proof
    NgxServer_proof      NgxConfiguration, NdgVariables, NdgShmem, NdgSubrequest
    NgxContainers_proof  MCNgxContainers: the four containers

* **NgxEvent** keeps a timer's key relative to the clock (`left`), so the clock
  needs no bound. `Timeout` is `NgxEvent::timeout`; `AddTimer`, `DelTimer` and
  `Expire` are nginx's, with the lazy delay as the constant `LazyDelay`.
* **NgxEventApi** lets callers call `timeout` in any order (`Ask`, `Cancel`) and
  keeps, as a ghost, the deadline they were told.
* **NgxTimer** has `pool`, the deque, and per event `m_ev` and `m_func` as in the
  code. `calling` is the event whose handler is running: the code between
  `e()` and `release(e)` in `NgxTimer::call` is the window in which callbacks
  add. `add`, `call` and `return` are actions, `Tick` is the wait of the loop.
* **NdgTestTimer** restricts who adds what to the real caller `NdgTestHandler`
  and to any other module, and gives the loop its fairness.
* **StreamDiscard** and **StreamTime** split a handler where the environment can
  act: at its entry (`enter`), at each `recv` or `send`, and at the wait
  (`wait_for`, `wait_fails`). `handler`, `deliver`, `expire` and `drain` are the
  ways in which nginx calls it. epoll is edge-triggered: a change of a
  registered socket puts it in `edge` once, `poll` moves `edge` to `batch`.
* **NgxFilter**, **NdgFilter** and **NdgEcho**: first the modules register their
  filters, in any order; then a content handler sends its body as a sequence of
  chains (`todo`), each through the filters (`output`), and nginx's writer takes
  it buffer by buffer (`write`). Bodies are sequences of buffers with a size and
  the two marks of the end; what the bytes are does not matter, only whether
  they are content or footer. `echo` is this repository's handler, `serve` and
  `subrequest` are nginx's own handlers behind the same filters.
* **HttpMessage** is the abstract specification: a declared length, a body of that
  length, one end. `WellFramed` of `NdgEcho` and of `NdgSubrequest` is the
  refinement.
* **NdgSubrequest** has two kinds of parent: `NdgSubrequestHandler`, for which nginx
  collects the body of the subrequest in `out`, and a module that has
  `NdgDataHookHandler` keep it in its context. `create_subrequest`, `handle`, `feed`, `subBreaks` and
  `subEnds` are the life of the subrequest, `sub_post` and `wake` hand its result to the
  parent, and `parent_post`, `relay` and `send` answer. `hooking` may come at any
  moment. Whether the subrequest is still on `r->postponed` when the parent looks is
  nginx's affair and left open.
* **NdgUpstream** has `handler` with its early returns, and then nginx's upstream
  as it calls the module back: connect, send, `receive` and `relay` of any number
  of bytes, end, failure, time-out and a client that leaves. `count` is
  `r->main->count`; a failed connect may finish the request before
  `handler` has returned. **NdgLoadBalance** is the choice of a server: the draw
  of `get` on top of nginx's round robin, whose release expects to have chosen.
* **NgxConfiguration** reads a file in any order of directives and blocks, with
  each directive's own slot or handler and each module's own merge, and then
  registers phases and filters. `said` remembers what each block was given.
* **NdgVariables** has one array of cached values that a subrequest shares with
  its parent, or a copy of it. The date, the URI, the arguments and a variable that
  is set stand for the four kinds of flags.
* **NdgShmem** cuts `NdgShmemHandler::handler` at every step another process can
  see: the opening of the segment, the lock, looking for the counter, making it,
  adding to it. Workers are killed anywhere, reloaded with another size, and run
  beside those of an upgraded binary until the old master exits and removes the
  name.
* **NgxList**, **NgxArray**, **NgxChain** and **NgxQueue** model memory as blocks and
  links, so that it is seen what copies share, what moves and what is given back,
  and compare the contents with plain sequences (`own`, `given`, `mine`,
  `placed`). Visits are taken apart at each callback. That of `visit` may push what it
  gets at any step, to another container or to the one that is visited; that of
  `merge` (`each`) pushes at every step.

## Runs

| Run | Question | Bounds, and why they are enough |
|---|---|---|
| `event_api` | Does the timer tree follow the callers, whatever they call? | lazy delay 3, delays 1, 2, 5 and 9, turns of 1, 2 and 4: resets below and above the lazy delay, in both directions, and turns that overshoot a deadline |
| `event_nil` (violation) | Is `ngx_nil` the same as deleting the timer, as `NgxEvent.hpp:54` says? | the same, callers may cancel without a timer |
| `timer` | Are pooled events idle, is none lost, is each add answered once, does each request of `http/test` leave one chain? | 4 events, 2 requests and one event for another module: callbacks of either nest in all ways, and the deque is used from both ends |
| `discard` | Can input be stranded, a session be closed too early or never, a closed one be served? | 2 sessions, so that a fetched event of one waits while the other is handled; limit 4, lazy delay 2, turns of 1 and 3; one piece of unread input, since more is read by the same loop |
| `time` | Can output be stranded, a session outlive its 100 ms, success be reported too early? | 2 sessions, wait 3, turns of 1 and 2; no bound on what is sent is needed: the deadline ends it |
| `response` | Is every response well formed, and closed by the footer? | 2 filter modules in both orders; footers, messages, arguments and bodies of 0 to 5 bytes with different sums; bodies of one and two pieces, in one chain or several, the end marked on the last bytes or apart; both versions of the filter |
| `response_refused` (violation) | Does an error page after a refused header have its declared length? | as `response`, with the footer configured where a header is refused |
| `response_empty` (violation) | Does an empty body get its footer within its declared length? | as `response`, with the footer configured where the body is declared empty |
| `subrequest` | Is the parent's response well formed, is the parent always woken, do header and body of a subrequest go to one place? | bodies of no chain, an empty chain, one or two chains, and one with a null chain between; codes 200 and 404; a subrequest that breaks off; the hook asked for at each step |
| `upstream` | Is the request counted right, the answer relayed whole, a backend asked once, and when does a worker die? | 2 servers, with and without `ndg_load_balance`, in blocks of one and two; arguments of 0 and 3 to 5 bytes around the one length that is accepted; answers as long as announced, longer, shorter, without a body, cut off in the length, cut anywhere on the way |
| `server` | Does the innermost value win, do requests read their own variables, does the counter lose nothing? | 2 directives, so that each pair of directives meets in each pair of blocks; 2 URIs, 2 texts and 2 days, a request and its subrequest; 2 workers, 2 segments, sizes above and below what a segment needs, 2 bytes counted |
| `containers` | Are lists, arrays, chains and queues sequences, whatever is shared, moved, given back or changed during a visit? | lists with 2 cells a part and 3 blocks: one, two and three parts; 2 arrays in 3 blocks of up to 4 elements, so that each moves; 3 chains of 5 links; 2 queues of 3 nodes; 5 calls, and visits within them whose callbacks push at any of their steps: visits of arrays that move during them come to their end, and lists grow to three parts under a visit |

`server` and `containers` check several modules that share nothing that changes in one
run: the variable `focus` says which of them moves, so the state space is the sum
of theirs.

What the three violations show is described under `findings`:

* `timeout(ngx_nil)` on an event without a timer arms one that is due at once.
* A header that is refused below `ndg_footer`, by nginx's range filter for one,
  leaves the context with flag 1, so the error page gets the footer in its body
  but not in its length.
* A body declared to be empty (an empty file) gets the footer, but its length
  stays 0.

`NdgEcho` has a constant, `WithFooter`, that names the situations in which a
footer may be configured: the passing run has none, the violations one each. A
third, `"subrequest"`, is where `legacy/footer` takes the end of a subrequest's
chain for the end of the response; `http/filter`, which looks at `last_buf`
alone, is right there, and the passing run checks it.

Deadlock is checked in the runs on events, timers and stream sessions. In the
others a request, a file of directives or a bounded series of calls comes to its end.

### What the passing runs say of weak points

Some properties hold only as they are stated, and the way they are stated tells
a reader what the code does not promise:

* `Settled`: an exception in `parent_post` is swallowed, and the parent is never finalized.
  `sub_post` answers `NGX_OK` whatever the result, so a subrequest that broke off is
  relayed as a whole response of code 200, and one that never began makes the parent
  answer 500.
* `CrashNeedsDraw`: a peer drawn by `NdgLoadBalanceHandler::get` is unknown to round
  robin, whose release reads a null pointer in nginx 1.9 and later if the block has
  several servers. Those with one server are safe.
* `AskedOnce`: `NdgUpstreamConf` leaves `next_upstream` 0, so nginx never tries a second
  peer. `reinit_request` and the bound of five draws are never reached.
* `Relayed` says that the client gets what the backend sent, not that this is as
  long as announced: without an input filter a longer or shorter body is relayed as it is.
* `Counted` is about what is lost, not about progress: the lock is not robust, and a
  segment that is too small raises an exception that the handler does not catch, on
  each request. After an upgrade the old master's exit removes the name, and later workers
  count in a segment of their own.
* `OwnKept`: a subrequest's copied list of headers may share its last part with
  the parent's, and then each overwrites what the other adds. The property says when
  each list is still what its owner made of it.
* `VisitSees`: a callback that pushes to the array it visits may move it, and the
  visit then reads on past the old block: what it sees is right up to the room of
  that block and anything behind it, although it calls back as often as there are elements. A
  merge with itself has at each step something left to see, so it does not end before the
  pool does. For a list this holds only while the list is what its owner made of it: the other
  one of the two may end it, and with it the merge. The proof brought this up.
* `NoneTwice`: a queue that was merged into another must be initialised before it is
  used again, since its head still points at nodes that are no longer its own.
* `Effective`: `""` counts as unset when blocks are merged. The file is accepted with
  `ndg_subrequest_loc` given twice, of which the first is kept, and with the older
  `ndg_echo` given twice, of which the last is.

## Fairness

* `NdgTestTimer`: the loop turns, timers that are due fire, callbacks return, and
  `timer_call` gets to its add: weak fairness of these four. A worker that is
  alive does that. Nothing makes a request or another module add. Delay 0 is left
  out of the other modules' delays: a callback that adds itself again with delay
  0 is expired for ever by `ngx_event_expire_timers`, and then nothing else runs.
* `StreamDiscard`, `StreamTime`: the worker finishes a handler it is in (`recv` or
  `send`, `wait_for`) and its loop turns (`deliver`, `expire`, `poll`). Clients owe
  nothing: they may fall silent or never read. `SilentSessionsClose` assumes that
  from some time on no client sends, for a client that sends for ever is kept for
  ever, rightly.
* `NdgEcho`: the worker takes some step while it can. A client that does not read is
  cut off by nginx's own send_timeout, which is the loss of the connection in
  `write`.
* `NdgSubrequest`: the worker takes some step while it can. The location that is asked
  ends its answer or breaks off, which is its own module's duty and nginx's time-outs'.

The others have no fairness and no liveness property.

## Proofs

The theorems hold for every value of the constants that the named assumptions allow:
any number of events, functions, sessions, modules, requests and workers, any
delays, lengths and bodies.

* **NgxTimer_proof**: `IInv` is inductive: types, `PoolIsIdle`, `NothingLost`,
  `PromisesInTree`, `MadeIsPeak`, and `UsesApart`, which the others need: an event
  is armed, parked or running but not two of these, and an armed event has a
  function. The steps rest on lemmas about taking the head of an injective
  sequence and appending to it (`PopFront`, `PushBack`), and on counting the armed
  events that carry a function. `TimerFuncStable` is the action property: no step
  assigns the function of an event in use. `http/test` on top of the pool is an
  instance of it (`TestImplementsTimer`), so all of the above holds there, and
  `OneChainPerRequest` follows for any number of requests. `ApiTimerFollowsCalls`
  is `TimerFollowsCalls` for any delays, any turns and any lazy delay, for callers that
  cancel only a timer that is set (`NilOnlyIfArmed`): the run `event_nil` shows that
  it does not hold for others. It is inductive with the types.
* **StreamDiscard_proof**: `IInv` holds the five safety invariants together with
  `Handling`, what is known half-way through a handler: it has not expired, it
  stops reading only after `recv` found nothing, and what arrives after that is
  reported if the socket is registered. `NoStrandedInput` is not inductive without it.
  `DiscardClosedForGood` is the action property.
* **StreamTime_proof**: in the same way, with `UnsetIsYoung`: a session whose timer
  is not set has not waited yet. That is why the wait that sets it starts the
  clock at the accept, and `HardDeadline` is not inductive without it; nor is
  `OkMeansSent` without `ClosedHaveCode`, as an open session may hold output again.
* **NdgUpstream_proof**: one inductive invariant for each property. `Referenced`
  (`CountHolds`): the handler is on the stack only once the upstream has begun.
  `Asked` (`AskedOnce`): nothing is heard before a connection, and the message is the
  one that was made. `Drawn` (`CrashNeedsDraw`): peer data that cannot be released
  belongs to a block with several servers and `ndg_load_balance`. `Framed`
  (`Relayed`): up to the header the buffer and the line together are the answer,
  after it what was sent and the line are its body; the steps rest on lemmas about
  cutting and joining sequences. For any arguments, answers, peers and blocks.
* **NgxServer_proof**: `Kept` (`Fresh`) says for each kind of variable what an array of
  cached values may hold: the first day that was read in it, what was last set,
  or nothing that may be used again; so a subrequest that shares its parent's
  array reads right, and so does one that has a copy. `Counting` (`Counted`): a
  worker that is about to add has a segment, and a counter in it, which nothing takes away;
  for any number of workers and segments and any sizes. `Configured` (`Effective`):
  until the file ends the slots of a block hold what was said in it, then those
  of the merged blocks what is nearest to them, and a location that is answered by a
  module has what its handler reads, for directives and blocks in any order.
  For the subrequest, `Hooked` makes `HookedWhole` inductive: the hook is set only
  by a context whose headers were captured, and while the subrequest has not
  answered, nothing has been captured. `Owing` is for `WellFramed`: what the parent
  has still to send is one call, a call and the end, or two calls and the end,
  which together make up what it declared. With it each step is a step of
  `HttpMessage` or leaves the message alone, for any bodies, codes and lengths.
* **NgxContainers_proof**: memory of any size, any number of calls, arrays, chains,
  queues, nodes and headers. What is in memory is related to the plain sequences by
  one invariant for each container, with `Kept` as their conjunction.
  `Arrayed` (`VisitSees`): each array has a block of its own with what it was given, and a
  visit reads there or in the full block that the array has left, whose content is
  what the array was given first (`Reads`).
  `Linked` and `Queued` (`NoneTwice`): a chain is a row of different links that ends where
  `next` does, no two rows meet, and the pool is one of them; the nodes of a queue and its
  sentinel are a ring, of which the row backwards is the reverse.
  `Listed` (`OwnKept`, `VisitSees`): there is, for each list, a set of parts it may come to
  (`Laid`). Further parts have blocks that were taken later than those
  before them, so the cells of a list are all different and what is pushed comes
  behind the last; after a reinitialisation the two sets have no block in common. `Sure`
  says whose list still holds what it was given, `Progress` how much of it a visit has
  seen, whether or not its callback has pushed so far.
  The models follow links by recursive functions. The induction that is needed along
  a row or a list is done by the least element of a set of numbers, which these provers
  can use since it takes no operator as a parameter: `FlatExists` shows that the rows of
  cells exist, `PartInduction` that what is handed from the next part to a part holds of all.
* **NdgEcho_proof**: three inductive invariants.
  `Linked`: no filter is linked before its turn, and each that had its turn is met by every
  walk from the top; the walk is the least set closed under `next`, and
  `SetKeepsWalk` says that `NgxFilter::set` keeps it. This is what any order of
  modules comes down to.
  `Marks` (`EchoFooterCloses`): where the end is marked in the chains that remain, on the last of
  their buffers or nowhere, and that before it no footer has been sent; with
  `body_filter`, it puts the footer after the mark it takes away, for bodies of any
  number of buffers and chains, cut anywhere.
  `Account` (`EchoWellFramed`): the declared length is what was sent, plus the buffers in the
  writer's hands, plus the calls to come, plus the footer if it is still to be added.
  A sum over a sequence would be a recursive function. It is said instead that there is a function that gives at each place
  what remains from there on (`Adds`). Such a function is cut, continued or
  raised by a constant in each step (`FooterAdded` for the filter's).
  `EchoFooterCloses` assumes that a footer never meets a subrequest in `legacy/footer`,
  and `EchoWellFramed` that it meets none of the three situations of `WithFooter`. These
  are the ones where the code does otherwise, as the violations above and the
  text on `"subrequest"` say; the passing run assumes the same.
* **NgxEvent_proof**: the lemmas on timers that all of them need, among them `TimeoutCases`.

The assumptions are those on the constants (`LazyDelayAssumption`, `ApiAssumption`,
`TimerAssumption`, `TestAssumption`, `DiscardAssumption`, `TimeAssumption`,
`FilterAssumption`, `EchoAssumption`, `SubrequestAssumption`, `PeersAssumption`,
`UpstreamAssumption`, `ConfigurationAssumption`, `VariablesAssumption`,
`ShmemAssumption`, `ContainersAssumption`), which TLC evaluates in the runs, `NilOnlyIfArmed` in
`ApiTimerFollowsCalls`, and those on `WithFooter` in the two theorems on the response.

Only model-checked: all liveness (`PromiseKept`, `ChainsNeverEnd`,
`SilentSessionsClose`, `EverySessionEnds`, `Answered`, `Settled`), which is beyond the
prover. Every safety property that a passing run checks is a theorem.

## Not modelled

* What bytes, headers, dates and digests consist of, and logging.
* Memory, beyond the containers: an allocation may fail where that ends a request, a
  session or a call.
* What no module of the repository uses: `NgxRbtree`, `NgxThread`, `NgxStreamFilter`,
  `NgxScript`, `NgxTimerCaller`, `NgxRequestBody::read`, `NgxRequestCleanup`,
  `NgxPool::construct` and `cleanup`, `NgxAllocator`. They wrap one call of nginx each,
  and what they promise would be what nginx promises. `NgxQueue` is modelled all the same,
  since its iteration and its merge are code of this repository.
* In containers, calls that break nginx's own terms: `tail` or `append` on a chain that
  is empty, which reads a null pointer, a node that is put into a second queue, and a
  loop over a queue whose body moves the current node to another.
* A build of nginx with `NGX_DEBUG`, which clears the links of a removed node, so that
  a loop over a queue whose body removes it would read null.
* Exceptions other than `NgxException`, which leave a handler through nginx's C
  code: there is no state after that.
* nginx itself, beyond what this code relies on: the timer tree, epoll, the list of
  reusable connections, the writer, the postpone filter's order of output. These
  definitions are marked external in `PROJECT.json`.
* Range requests for a response with a footer. nginx's filter that answers them computes
  the length after this module has corrected it, and the one that cuts the body
  runs before this module has added the footer; the result for whole responses
  does not cover them.

## Plan

Done: all parts of the inventory that keep state and are used, and the proofs above.
What could be added:

1. Liveness of `NdgUpstream` (a request is freed in the end) under nginx's time-outs.
