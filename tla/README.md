# Formal models of lighter-go

lighter-go is the Go SDK of the Lighter exchange. It signs layer-2 transactions,
asks the exchange for nonces over HTTP, sends transactions and follows order
books and accounts over WebSockets, and exports the signing functions as a C
library. This directory models its concurrent and stateful parts in TLA+,
checks them with TLC and proves their central properties with TLAPS.

Paths below are relative to `src/`. `PROJECT.json` maps every definition to
the lines it translates, and lists runs, mutants, hazards and theorems.

## 1. The system

| Component | State | Operations | Talks to | What is hard |
|---|---|---|---|---|
| WebSocket client lifecycle: `client/ws_orderbook_client.go`, `ws_tx_client.go`, `ws_account_market_client.go` (three copies of one design) | `conn`, `isConnected`, `ctx`, `done`, the loop counter | `Run`, `connect`, `handleMessages`, `Stop`, `IsConnected` | the network, handlers, senders | `Run`, `Stop` and senders share `conn` and `isConnected` with no lock held; reconnects; a counter that is reset in the loop that counts it; only pings notice a dead network, and their goroutines outlive the session |
| Message dispatch: `processMessage` and `handle...` of the three clients, `ws_messages.go` | the goroutines under way | one goroutine per message, user handlers | users' callbacks | handlers run in any order and may block; two shapes of error; channel names parsed to markets |
| Subscriptions: `handleConnected`, `sendMessage`, `handlePing` | which markets the server knows of | subscribe after the greeting, answer JSON pings | the connection, auth tokens | handlers outlive their session; check and use of `conn` are two reads |
| Write path: `SendTransaction`, `SendBatchTransactions`, `sendMessage`, the pinger, the ping handler, over gorilla/websocket's `WriteMessage` and `WriteControl` | the connection's buffer, open writer, token, write error | write a message, write a control frame | the socket | the library permits one concurrent writer and the clients do not ensure it |
| Requests over WebSocket: request ids and answers | none in the library | send, answer handler | users | an answer can overtake the id; a lost connection loses answers; retries |
| C library: `sharedlib/sharedlib.go` | `txClient` (selected), `backupTxClients` (map) | `CreateClient`, `SwitchAPIKey`, `CheckClient`, `Sign...`, `CreateAuthToken` | `TxClient`, the exchange | two globals without a lock; a failing selection; a panic turned into a return value |
| Go API: `client/tx_client.go`, `tx_get.go` | a client's account, index, key; the caller's options | `NewTxClient`, `FullFillDefaultOps`, `Get...Transaction`, `GetAuthToken`, `SwitchAPIKey` | HTTP client, key manager | defaults are written into the caller's options |
| HTTP client: `client/http_*.go` | none | nonces, keys, accounts, orders, markets | the exchange | timeouts (30 s); everything else is I/O and parsing |
| Construction: `types/tx_request.go` | none | `Convert...`, `Construct...`, `ConstructAuthToken`: validate, hash, sign | `txtypes`, signer | order of the three steps; deadlines of tokens |
| Validation: `types/txtypes/*.go` | none | `Validate`, `Hash` of fifteen transactions | | rules over several orders; widths and nil values; what a signature binds |
| Signer: `signer/key_manager.go` | a key | `Sign`, `PubKey` | vendored cryptography | none that a model checker reaches |

What makes each of them correct:

* Lifecycle: retries are neither lost nor invented; the flag tells senders the
  truth; no socket is left open; a stop closes what is read; on a live network
  the client comes back, on a dead one `Run` ends; a stop leaves no goroutine.
* Dispatch: no message reaches the wrong handler, an error is never data, and
  reading never waits for a handler.
* Subscriptions: every market once per session, none left out, also after outages,
  and with a token that has not expired.
* Write path: what was accepted is on the wire once and whole; an error is final;
  every call returns.
* Requests: what is tried again is executed once, and what is sent on a connection
  that lasts is answered.
* C library: signature, account, index, key and nonce belong to one client, and
  for a caller with one thread to the client it selected and checked.
* Go API: options that are used again, by failing and switched clients, sign for
  whom they name, with one nonce, and a fetched nonce is of the signing owner.
* Transactions: what is signed is what was asked, by a hash that no other
  transaction has, and it is returned so that the exchange finds the same hash. A
  signed group of orders keeps the rules between its orders, and each of its
  orders is one that would be signed alone.

`"hazards"` in `PROJECT.json` lists, line by line, what can go wrong in this
code and which property would catch it.

## 2. The modules

| Module | What it is |
|---|---|
| `WsLifecycle` | `Run`, the reconnect loop, the read loop, `Stop`, and the network |
| `WsSupervisor` | what `Run` promises, without connections and loop counters; `WsLifecycle` implements it through `Phase` |
| `WsSession` | what senders see of `Run`: the shared connection and the flag; `WsLifecycle` implements it, `TxRequests` assumes it |
| `WsLifecycle_proofs` | safety and both refinements, for every maximum and any connections, with the keep-alive and without |
| `WsKeepAlive` | extends `WsLifecycle`: the pinger of each session, and how a dead connection is noticed |
| `WsSubscriptions` | extends `WsLifecycle`: the greeting, its handler, tokens, `sendMessage` |
| `MarketFeed` | what the server sees of a client's subscriptions; `WsSubscriptions` implements it |
| `AuthTokens` | deadlines of tokens |
| `WsSubscriptions_proofs` | every market once, none left out, tokens in time, and the refinement, for any handlers, subscriptions, sessions and clock |
| `ConnWriter` | the write side of one connection, message and control writes |
| `MessagePipe` | what a connection promises calls that do not overlap; `ConnWriter` implements it |
| `ConnWriter_proofs` | that refinement, and what holds even when calls overlap |
| `WsDispatch` | read loop, goroutines and the choice of handlers in the three clients |
| `WsDispatch_proofs` | who is called, for any messages and handlers |
| `SharedLib` | the C library with the parts of `TxClient`, HTTP and construction it uses, and the exchange |
| `OneSigner` | what the library promises a caller with one thread; `SharedLib` implements it |
| `SharedLib_proofs` | its safety, for any number of threads and any clients, and the refinement for one thread |
| `TxOptions` | the Go interface: options that callers keep, their defaults, `SwitchAPIKey` |
| `TxRequests` | extends `TxOptions`: what is signed is sent, executed, answered or lost |
| `TxRequests_proofs` | the safety of both, and that the connection of the second keeps to `WsSession`, for any threads, clients, options, requests and connections |
| `GroupedOrders` | validation of orders and groups of orders, and their construction |
| `GroupedOrders_proofs` | what a signed group guarantees, for every group |
| `Transactions` | extends `GroupedOrders`: arguments, validation, hash and JSON of every type |
| `Transactions_proofs` | that a hash binds and signs what was asked, for any calls, widths and limits |
| `MC...` | instances for TLC |

Operators under a comment `Fault` or `Faults` are not part of a model: each is
a plausible slip in the code, which `PROJECT.json` ("mutants") puts in the
place of a definition to show that a property can fail.

### WsLifecycle

One step for every access of a field that another goroutine touches. The
runner's place in the code is `runPc`: `dial` (`connect`), `pause` (the sleep
after a failure), `publish` (a connection is there, the flag is not yet set),
`select` and `read` (the loop of `handleMessages`), `failed`, `closing`,
`decide` (what `Run` does after an error), `returned`. `DialSucceeds` and
`DialFails` are `connect`; `EndOfBody` is the loop's own `attempt++` and test;
`Publish` sets the flag and resets the counter. The order book client resets it
under a condition (`:186`), the others always: `GuardedReset` chooses. `Stop`
is `StopCancel`, `StopCheck` (`c.conn != nil`), `StopClose` (which may load
`c.conn` again) and `StopReturn` (`<-c.done`). A session ends with the context
(`SelectDone`), with its connection (`ReadFails`), or on an open one with an error of
the ping handler, whose pong cannot be written, or of the protocol (`PongFails`).

Two abstractions look at this module. `WsSupervisor` sees the retries: dials,
sessions, the end. `WsSession` sees what other goroutines read without a lock,
`c.conn` and `c.isConnected`: a connection is dialled, published once, lost and
taken back before the next dial. After `Stop` was called nothing of this is
promised (`Anything`), since the code then leaves the flag as it is.

`fails` and `served` are history: failed dials since the last success, and
whether one ever succeeded. `conn`, `isConnected` are word-sized and written by
one goroutine; the race detector objects to their unlocked reads, but on the
platforms Go supports such a read returns the old or the new value, and that is
what one step per access gives.

The connections of `Conns` are identities: `connect` may return any that
neither `conn` nor `Stop`'s copy refers to (`DialAssumption` needs three). A
reused identity is a new connection: its buffer is empty and it is open.

### WsKeepAlive

`Starts` and `Ends` are the beginning and the return of `handleMessages`, with
the goroutine and the ticker of the session. A pinger waits for its ticker or
the context; the session's return stops the ticker, and then only the context
is left, so the pingers of earlier sessions are one Boolean (`orphaned`). Since
Go 1.23 (`go.mod`) a stopped ticker leaves no tick behind; a ping that is in
hand when its session returns is left out. `unacked` holds the connections with a ping that the
network has not acknowledged: TCP gives these up for certain (`GivesUp`), others
only perhaps (`Breaks` of `WsLifecycle`). A ping fails on a connection that
broke, or behind one that is stuck, and the pinger then ends for good,
whatever becomes of the session. A pong fails under the same conditions, and ends
the session on a connection that is still open (`EndsOpen`); no property counts on
it, so it has no fairness. A protocol error of the server is left out here: it would
end sessions while the network is up.

### WsSubscriptions

`wire` is what is buffered on each connection (a greeting, then pings), `task`
the handler goroutines and the market each has come to, `heard` how often the
server got each market's subscription on a connection (0, 1, many), `late` those
that came with an expired token. `CheckPasses` and `Writes` are the
two reads of `c.conn` in `sendMessage`; what is written to a connection that is
not open is lost. `Subs` is what was registered: an order book has neither token
nor client, and then the module is the order book client's `handleConnected`;
with them it is the account market client's. A session may also end on an open
connection in an outage, after a pong that failed (`PongFails`): what was written
before is then still on its way. `Token` is the choice of a token
(`Renews`: a client makes a new one), and a subscription whose token cannot be
made is passed over; time passes between handlers (`Passes`). The client is one
that is not stopped. `PauseOutlasts`
says that the reconnect pause is longer than a greeting's handler: five seconds
and a tenth with the defaults. Without it a market can be subscribed twice: with a
short `WithReconnectInterval` the old session's handler subscribes on the new
session's connection. `MarketFeed` is what remains of all this for the server: on
every connection the greeting, and then the markets one after the other.

### AuthTokens

A token is its deadline, in whole seconds as `deadline.Unix()` writes it.
`GetAuthToken` refuses what lies more than seven hours ahead; the account
market client asks for six, the C library's default is exactly seven.
`WsSubscriptions` uses these definitions.

### ConnWriter

A `WriteMessage` is `NextWriter` (which flushes a writer that another call left
open, and clears `c.writer` in any case), `Write` and `Close`. `Write` copies the
message into the shared buffer of 4096 bytes, and flushes the buffer whenever it is
full and there is more: a message larger than the buffer, as a batch of transactions
is, goes out in several frames, each with its own turn at the socket, and an error of
one of them is returned from the middle of `Write`. `Close` flushes the rest.
`FramesOf` says how many buffers every message takes, `copied` how many the call has
filled. A flush raises `isWriting` and takes the token `c.mu` around the socket
write; between two flushes a ping can go out. `WriteControl` takes the token, with
ten seconds' patience. `target` is the messageWriter that a writer flushes, `fate` and
`sent` record what was returned for a message and how many of its frames are on the
wire, and `garbled` that a frame went out that was not the next one of its message:
other bytes, a final bit too early or too late, nothing at all. What is on the wire
after that is not followed further. A panic ends the program (`crashed`).
`overlapped` records that two calls were under way together, which the library
forbids and the clients allow.
`MessagePipe` is a connection without writer, buffer and token: one message in
hand, put on the wire frame by frame, and answered.

### WsDispatch

`Reads` is one turn of the read loop: it starts a goroutine with the calls that
`processMessage` will make for this client, these handlers and this message
(`pending`); `Calls` makes the next of them. A message is its type, its nested
and flat error, whether the typed structure decodes, its channel (a number
after `:` or after `/`) and the parts of an account update. Decoding is by
cases: what `json.Unmarshal` accepts is a field of the message. A handler
that blocks is one whose goroutine takes no further step.

### SharedLib

Threads are the C caller's. A function is split where it uses a global a second
time and where it waits for the exchange. The `Sign...` functions differ only
in what is signed, so `SignStarts`, `FullFillDefaultOps`, `GetNextNonce` and
`Constructs` stand for all of them; `SignModifyOrder` checks for nil first
(`SignRefuses`), and `SignUpdateMargin`, which does not fill in defaults, has
its own actions. C ints are narrowed (`uint8`). The exchange's nonces, registered keys and
availability are variables. That Go may end the process when two threads are in
the map at once is no action: a process that ended takes no further step, so
every reachable state is still one the program can be in.

`selected`, `made` and `checked` are history: the last selection, the last
client of each index, and the indices whose check succeeded since their key or
client last changed. `OneSigner` needs none of them: it sees the globals alone,
with a client that `CreateClient` has selected and not yet stored counted as
stored (`Storing`), so that creating and switching are one step.

### TxOptions

`opts` holds the caller's `TransactOpts`. `Filled` writes the defaults into
them as the code does: the API key index as a pointer to the client's field
(here the client itself, which `Deref` follows), so that a later `SwitchAPIKey`
changes them. The account pointer is a value, since nothing writes a client's
account. A call is `GetsWithNonce`, `GetsRefused` or `GetsAsking`, then
`GetNextNonce` or `RequestFails`, then `Constructs` or `ConstructionFails`.
`reply` is what the last step returned, `history` the options': what the caller
gave, who used them, and whether two calls had them at once (`shared`). Two such calls
race on the fields of the options. The account and the index are filled in by
one step: two calls of one client write the same there, and for calls of
different clients no property says who signs. The nonce has a step per access,
and the properties about it exclude calls that overlap.

### TxRequests

The steps of `TxOptions`, and what becomes of the transaction that a call
returned (`Keeps`). `stage` is where its caller is (`SendTransaction` is `Checks`,
`Writes`, `Returns`), `place` where the request or its answer is, and the two move
independently: the answer may be handled before `SendTransaction` has returned
the id. A connection breaks at any time; what was written to it may have been
delivered or not, whatever the write returned. The exchange executes a
transaction whose key and nonce are its owner's, and answers on the connection of
the request or not at all. The module does not extend the lifecycle: `phase` is what
senders see of `Run` (it looks for a connection, has one that is not yet
published, or reads), `Dials`, `Publishes`, `Breaks` and `ReadFails` are what it
does there. That a connection behaves like this is no assumption: the module
implements `WsSession`, and `WsLifecycle` does. A batch is one request, so `SendBatchTransactions` has the same
steps. `twins` is history: the requests that the same client signed before with
the same options.

### GroupedOrders

An order is the record of the fields that the rules look at. The account, API
key, nonce and expiry of the transaction are one field, `header`; bounds that
the Go type of a field enforces are not repeated. `Validate` follows the code's
`Validate`, `ValidateOCO`, `ValidateOTO`, `ValidateOTOCO` and the three
validators of a type; `ValidateOrder` is the separate validation of a single
order. `Construct` validates and signs, or returns the error.

### Transactions

A call is a record of the arguments of a signing function of the C library.
`ArgsOf` says which arguments each function has, `Narrowed` converts them as the
code does, `InRange` is the `Validate` of each
type, `Hash` the sequence of field elements that is hashed, `ReadBack` what the
returned JSON says. A signature is the sequence itself: that the hash function
has no collisions is assumed. The public key is five numbers that are not
reduced but must be elements; amounts of a transfer, a withdrawal and a margin are split into words; the
orders of a group are chained. `Float` and `Printed` are Go's decoding of a number
into an `interface{}` and its printing. How many numbers a type has (`Uint8`,
`Uint16`, `Uint32`, `Mantissa`) and the limits are constants, in the proportions
of the code; a `Uint64` is two words of 32 bits and the modulus of the field
2^64 - 2^32 + 1, so an amount may exceed what a float64 holds, and an element is
less than 64 bits. The id of
the chain, the first element of every hash, is left out, as are the memo's bytes
(a memo has the right length or not). Account, key, nonce and expiry, which come
from the client and its options, are fields of the call.
The checks of a transaction's own fields, which `GroupedOrders` has as one
Boolean (`header`), are computed from the call here. What `BoundBySignature` compares a
signature with is all that could be signed at all: every accepted call of any type, and every
accepted group under every accepted header (`SignedTransactions`).

The C library's own `SignUpdateMargin` panics on every call (finding in section 3), so
`Sign` of an `UpdateMargin` is what a Go caller of `GetUpdateMarginTransaction` gets,
with arguments of the widths the C function would pass it.

## 3. What is checked

All runs use two workers and finish within two minutes or so.

| Run | Bounds | Asks |
|---|---|---|
| `lifecycle` | 3 attempts, 3 connections, 1 buffered message | sockets, retries, refinement of `WsSupervisor` and of `WsSession`; pings end `Run` on a dead network, and it comes back on a live one; pingers end |
| `lifecycle_stop_hangs` | 2 attempts | violation: `Stop` returns |
| `subscriptions` | 2 attempts, 3 markets (with a client and a token, a token alone, neither), one handler, 1 buffered message, 1 step of time | refinement of `MarketFeed`, none left out, tokens in time, the feed comes back |
| `writer` | 2 writers of 2 messages, one of them of 2 frames, pinger, ping handler | refinement of `MessagePipe`, whole messages, every call returns |
| `writer_panics` | 2 writers of one message | violation: no concurrent write |
| `dispatch` | 2 messages out of 32 kinds, 3 clients, 4 sets of handlers | who is called, for which market, reading goes on |
| `sharedlib_one_thread` | 6 logins, 4 C ints, 3 nonces, one nonce step | refinement of `OneSigner`, selection, checks, every call returns |
| `sharedlib_threads` | 2 threads, 3 logins, 2 indices | whole signatures, current nonces |
| `sharedlib_margin` | 1 thread | violation: a transaction or an error |
| `tx_options` | 2 threads, 2 clients (one without HTTP), 2 accounts, 2 indices, one options value, 1 executed nonce | who signs for whom, with whose nonce |
| `tx_requests` | 1 client, 1 thread, 2 indices, 2 requests, 2 connections, 1 foreign nonce | executed once, answered |
| `transactions` | every type, each field around its bounds and at the ends of its type; 15,000 groups, each under five valid headers and one of the nil key; widths of 3, 4, 5 and 10 bits, 6 for a float's digits | the hash binds, the JSON verifies, the arguments are signed, the rules between orders |

Why the bounds are enough:

* Three connections are as many as can matter together: the current one, the
  one that `Stop` holds, and the next. Three attempts distinguish the first,
  a middle and the last; the boundary maxima (one, zero, negative) are covered
  by the proofs. One buffered message lets a stop meet a reader that does not
  block; that its number does not matter for safety is part of the proofs.
* In `subscriptions` three markets let a handler be interrupted between them, and
  have the three sources of tokens; one step of time is all that expires one. With
  `PauseOutlasts` the handlers of two greetings never coexist, so one handler
  identity suffices for what the properties see: a second could only pong.
* Two writers are the fewest that overlap; two messages each let one call meet
  the remains of another. The two controllers compete for the token.
* In `dispatch` every type, kind of error and shape of channel occurs, and pairs
  are all that the properties relate.
* `257` and `255` among the C ints reach the narrowing and the index above the
  largest; a login without a URL, one with a bad key and one with account zero
  reach each early return.
* In `tx_options` the two owners differ in account and index, so every mixture is
  visible; one options value is all that calls can share, and one executed
  nonce tells a current nonce from a stale one.
* In `tx_requests` two requests are a try and its repetition, two connections the
  one that was lost and the next. A second client is left to `tx_options`:
  `ExecutedOnce` speaks of one.
* `transactions` varies one field of a valid call at a time, over both sides of its
  bounds and the ends of its type, and the pairs that share a rule. Groups vary the
  fields that the rules of their kind relate, and one odd field in every position; the
  headers of a group differ in each of their four fields.
* The theorems of section 4 drop these bounds for every safety property and every
  refinement; for liveness they stay.

Fairness, and why the code justifies it:

* `WsKeepAlive`: weak fairness of the runner, of `Stop` once it was called, of a
  pinger's ticker and its wait for the context, and of TCP giving up a connection
  on which a ping stays without acknowledgement, which every TCP does after its
  retransmissions. A connection on which nothing is sent need never break. The
  user's calls and the network's changes are free; the liveness properties
  take `<>[]` of the network as a premise where they need it. `Silenced` names
  the sessions that lost their pinger to a ping which failed on a connection that
  survived: there the code gives no guarantee, and `DeadNetworkEndsRun` excludes
  the behaviours that stay in one.
* `WsSubscriptions`: weak fairness of the runner and each handler (goroutines that
  can run do run), of the break of a connection on a dead network (what
  `WsKeepAlive` derives from pings), and of the server's greeting of each
  connection that stays open.
* `ConnWriter`: socket writes return (the kernel's timeouts), and the waiters of
  the token channel are served in order, which is strong fairness for a writer
  beside pinger and ping handler that take it again and again.
* `WsDispatch`: only the read loop; handlers may block for ever.
* `TxRequests`: the exchange answers what reaches it, `Run` goes on from the dial to
  the read loop, the read loop reads, the goroutine of an answer runs. Callers need not go on.
* `SharedLib`: a call runs on; requests end by the HTTP client's timeout of 30 s.

Deadlock checking is off where the program really stops: `Run` and `Stop`
returned, all messages were handled, the last write returned, one transaction was
signed, requests and connections are used up. `SharedLib` and `TxOptions` have it on.

### Where the code does something else than it says

* `lifecycle_stop_hangs`: `Run` looks at the context only after `handleMessages`
  failed. When a stop meets `Run` while it dials, sleeps, or has a message
  buffered, `handleMessages` returns nil and `Run` reconnects, on and on; `Stop`
  waits for `done` for ever. On a dead network `Stop` does return
  (`DeadNetworkEndsRun`).
* `writer_panics`: two goroutines in `WriteMessage` (two users, or a user and a
  JSON ping's handler) reach the library's panic. `AcceptedWhole` shows that calls which do
  not overlap are safe.
* `sharedlib_margin`: `SignUpdateMargin` panics on every call and returns neither
  a transaction nor an error.

Met while modelling and not made a run of their own:

* After a stop `IsConnected` can stay true on a closed connection
  (`client/ws_tx_client.go:202`).
* "failed to connect after n attempts" (`:191`) counts one failed dial too many once
  a connection had succeeded; `GiveUpIsEarned` states the number.
* A ping that fails ends the pinger while its session may go on
  (`client/ws_orderbook_client.go:242`); a network that dies later is then not noticed.
* The order book and transaction clients call `handleError` for a nested error and
  decode the flat one (`client/ws_orderbook_client.go:377`): `onError` gets code 0 and
  no text. The account market client decodes both (`:475`).
* Market 65535 is valid for transactions and means "no market" to `extractMarketID`.
* An update can be handled before the snapshot that was read first, since every
  message has its own goroutine.
* `SignTransfer` and `SignChangePubKey` return numbers beyond 2^53 rounded
  (`sharedlib/sharedlib.go:635`), although a transfer may be of up to 2^60 - 1:
  `ReturnedVerifies` leaves these out.
* C arguments that a narrower field cannot hold are wrapped and signed
  (`sharedlib/sharedlib.go:268`); among them are the `longlong` prices of
  `SignModifyOrder`, while `SignCreateOrder` takes a C `int`.
* A pool's initial shares are refused only when they are not positive;
  `MinInitialTotalShares` (`types/txtypes/constants.go:106`) is used nowhere.
* Options that one client filled in and another uses after `SwitchAPIKey` name
  another key than their nonce was fetched for, and the same order can then be
  executed twice; `ExecutedOnce` holds for the same client.
* A token that is given with a subscription and without a client is sent at every
  reconnect, however old; `RenewedInTime` speaks of the others.

## 4. What is proved

TLAPS checks every proof down to its leaves, with no assumption but the named
`ASSUME`s on constants, which the runs evaluate.

**`WsLifecycle_proofs`**, from `ClientAssumption` and `DialAssumption`. The
invariant `IInv` joins the type invariant with `LoopInv`, `FlagFollowsSession`,
`NoSocketLeaks` and `StopInv`. `LoopInv` is needed because "gave up after n failures"
is about the past: it says that in the loop the counter equals the failed dials plus one
for the success before them (`attempt = fails + Spent`), which is inductive,
while `GiveUpIsEarned` is not. `StopInv` says that when `Stop` is about to close
and the runner is blocked in a read, `Stop` holds the connection that is read:
after the context is done the runner never gets from `select` to `read`.
Theorems: `TypeCorrect`, `GiveUpEarned`, `ExceededNoRetry`, `SessionFresh`,
`FlagRight`, `SocketsClosed`, `StopWakesReader`, and two refinements that map every
step to a step of the abstraction or a stutter: `RunSupervises` to `WsSupervisor`
and `SendersSeeSessions` to `WsSession`. The second holds `Dial` to a connection
that is not open, which `NoSocketLeaks` gives, also after a session that ended on an
open connection: `Run` closes it before the next dial. It holds the steps of
the flag to their session, for which it needs `FlagFollowsSession`.
`AliveIsLifecycle` says that a client with its pingers, which is what the run
checks, takes no other steps, so all of these theorems are about it too.
About the pingers themselves, `PingersInv` says that there is one exactly in a
session, that only the current connection has something unacknowledged, and that
only while the network is down, and that `Stop` returned after `Run`. From it
`OutageSilences` (a session is `Silenced` only by an outage) and `StopEndsAll`
(after `Stop` returned nothing begins again), the parts of `DeadNetworkEndsRun` and
`PingersEnd` that do not need fairness.

**`SharedLib_proofs`**, from `IntAssumption` and `NoneAssumption`. For any number
of threads, `IInv` joins the type invariant with `ThreadsOK`: what every thread
keeps between the steps of its call (its client is one that was created, the
fetched nonce lies between the exchange's nonce at the start of the call and
now), and the same for what it returned. `OthersKeep` reduces a step to the
thread that takes it. Theorems: `TypeCorrect`, `WholeSignatures`,
`CurrentNonces`. For a caller with one thread (`OneThread`, a premise of the
theorems), `CallerInv` adds what the library's globals are between calls:
`SelectionOK` (the selected client is the one last selected, and the map holds
the clients last made) and `CallerOK` (what the call under way took from them),
which gives `IndicesOwned`, `SelectedSigns`, `CheckedSigns`, and `LibraryIsOneSigner`,
which maps every step to a step of `OneSigner` or a stutter: creating a client and
switching take effect at their first step. With two threads these are false: `CreateClient` reads the global again to store it.

**`GroupedOrders_proofs`**, from `SubmissionAssumption` and `MaxAssumption`. The
invariant says that a signed group passed `Validate`; `ChildrenOf` gives the
children of each kind of group and the lemmas after it follow the rules.
Theorems: `TypeCorrect`, `ChildrenReduce`, `ExpireTogether`, `OtherSide`,
`ValidatorsAgree`. `ChildrenReduce` is the rule at the top of
`create_grouped_orders.go` ("Ensure that if primary order is reduce only, all
child orders are also reduce only"): for triggered orders no line checks it, it
follows from their nil amount and the range check that allows a nil amount only
with reduce-only.

**`WsSubscriptions_proofs`**, from the lifecycle's assumptions, `FeedAssumption`
and `TokenAssumption`. Every step of `FeedNext` is a step of `WsLifecycle` or
leaves it alone (`FeedIsLifecycle`), so the lifecycle's invariant and its two
refinements are taken over, not proved again. `GreetingInv` is the server's protocol: it greets once per
connection and first, and a greeting that was not read has no handler.
`OneHandlerInv` makes "never twice" inductive: while a greeting's handler runs,
no session has followed its own, and the markets ahead of it are new to the
server. It needs the premise `PauseOutlasts`, without which the theorem
`NeverTwice` is false. `CoverInv` makes "none left out" inductive: every market of
a session that stays good has been heard of or is ahead of a handler of that
session's greeting. `NoneLeftOut` needs no premise about the pause, since handlers
of earlier sessions can only add subscriptions; it needs tokens that
`GetAuthToken` does not refuse (`TokenLife <= MaxTokenLife`, six hours and seven).
`AlwaysInTime` needs tokens of at least the second by which a deadline is cut down.
`ServerSeesFeed`, the refinement of `MarketFeed`, needs the premises of both: its
core, `ArrivesInOrder`, is that a subscription which reaches the server is of the
first market not yet heard of, because `CoverInv` leaves no earlier one out and
`OneHandlerInv` lets no later one be there. A handler that passed its check before
the session ended may still write before `Run` closes the connection;
`LastWriteInv` says that this last subscription, too, comes in its turn.
`FeedTypeCorrect` contains that `c.conn` is not nil when a handler past the check
of `sendMessage` reads it a second time. About tokens alone: `DefaultIsAccepted`
(the C library's default deadline passes the limit it equals, for every reading of
the clock, because it is truncated and time only passes before the limit is
tested) and `ClientIsAccepted`, on which `CoverInv` rests.

**`ConnWriter_proofs`**, from `WriterAssumption`. `TypeIInv` adds to the types who
holds the token `c.mu` and that an error which a call remembers is the connection's
(`ErrorKept`), and gives `TokenExcludes`: at most one goroutine is at
the socket, even when calls overlap. `CalmInv` says what holds as long as no two
calls of `WriteMessage` did: the writer, the flag `isWriting` and the buffer are
those of the one call under way (`OwnsConn`), the wire has got exactly as far as the
call has filled buffers, or one frame less (`Progress`), and messages of calls to come are untouched. A ping
or pong in between touches none of these, only the token and the error. From it
`AcceptedMessagesSent`. `ConnIsPipe`, the refinement of `MessagePipe`, adds
`AnswerInv`: a call that returned has its answer. Then a message comes into hand only when those
before it have their answers, and is refused only by a connection that is broken.
`ErrorIsFinal` needs no invariant and holds also when calls overlap: no step sends
after an error.

**`WsDispatch_proofs`**. The invariant `CallsFollowPlan` says that every goroutine
has made the first calls that `processMessage` decides for its message, in their
order, each once, and no others, and that the rest is `pending`; as theorem
`GoroutinesFollowPlan` it holds for every interleaving. With it, `ErrorsNeverData`
and `UpdatesReachTheirBook` are facts about what `processMessage` decides. That
is why no order between the calls of different messages can be promised, and none
is.

**`TxRequests_proofs`**, for `TxOptions` and for `TxRequests`, from their
assumptions. `OptionsInv` has a part for an options value (`OptionInv`: each field
is as the caller gave it or a default of a client that used it, and the index a
reference to that client's field), one for a call (`CallInv`), one that says that
options which were never shared have one user at a time (`OneCall`), and one for
fetched nonces (`FetchInv`: between the exchange's at the call's start and now, of
the owner the call has). They give `SignsForTheRightOwner` and
`NonceIsOfItsOwner`. `ExecutedOnce` is about two requests and the past, so
`RequestsIInv` adds: `twins` were signed by one client with one nonce for one
owner (`RequestInv`), the nonce of what was executed is below the one its owner
needs next (`ExecutedInv`), and options that were not shared keep the nonce they
were signed with (`KeptNonce`). A twin of an executed request then has a nonce
that is used up, whatever was lost or late: `RetriesExecuteOnce`. `RequestsSignRight`
carries the results about options over to the requests, whose executions move the
nonces under the calls. `RequestsUseSessions` shows that the connection of this
module keeps to `WsSession` (`LinkInv`: none is open while `Run` looks for one), so
that what it leaves out of the lifecycle is what `SendersSeeSessions` allows it to.

**`Transactions_proofs`**, from `WidthAssumption`, `LimitAssumption`,
`CallAssumption`, `GroupAssumption` and those of `GroupedOrders`: the sizes of the
types and limits are any that stand in the relations that those of the code do.
The invariant says that a result is of a call or a group that passed its
validation, carries its hash, and that what is returned with it is the call as
JSON gives it back. The work is in the lemmas: every number that
validation admits is less than the modulus or is split into words that are
(`HeaderInField`, `ArgsInField`, `WordsBind`), so that reducing it loses nothing
(`ElementIsItself`); the header is of one length, so header and contents can be
told apart (`ConcatSplits`), and the type is an element of the header
(`ContentBinds`, `HashBinds`). A group's hash begins with the same header and its own
type (`GroupHeaderTyped`), so no call has it (`GroupIsNoCall`), and header, grouping and
orders follow from it (`GroupBinds`). `SignatureBinds` joins the three cases.
`AskedIsSigned` rests on `NumberAsAsked`: narrowing changes only what the narrower
type cannot hold. `ReturnedIsSigned` rests on `FloatIsExact`: decoding rounds to
an even number of `Mantissa` digits, and of a number up to `Mantissa` the least
exponent that fits is 0, or 1 for `Mantissa` itself, which is even, so nothing is
rounded off; `ReadBackExact` takes that to the hash. `GroupsKeepRules` carries the rules between orders over from
`GroupedOrders_proofs`.

Only model-checked: all liveness (`Reconnects`, `DeadNetworkEndsRun`,
`PingersEnd`, `FeedComesBack`, `WriteReturns`, `ReadsOn`, `EveryCallReturns`,
`AnswerComes`), since TLAPS has no rules for `ENABLED` here. What a number beyond
`Mantissa` becomes on its way through a float64 and back is not stated by any
property, so neither checked nor proved: there the code returns another number than it signed
(section 3).

Only proved: `SessionStartsFresh`, `ExceededMeansNoRetry`, `SilencedByOutage`,
`StopIsFinal`, `FlagFollowsSession`, `SubscribedOnce` and `NothingAfterError`. For
the last three the runs check a refinement that says more of behaviours it covers
(`ImplementsSession`, `ImplementsFeed`, `ImplementsPipe`).

## 5. What is not modelled

Cryptography and field arithmetic (vendored): a hash is its input, a signature
key and content. HTTP queries that only format and parse
(`client/http_requests.go` but for nonces, keys and failures), the types of
WebSocket messages, dialling options, logging, the texts of layer-1 messages,
`GenerateAPIKey`, which touches no state. A second `Run` of a client, which
panics at its end (`close` of a closed channel), and a `Stop` of one that never
ran, which waits for ever: nothing in the repository does either.
`WsSubscriptions` and `TxRequests` have no `Stop`: after it the flag is not what it says
(`FlagFollowsSession` holds until then), and nothing is promised about
subscriptions. `PROJECT.json` gives the reason for each part.

## 6. Plan

Done, in this order: lifecycle with its abstract specification and proofs; C
library with proofs; write path; subscriptions; dispatch; grouped orders with
proofs; options of the Go interface; account market subscriptions and tokens;
keep-alive; requests and their retries; all types of transactions; then the
proofs of the write path, dispatch, options and requests, subscriptions,
transactions and the refinement of `OneSigner`; then the refinements of `WsSession`,
`MarketFeed` and `MessagePipe`, and what JSON returns. No part with state of its own
is left to model, and every safety property and refinement that a run checks is
proved.

Not done: an abstract specification of what requests promise their users. It would
have the places of a request (sent, executed, answered, lost) and no more, which is
`TxRequests` without its nonces; what users rely on is `ExecutedOnce`.
