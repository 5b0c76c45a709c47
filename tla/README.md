# A verification development of Saathi

Saathi lets an agent shop and pay for a person under signed mandates. Two Node
processes carry its logic: `apps/gateway-svc`, over one SQLite file, verifies signed
carts, parks, executes and watches payments on Razorpay, keeps the person's memory
and writes every step to an append-only ledger; `apps/agent-host` holds the
conversations, drives shops' own pages in sandboxed browsers and shows its work to
the UIs, beat by beat. The modules here are translated from that code. This file says
what each stands for, what TLC checks, what TLAPS proves, and what is left out.

## 1. Inventory

| Part | State it keeps | Operations | Module |
|---|---|---|---|
| gateway: verify-cart (`packages/gateway/src/verify-cart-*`, `verdict-*`, `sql/`) | `nonces`, `stock_reservations`, `envelope_reservations`, `transactions`, `mandates` | `POST /v1/verify-cart`, over two awaits | `VerifyCart` |
| gateway: the checks, price floors, the quote (`checks/`, `price-floor-service`, `packages/agents` merchant turn) | `price_floors`, negotiation memory | set, clear, ask, quote, evaluate, commit | `Checks` |
| gateway: settlement (`cooloff-*`, `execute-payment-*`, `payment-*`) | `transactions.state`, `rzp_order_id`, the `payment_execute` burn, reservations; in memory: timers, watches | mature, cancel, restore, execute, webhook, poll, boot | `Settlement` |
| ledger and its stream (`packages/ledger`, the SSE hub, audit-ui's transport) | `events`; open `run()`s, buffered frames; subscribers' cursors | run, append, publish, backfill, poll | `Ledger` |
| memory (`packages/memory`, `covenant-commit`) | rows, tiers, validity intervals; the events that rebuild them | gated write over three awaits, dedupe, supersede, sign bounds | `Memory` |
| agent-host: conversations (`http/chat-*`, `purchase/*-gate`) | lanes, the line, per-lane engine, gates | say, pick, carry on, sign, cancel, shut down | `ChatLanes` |
| agent-host and browser-drive: sandboxes (`browser/`, `container/`) | roster, line of requests, containers, warm pool | start, open, close, reap, sweep, drain | `Sandboxes` |
| agent-host and browser-drive: the checkout errand (`purchase/web-*`, `drive/`, `handoff/`) | who drives, the pause, the parked checkout, suspended tool calls | pick, tools, raise, take, hand back, expire, resume | `Wheel` |
| agent-host and audit-ui: beats (`http/beat-*`, `audit-ui/conversation/`) | hub, epoch counter, beat log; the page's session and rung | emit, file, restore, probe, stream, poll, reconcile | `Beats` |
| audit-ui and agent-host: the bill (`ChatSession`, `BillCard`, `usePaymentState`, `purchase/` gates) | the page's snapshot, hand and bill; the poll; the engine's queue, standing proposal and cart gate | say, tap, confirm, open, hold, sign, settle, poll, reload | `Bill` |
| razorpay, domain | none of their own | orders, links, retries; transition table, tiers, arithmetic | inside the above |
| mandates, recs, read side, folds, vault, other screens, LLM prompts | keys, projections, secrets | | not modelled (section 5) |

How they meet. A conversation (`ChatLanes`) runs a turn; a turn may open a window
(`Sandboxes`), shop there (`Wheel`), ask a merchant for a quote (`Checks`) and present a
cart to the gateway (`VerifyCart`), whose verdict starts a hold or an execution
(`Settlement`). The gateway writes what happened to the ledger (`Ledger`) and the host
tells it as beats (`Beats`), from which a page makes the bill the person holds and
pays (`Bill`). What the person signs becomes memory (`Memory`), and the
checks read that.

What is hard. (a) What a request reads before an `await` may be stale after it. (b) A
timer, a cancel, an undo and a client race for one row. (c) The rail's order is an
effect no rollback undoes. (d) Reports come late, twice and out of order. (e) Either
process dies anywhere, with its timers, lanes and suspended calls. (f) Nothing
cancels what a deadline abandoned. (g) A person may never come back, and what waits
for one must not hold up the others. (h) What a screen shows is older than what a
gesture on it reaches. (i) Caps and lines hand out slots across awaits.

What makes each part correct.

- *verify-cart*: a cart buys once, a key names one outcome, four rows stand together,
  caps hold under concurrency, the state opened is the one signed.
- *checks*: nothing sells outside the merchant's band, a hold lasts as long as the
  signed covenant says and never ends in forbidden hours, a refusal has its reason.
- *settlement*: one execution per mandate, nothing sent for a cancelled purchase,
  outcomes recorded once and for a reason, an armed hold resolves.
- *the gateway*: money taken out of capacity that is held stays within the signed cap;
  the rail hears only of verified purchases whose hold was served.
- *ledger and stream*: a reader sees the log in order, no event twice, and in time all
  that was within its reach when it joined.
- *memory*: the table is what its events rebuild, a fact goes only for a newer one, a
  bound only for one at least as trusted, and never for want of looking.
- *conversations*: what waits for a person can be answered, what was deleted does not
  pay, closing waits for every run, the line waits for people only.
- *sandboxes*: the cap holds, no slot lies idle beside a line, shutdown ends clean.
- *the errand*: a pause can be given back, no tool acts on a page it was not cleared
  for, a password goes once into a form, a turn ends.
- *beats*: a transcript is the run's beats in order, none lost or twice, and in time all.
- *the bill*: one hold buys one cart, the panel speaks of the transaction it shows, a
  paid bill comes to say so.

PROJECT.json lists every component with its status, and every hazard at its line.

## 2. Modules

| Module | Stands for |
|---|---|
| `CartSpending` | abstract: a presentation spends a cart in one atomic step, or ends with nothing spent |
| `VerifyCart` | `VerifyCartService` with pipeline, committer and rejector |
| `Settlement` | cool-off, execute-payment, outcomes, the rail, crash and boot |
| `Gateway` | `VerifyCart` and `Settlement` on one database, clock and process |
| `Checks` | the checks that read the clock and the price band, with floors and quotes |
| `EventFeed` | abstract: a growing log, readers that see it in order and miss only what lay beyond a window when they joined |
| `Ledger` | `LedgerTransaction`, `SqliteEventWriter`, `LedgerStreamHub`, the UI's transport |
| `Memory` | write gate, committer, projection, covenant signing |
| `ChatLanes` | `ChatLanes`, `ChatService`, `ConfirmationGate`, the runs between them |
| `Sandboxes` | `BrowserRegistry`, `BrowserService`, `WarmPool`, `ContainerLauncher` |
| `Wheel` | session state, handoffs, guarded page, sign-in form, web errand, park and resume |
| `Beats` | `BeatHub`, `BeatLog`, epochs, the routes and the page's ladder and fold |
| `Bill` | `ChatSession`, `BillCard`, `HoldToBuy`, `usePaymentState`, and the engine and cart gate behind them |
| `*_proofs` | theorems about the module of that name (`Gateway_proofs`: also about `Settlement`, which `Gateway` extends; `Windows_proofs`: about `Sandboxes` and `Wheel`; `Logs_proofs`: about `Memory`; `Conversation_proofs`: about `ChatLanes` and `Bill`) |
| `Basics` | lemmas about numbers, lists and sums that several proofs cite |
| `MC*` | instances for TLC |

An action is one synchronous segment of the event loop: JavaScript runs from one
await to the next without interruption, and a `ledger.run(...)` contains no await,
so a write transaction is one step (in `Ledger`, which is about the inside of
`run`, it is several). Operators in a block marked `Mutant` are the bugs each property
is tried against; no specification uses them.

**VerifyCart.** `StageZero` is the chain check that fails. `Present` is the segment
after `verifyChain` up to the risk facts: replay, conflict, or on. `Evaluate` runs
the pipeline; a reject is answered at once, anything else goes to signing. `Commit`
is the write transaction: the pipeline once more, the comparison of seals with
the signed ones, the four rows, and the constraint that may abort the savepoint
(`Refusal`). The nonce and the envelope check are written out, because they read
rows other requests write; the remaining checks are the variable `standing`, which
`Drift` changes at any time (`Checks` says how some of them do change). An open
reservation counts until the cart's exp plus a grace.

**Checks.** A conversation reads the shelf (`ReadShelf`), asks at most once (`Ask`), is
quoted (`Quote`, between the floor it saw and list), and presents the cart
(`Present`, `Evaluate`, `Commit`). Meanwhile the merchant sets or clears the floor
(`SetFloor`) and the clock moves (`Tick`). `CooloffSeal`, `BoundsSeal`, `QuoteSeal` and
`RiskSeal` are the checks; `BlackoutEnd` is the arithmetic of hours that may wrap over
midnight, at an offset from UTC; `ExecutesAt` is the instant read back off the
headline. The cart's own quote expiry is taken to be the attested one, since checkout
builds the cart from the claims; the code compares the cart's field
(`checks/quote-match-check.ts:92`). One intent expiry stands for the three the code
takes the least of.

**Settlement.** `Mature`, `Cancel`, `Restore` are the guarded UPDATEs with what their
transactions do besides. A call goes verifying -> ordering -> ordered -> linking ->
done: `Burn` (first transaction), `RailCreates` (Razorpay), `OrderPlaced` (second
transaction), `LinkOutcome` (third); `CallFails` is every exception on the way, and
`Throw` says what an exception does: a 500 to a client, the end of the process when
the call is a timer's, because `CooloffScheduler.arm` voids the promise and nothing
handles the rejection. `Webhook` and `PollHears` end in the same `Apply`. `Die` is
what any death forgets; `Boot` rebuilds the timers of pending holds. A timer rings when its
hold is due, or at once if the hold is longer than `MaxDelay`, what `setTimeout` can wait
(`Rings`).

**Gateway.** A step of either module with the other's variables unchanged, plus what
ties them: the mandate's exp is fixed when signing starts (`Sign`), `cooloff_until`
when the row opens (`Park`), and a death also kills suspended verifications
(`Forget`). `HoldEnds` is the instant `holdUntilOf` reads off the headline: until now when
a risk review holds (it comes first, and asks for no time), else the later of the rule's
wait and the end of the forbidden hours, clamped to the intent's exp. `lapsed` remembers
which reservations stopped counting while they were open (`Lapse`).

**Ledger.** `marks` is the stack of open `run()`s with, for each, how long the table and
the buffer were; `Fail` returns both to the mark, `Finish` of the outermost
publishes. `Crash` may strike inside a transaction. The client carries the last id
its reducer folded, reconnects with it, and polls on the side; frames on a wire may
be lost with the connection. A connection more than `BackfillLimit` rows behind is sent
the first of them and then live frames; `skipped` remembers what lies between (`OutOfReach`).

**Memory.** A request goes from `Submit` over `Prepare` (the rows it is judged against,
read with the single-writer marker), `JudgeAnswers` (the model's verdict, or the
fallback) to `Commit`, an await between each. `Dedupe` and `Store` are the committer's
two ends; `Superseded` is what its guarded UPDATE really touches, `SupersededAsPrepared`
the mutant that trusts the read. Signing a covenant is a request of several bounds,
written one after the other, with its intent event last. `Replay` folds the events.
Rules that read wording may refuse any candidate.

**ChatLanes.** All state the host's synchronous code changes is one record, `Host`
(lanes held, line, engines, gates), and an action is a function of it, because a settled
run wakes the turn behind it and the head of the line in the same segment. A run is
planned, issued, perhaps goes shopping, waits at the intent gate or the cart gate, pays.
`Admit` is a request; `CarryOn` the checkout resumed after a hand-back; `Cancel` the
deletion of a conversation. Requests name their conversation, and a shopper signs only
what is shown. `Calm(c)` marks the conversations none of whose turns was ever queued
behind another: elsewhere an engine may call itself idle while a turn runs (see
Divergences), and four properties are stated of calm ones.

**Sandboxes.** A task is a call suspended at an await (a cold start, a close, a reap, a
sweep, a drain). `Start`, `Claim` and `Promote` are the registry's line; `Begins` and
`Closed` the two halves of a close; `PoolServes`, `PoolLaunched`, `DropStale`, `Spoils` the
pool. The veto of a shopper at the wheel is a choice; the lanes' own windows are
outside the registry and left out. A client's stream is a connection (`Connect`) that only
the client ends (`HangUp`); told to stop, the host refuses new ones (`StopAccepting`) and
goes on when all are gone (`AllGone`), still serving those that stand.

**Wheel.** A tapped card (`Pick`) becomes a covenant and stands at the hold-to-sign until the
person signs, the gateway refuses or the conversation is deleted; only then a shop is
opened. A talk is one conversation with the model, a call one of its tool calls. Every
call is looked at (`Cleared`), awaits, and touches (`Touch`). `ErrandExpires` ends the
errand without ending the talk, whose calls land afterwards (`Stray`). `Raise` is every
reason for a pause, of which payment and pause are told apart; `HandBack` resumes what
parked. The sign-in form (`SeesPassword`, `SendPassword`) looks again after each send, up
to twelve passes in the code and `MaxSends` here. Closing a window ends its calls.

**Beats.** A beat is its address, an epoch and an index. `Restart`, `Emit` and `Settle` are a
run in the hub; each beat is filed if the lane's recorder was opened, which a sentence
does and a tap does not (`filing`); `HostDies` forgets hub and subscribers, and the next epoch
is seeded from the log. The page restores from history, probes the state, connects
(`Connect`), falls a rung when one dies (`Fall`) and comes round by timers (`ComesRound`);
`Receive` is every handler. The page watches one conversation by its scoped wire;
probes asked while one is out are merged. `Astray` notes the three things the page cannot
tell (`Causes`). Faults (lost connection, failed answer,
reload, crash) share one budget.

**Bill.** `page` is what React keeps: the snapshot folded from beats (`Fold`), the hand,
whether the bill is open, the mounted `BillCard` with its pen and its poll. `Render` is
one render with its effects, in their order: the host supersedes the hand, a
transaction means signed, a card that mounts starts over, the poll restarts if its
question changed. `tasks` is the engine's queue: a sentence or a tap is queued, works,
assembles a cart, waits at the gate, settles (`Announces`, `TakeHold`, `Settles`). A
hold that comes early stays in the gate (`gate.by`). `receipts` is a history variable:
which hold, over what card and total, released which cart. A sweep whose button has
gone still completes (`held`), and its answer is for no card (`busy`). Beats arrive in
order and once (`Beats` is about when they do); the intent's own hold belongs to
`ChatLanes`. A work waits for the one `running` names and for no other, so works overlap
where the lanes' turns do.

## 3. Runs

| Run | Shows | Bounds, and why they are enough |
|---|---|---|
| `verify` | caps, seals, replays, `CartSpending` implemented | 2 requests, 3 carts, 2 units, 2 keys, 2 bodies, 3 standings, clock to 3. Every hazard here is between two presentations; c1 and c2 share a unit, c1 and c3 overdraw the cap, c1's reservation lapses while c3 is presentable. The theorems lift the number |
| `checks` | the price band, the hold's length and end, refusals for a reason | 1 cart of one unit, list price 3, caps 2 and 3, floor commands from none to 4 (0 and 4 are refused), a day of 4 ticks at offset 1, hours none, 1-3 and 3-1 (over midnight), rule holds of 0, 2, 5 or none, intents that expire at 3 or 9, a risk threshold, reviews both ways, 2 floor commands, clock to 6: floor, ask, quote and commit fall in every order, and expiry falls before, at and after each hold |
| `settle` | one execution, holds, outcomes, an armed hold resolves, who is shown a stored body | 1 transaction, 2 clients with 2 bodies on 1 key and the timer, 2 attempts, 1 free crash, holds due at 1 or 2, mandates that expire at 2, undo for 2 ticks: expiry falls at and after maturity |
| `gateway` | money against cap, order against verdict, hold before order | 2 requests of 2 tenants on 2 carts over one cap, 1 key, 1 client, 2 attempts per order, undo within 1 tick, a reservation that lapses at 1, a rule's hold of 1 tick for one cart and none for the other, hours and intents that end at 1 and 2, timers that wait 1 tick at most, no crash (see below) |
| `ledger` | readers see a prefix and then everything, `EventFeed` implemented | 2 events (a reused seq carries another), 4 rows, 2 nested runs, 2 faults, pages and backfills of 2, so that a reconnect may be two rows short |
| `memory` | events rebuild the table, nothing is lost, bounds are screened, a top tier does not fall | 3 requests (one may sign two bounds), values 0 and 1, clock to 2, 1 crash's worth of forgetting at any time. Two writers race over one key while a third arrives against either |
| `lanes` | waits, closing, signatures, deletion, the line | 2 conversations, 3 turns, 1 run at a time, 1 lane kept, every kind of request: a turn runs, one is queued behind it or in line, a third arrives as either is deleted, signed or pruned |
| `sandboxes` | the cap, no idle slot, shutdown ends | cap 1, line of 2, 1 warm container, 3 windows, 2 overlapping calls, 2 containers alive, 1 connection |
| `wheel` | who drives, what lands, the password, the park, turns end | 1 window after another, 4 talks, 2 calls at a time, 2 failed opens, 2 sends: an abandoned talk's call meets a takeover, a hand-back and the talk after it |
| `beats` | the transcript, the epochs, every beat shown | 1 conversation, 2 runs of 2 beats, 2 messages on the wire, 1 fault, all three rungs: the fault is a crash after a tap, a message that passes another, a lost connection, a retired lane or a reload. Beside the run, with one conversation and 2 faults (9.6 million states) and with two conversations that share the epoch counter (1.3 million) the transcript was faithful too |
| `bill` | one hold one cart, whose payment is shown, a paid bill says so | 2 cards, 2 sentences or taps, 2 holds, 1 failed request, 1 reload: a second cart behind the gate of the first, a hold before, at and after each, a poll of the first transaction answered after the second. Two works overlap only beside a third; with 3 tasks, 1 hold and a reload (22 million states, beside the run) `OneHoldOneCart` stood, and the theorem has no bound |
| `bill_signed` | violated: a card tapped over a standing cart is shown while the first is signed | 2 cards, 2 tasks, 1 hold, no fault |

What `gateway` reaches: an order paid after a failed attempt beside another that is paid, a
purchase paid after its cancel was undone, one paid after its reservation lapsed (in each the
total charged passes the cap, by charges to capacity given back, which is what
`ChargedWithinCap` allows and no more), an order before the end of a hold no timer can wait
for. A crash is left to `settle`, and a reviewed cart to the theorem: due when it is parked,
it has no hold to serve. The run's `VIEW` leaves out what no step and no property of it
reads again: the request that was rejected, what the checks think of a cart nobody presents
any more, an answer already given and the body stored for its replays (one key, one body,
each tenant presenting once).

Four properties of `lanes` are stated of calm conversations only, and `TranscriptIsFaithful`
of pages not led astray; each exception is a divergence listed below.

Deadlock is not checked: every one of these systems may come to rest, with every
request answered or the bounds used up. Runs that check liveness use no symmetry; the
others use that of interchangeable requests, keys and bodies.

### Fairness

- `Settlement!Fairness`: an awaited call returns or fails and is resumed, a due timer
  fires, a dead process is restarted (`restart: unless-stopped` in
  `docker-compose.yml`), the rail answers a poll, time passes. Nobody has to cancel,
  pay, look at a payment or deliver a webhook.
- `Ledger!FairSpec`: a `run()` ends, whatever it nests, because it is synchronous; the
  event loop does not pass over a reconnecting client for ever (strong fairness, since
  a reconnect is only served between runs); a socket delivers until it drops.
- `ChatLanes`: work that waits for nobody (a model call, an errand, a gateway call)
  ends; nobody has to sign, and nobody has to close the host.
- `Sandboxes`: Docker answers or its calls time out, so each suspended call is resumed;
  nobody has to claim or close a window, and nobody has to hang up.
- `Wheel`: an opening window opens or fails, the deadline rings, the afterword ends;
  each has a timer of its own. Tools may hang, shoppers stay away, and nobody has to sign: a
  turn at the hold-to-sign is not owed an end.
- `Beats`: the host answers, the page handles what it gets, a dead socket is noticed by
  its pings; the poll and the heartbeat ring. The death of a server-sent stream need
  not be noticed, and runs need not go on.
- `Bill`: the poll's requests return or fail, its timer rings; nobody has to tap, hold,
  pay or settle, and a beat need not arrive.

### Divergences

`PROJECT.json` `findings` describes the one that a run shows: the tap of `bill_signed`.
Others met while modelling are left here for the reader; each was seen as a
counterexample or is plain from the lines named.

*verify-cart and checks*
- `reservation-writer.ts:61`: a mixed cart is reserved against its dominant category
  only, so carts that each fit a lesser category overdraw it together.
- `verify-cart-service.ts:141`: when the seals changed during signing, the answer
  repeats the fresh approve or hold although no row was written.
- `verify-cart-rejection.ts:12`: `holdUntilOf` reads `executes_at` off the headline; when
  a risk review also holds the cart that is the review's zero-second marker, so the
  purchase is parked until now and the cool-off it owes is not served
  (`Gateway!HoldEnds` does the same).
- `blackout-window.ts`: hours with `from` equal to `to` (the UI accepts them) cover the
  whole day to `isInside`, and a hold they order matures at `to`, inside them, although
  `checks/cooloff-check.ts` says releasing early "would spend inside hours the user
  forbade"; and a hold ordered
  outside a blackout may mature inside a later one (`checks/cooloff-check.ts:21`).
- `sql/price-floors.ts:33`: the upsert overwrites another merchant's floor on the same
  SKU. `blackout-window.ts:18` says itself that daylight saving shifts a window.

*settlement*
- `verify-cart-committer.ts:110`: parking arms no timer; only `rebuild()` at boot and
  `restore()` do, so a hold parked by a running process waits for a restart.
- `wiring/service-wiring.ts:36`: the payment mandate lives 900 s and a hold a day, so
  the execution of a matured hold is refused as expired.
- `cooloff-scheduler.ts:54`: a death between the maturing UPDATE and the burn leaves an
  approved transaction `rebuild()` does not see. `adapters/system-ports.ts:25`: a delay
  above 2^31-1 ms fires at once (`Settlement!Rings`), and the purchase is executed before its
  hold is over.
- `execute-payment-service.ts:111`: if the rail's answer is lost, the order exists and
  nothing records it. `:78`: a duplicate that arrives meanwhile is shown the placeholder.
- `payment-outcome-service.ts:67`: failed, then captured on one order leaves the
  transaction failed and the payment view paid; a capture heard before `link_issued`
  is booked once and never closes the transaction.
- Over the cap (in the run, and all that gets over it): `payment-outcome-service.ts:92` (a failed attempt frees the capacity of
  an order that is paid next), `cooloff-transitions.ts:77` (an undo does not take the
  capacity again), `sql/spend-window.ts:50` (a reservation lapses while payable).

*ledger stream*
- `http/sse/ledger-stream-hub.ts:116`: a client more than 500 events behind is sent the
  first 500 and attached to live; the rest are never sent. `skipped` is exactly them.

*memory*
- `write-gate.ts:80`: the ceilings a write is screened against are read before the
  embedder is awaited, so of two overlapping signings the later may supersede a lower
  ceiling with a higher one. `write-committer.ts:56` reports a stale status.
- `covenant-commit.ts`: dedupe ignores type and tier, so a signed bound may become no
  constraint; re-signed wider bounds are dropped without a word; a crash midway leaves
  constraints without an intent event.

*conversations*
- `chat-service.ts:80`: a turn that settles clears `running` though a queued follower
  holds it, so the next message overlaps the follower.
- `confirmation-gate.ts:57`: the intent gate keeps a hold nobody waited for, so the
  next intent of the lane goes out without one.
- `chat-service.ts:113`: a carried-on checkout ends without moving the line;
  `chat-lanes.ts`: a cancel removes only the first queued entry and does not drain;
  `chat-cancel.ts:8`: a deleted chat's run may reach a gate nobody can sign;
  `planned-turn.ts:33`: naming a platform card in words never rebuilds a cart.

*sandboxes*
- `browser-registry.ts:137`: a start between a close and its promotion takes the slot of
  the front of the line. `:147`: a delete during a launch leaves a live window
  `closeAll` does not know. `container-launcher.ts:162`: overlapping opens of one window
  leave a stray container. A ticket nobody claims holds its slot.
- `shutdown.ts:39`: `server.close` calls back when the last connection ends, the streams are
  closed only after it (`:41`), a frame stream ends only by its client
  (`frame-stream.ts:135`), and nothing forces an exit: one open tab keeps a stopping host up
  for ever, though `shutdown.ts` has a deadline for a run that does not settle.
- A reap is not awaited at shutdown, and its `onReaped` may delete a window just opened
  again; `browser-wiring.ts:58`: the boot sweep races the pool's priming.

*the errand*
- `chat-service.ts:114`: a wheel handed back while the errand that asked for it is still
  ending carries nothing on; the checkout then parks for a hand-back that has already
  been, although `chat-pick.ts:29` says "the parked checkout resumes by itself".
- `intent-flow.ts:106`: a tapped card waits for its covenant's signature with no clock, and the
  conversation's later sentences queue behind it.
- `web-progress.ts:34`, `web-pick-close.ts:79`: automatic handoffs and takeovers record no
  handover, so the errand closes unparked while the window is the shopper's.
- `readiness.ts:45`, `session-state.ts:100`: an op past its gate still touches the page
  after a takeover; sign-in looks once for up to twelve passes.
- `web-pick-park.ts:16`: a checkout parked on an address or code is reaped after two idle
  minutes. An abandoned talk's handover is written into a later errand's progress, and a
  second `web_sign_in` starts its count over.

*beats*
- `agentStream.ts:71`: on a reprobe `session.seen = state.beats.length` passes over beats
  lost with the connection.
- `beat-store.ts:82`: a lane's recorder is opened by a sentence only (`chat-service.ts:101`),
  so after a restart or a retirement the beats of a tap are not filed; a crash then seeds the
  counter below their epoch, hands it out again, and a page that kept its cursor shows beats
  twice or out of order.
- `beatPoll.ts:55`, `beatReconcile.ts:38`: an answer that is overtaken by a newer one, or by a
  frame, rebases the page back and shows beats twice; an overtaken probe sets `seen` back.
- `beatEvents.ts:29`: a server-sent beat does not name its run, so one of another run than the
  session's is taken for the session's. A server-sent stream that dies before it opened has
  neither heartbeat nor ping, and its page may stay behind (excepted in `EveryBeatIsShown`).
- `beatPoll.ts:2`: polling misses the closing beats of a run if another begins between
  polls. A deleted conversation's late beats are still filed.

*the bill*
- `ChatSession.tsx:248`: the tap of `bill_signed`. After the hold its queued rebuild
  stands a cart no pen on the page can reach, since `signed` is latched: the
  conversation waits until a reload. A sentence typed while a cart stands retires the
  cards and with them the pen (`entrySignals.ts:132`), and queues behind the gate.
- `usePaymentState.ts:51`: the state is kept when the transaction changes, so a second
  bill shows the first one's "paid" until its own first answer (`:35` calls a "paid"
  that outlives its evidence the one failure to prevent). The poll ends on "failed",
  so a later payment of that order is not shown unless the panel is nudged.
- `liveTransport.ts:126`: a hold no gate waits for is answered ok and the page says
  Signed. A hold before the cart is announced signs a cart not yet seen, and one whose
  answer is lost says "Nothing was signed" although something was.
- `fieldSignals.ts:53`: "signed" is no beat, so a reloaded page awaits a cart's signature
  for ever.

## 4. Proofs

All with TLAPS, for every value of the constants that satisfies the modules' named
assumptions (`None` is no request, tables of static data have their types).

`VerifyCart_proofs`. The safety properties are not inductive: that a cart has one
transaction says nothing of a request that is about to commit. `IInv` adds
`PhaseLinks` (what a request in each phase owns: a suspended one has a command and
no row and no answer, a committed one is done and answered yes) and `RowLinks`
(each row points back at the one presentation that wrote all four). One lemma per
action shows it kept, over two common lemmas, `AnswerKeeps` and `SuspendKeeps`. From
`Bookkeeping` (`Spec => []IInv`) follow `TypeCorrect`, `RowsStandTogether`,
`CartSpentOnce` and `KeyNamesOneOutcome`. `CommitsAsSigned` and `ReplaysVerbatim` are
invariants relative to it, over `HistoryStands`: what is committed does not change.
`ImplementsRegister` maps every segment to one step of `CartSpending` or to none.

`Ledger_proofs`. Three layers. `WInv` is the writer's: each open run's mark lies
between its caller's and the end of the table, frames and rows are the same distance
past the committed base, the buffer is the rows past it. It gives `BufferStands`. `Sent`
(a frame anybody holds is a committed row) is inductive on top of it: the one step that
makes frames out of rows is the outermost `Finish`, where the buffer is what is being
committed; `FramesStand` follows, and with it `LogGrows`: no step loses a committed
row. `Linked` says of each client that what it folded rises and lacks, up to its
cursor, only what was skipped; that its page and its wire go on from there and leave out
nothing else; and that a connected wire ends at the committed base, but for what was skipped.
Nothing is assumed of `BackfillLimit` or of the ledger's length. `StreamIsWhole`,
`StreamIsUpToDate` and `ImplementsFeed` follow.

`Logs_proofs`, the memory. `NothingIsLost` needs to know what a request suspended between two
awaits may still rely on: rows are only added and expired, so what it read is still
there, and its marker names how many rows it saw. `IInv` says so (`TypeOK`, the
requests, the shape of the rows), that an agreed write agrees with every constraint
it saw that is still live, and that a row that was superseded names a later one of
no lower rank. One lemma per action keeps it, over lemmas about what `Store` returns.
`TopTierStands` is an action property from the same invariant: a row that leaves the
live set leaves one of no lower tier behind.

`VerifyCart_proofs` goes on to `CapHolds` (`CapNeverOverdrawn`): `CapInv` writes what a category
has reserved as one sum over the requests that opened a reservation (`DrawnIsSum`); a step opens
one of them after reading that sum, or opens none while the clock lets some lapse
(`StepKinds`). The hypothesis `OneCategoryEach`, that a cart draws on one category, is what
makes the sum the one the check read; a mixed cart is charged to its dominant category
only (Divergences).

`Basics` holds what these proofs share, above all about `MapThenSumSet`. The library's own
induction theorems take an operator and cannot be used, but induction over a set of numbers can
(`Induction`, from the well-foundedness of <); with it the recursion under the fold has
exactly one solution, a sum loses and gains an element, and grows with its set.

`Gateway_proofs`, the settling half. The properties lean on each other: capacity is
captured only for an outcome, an outcome is recorded only for an attempt, an attempt exists
only for an order, an order only after a burn, and a burn only in a state no cancel leaves
from. `Burns` and `Watches` are that chain, `Calls` says what an execution suspended at an
await may count on, and `IInv` is them with the five properties. The theorems hold for
whatever holds and mandates the rows start with (`dues`, `exps`), any number of
transactions, clients, keys, attempts and crashes.

`Gateway_proofs`, the composed process. `Gateway` extends `Settlement`, so its settling steps
are steps of `Settlement` and `IInv` need only survive verification (`VerifyKeeps`), which
writes rows nobody has paid for yet.
`GInv` adds what a row carries from its verdict to the rail: `Attested` (seals, answer,
nonce and stock claim agree) and `HoldKept` (the end of its hold, which nothing moves, is
served in any state a burn may stand on). `OrdersAreVerified`, `HoldsAreServed` and
`SettlementInGateway` follow.

The other half is `VerificationInGateway`: `Records` (a burn and a claim name the row that was
opened for them, a key names one row, a request that is not done has answered nothing) is
kept by verification as in `VerifyCart_proofs`, and by settlement because it moves rows and never
makes or unmakes one. `GatewayImplementsRegister` maps the process to `CartSpending`: a
segment of a verification is one step of the register or none, settlement is none, and a
crash declines every presentation that was suspended, in one step. TLC checked the invariants
and the refinement on the instance of `gateway` before they were proved.

Money against the cap, in the same module. `CapInGateway` says that the cap stands when
settlement runs beside verification. A row is opened by a write transaction that found the
draw to fit; every other step settles, releases or lets lapse (`StepKinds`), which only
lowers the sum. There is one exception, hence the hypothesis `CapturedInTime`: an outcome
recorded for a reservation that lapsed makes it count again. `ChargesWithinCap` goes from
what is reserved to what is charged, and needs `OneCategoryEach` only. `KeptInv` speaks of the
rows that hold their capacity: opened, not released, not lapsed while open. Their draw fits the
cap, because a row joins them only by a commit that found its draw to fit beside at least
them, and every other step takes rows out of them and puts none back, whatever is retried,
undone or lapses; who was charged and is among them is counted. The mature of a hold is read
the same way: `HoldKept` follows the end a hold was given (`HoldEnds`) to the burn, past a
timer that rings when it is due or, for a hold longer than `MaxDelay`, at once.

`Logs_proofs` also proves `ReplayStands` (`ReplayEqualsLive`). The fold over the events is
shown to be what one more event makes of the fold before it (`FoldLeft`, by the same
induction over numbers); then a commit's one or two events do to the replayed table what
the commit did to the live one.

`Windows_proofs`, the wheel. `IInv` gives every suspended tool call a budget (`Good`): touches left plus
strays stay within what the gate cleared, and a form is aimed at only if it is not the one
just sent, with a send to spare. `Parked` is `ParkIsHonest` without its word about turns, which
every step keeps that does not write the record. `PasswordOnce` assumes `MaxSends <= 2`,
which is the source's bound (`MAX_PASSWORD_SENDS`): the reading recognises only the
last form sent, so with a third send an old form could return.

`Windows_proofs`, the registry. `SlotsInv` says that a window under deletion has left the registry and
its number is never given again, which is why a promotion counts right; `OpensWithinCap`
and `NoSlotIdles` follow.

`Conversation_proofs`, the bill. Works may overlap, so nothing can be said of one work at a
time. `BillInv` says which holds the gate keeps and has let go (`GateKept`), that the pen's hold
under way has released nothing (`PenHeld`), that a work settles on a receipt (`Filed`), and of
the hold the gate keeps that every work which may still take it was under way beside each
work it has released (`Beside`): a turn that begins resets the gate, so no later work finds
the hold there. `Apart` is that, kept in the receipts. `HoldsBuyOneCart` and `PanelIsCurrent`, an action
property, have no hypothesis.

`Checks_proofs`. First the calendar: minutes of the day under an offset, and that the window
the code computes is exactly the stretch of forbidden minutes (`BlackoutIsForbidden`), so
that `HoldUntil` clamped by the expiry is the least instant owed (`HoldIsOwed`). Then
`ChecksInv`: the price row is the last floor event (`RowIsDeclared`), each verdict row was
within the band in force before it (`Sold`), and each verdict was judged right
(`Judged`); all last because a cart that is done is not touched again. `SalesAreInTheBand` and
`RefusalsHaveReasons` hold for any calendar. `HoldsServeTheCovenant` assumes that
forbidden hours begin and end at different minutes. The proof found that case: such hours
are the whole day to `isInside` and over within a day to `windowFor` (Divergences).

`Conversation_proofs`, the lanes. One request may admit a turn, prune lanes, abort two runs and start what
stood in line before the host does anything else, so the invariant (`Stands`) is said of a
host value, and each operator is shown to keep it; what an action does is a composition.
`Drain` is a fold over the line: its proof is an induction over the entries looked at, by
the function that the fold is. `Owed` is the heart: a run under way is the one its lane
runs, the waiter of the gate it stands at, and, before it reaches the cart gate, on a lane
whose cart gate was not signed (`FreshTable` closes it when a turn starts, which is why an old
signature pays nothing new). It is claimed of the conversations none of whose turns was
queued behind another (`Calm`), as the properties are: once one was, the engine may call
itself idle while a turn runs (Divergences). `Down` follows the shutdown: no line is left after serving, and every run
of a calm conversation is among those awaited, unless it was deleted. `CartsHeldFor` and
`DeletedPaysNothing` are action properties, read off how a run comes to pay (`PaidHow`).

Only model-checked:
- liveness, all of it (fairness and ENABLED are beyond the prover);
- `TranscriptIsFaithful`;
- `WhatYouSeeIsWhatYouSign`, which is violated.

## 5. Not modelled

Signatures, hashes and the hash chain (libraries; comparisons without a state of their
own); the text of events, answers, pages and prompts; heuristics over a page's DOM; the
period rollover of envelopes; refunds; rate limits and header checks; the memory digest
and URI pins (`VerifyCart`'s `Drift` stands for them); admission; recommendations; the
secret vault; the UIs' screens but for the conversation's bill.

Folds: no production code appends the `catalog.*`, refund or `user.confirmed` events
most of them consume, so a model would be of a program that does not run. Read off the
code: two price points at one timestamp leave two open intervals, and
`POST /v1/ledger/replay` reports drift while a pass is due. Stock `confirm` and `release`, a
reservation sweeper and `payment.parked` are named in docs and schema and have no
caller, so they have no action.

Within the modelled parts: the id-less lane of the command line; research errands, looking
and concealing values; frames and screencasts; the 500-row trim of the beat log, its boot
sweep, give-up and back-off of the page; daylight saving; more than one SKU per cart.

## 6. Plan

1. Envelope periods: a reservation opened in one period and captured in the next.
2. `MandateChain`: link rules and lifetimes, so that `VerifyCart`'s chain check is a
   step with a cause.
3. The vault, and amendments of a covenant.
