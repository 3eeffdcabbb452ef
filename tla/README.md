# Transaction fingerprinting: specifications, model checking and proofs

This directory holds a TLA+ development of the fingerprinting system: agents
that together compute a keyed fingerprint of a payment transaction without any
of them holding the key. It states what the program promises, models how the
Rust code under `src/` does it, checks the models with TLC and proves the
central results with TLAPS.

    tlc -workers 2 -config MCConcurrent.cfg MCCollaborativeProtocol   # one run
    tlapm CollaborativeProtocolProofs.tla                             # the proofs of a module

## The system

| Component | Source | State | Operations | Model |
|---|---|---|---|---|
| Secret sharing | `fingerprinting-core/src/secret_sharing.rs` | polynomial, shares | `generate`, `lagrange_coefficient` | `SecretSharing`, `KeyCeremony` |
| Key ceremony tool | `fingerprinting-cli/src/main.rs` | arguments, printed shares | `main` | `KeyCeremony` |
| Collaborative protocol | `fingerprinting-core/src/protocols/collaborative_protocol.rs` | per call: blinding factor, requests in flight, responses | `process` | `CollaborativeProtocol` |
| Protocol trait, naive protocol | `fingerprinting-core/src/protocols/{mod,naive_protocol}.rs` | the secret | `process` | `FingerprintProtocol`, `CurveHash` |
| Agents topology | `fingerprinting-grpc-agent/src/agents_topology.rs` | clients of each member | `new`, `obtain_shard` | `CollaborativeProtocol` |
| Cooperation service | `fingerprinting-grpc-agent/src/lib.rs` | the shard | `compute_exponent` | `CollaborativeProtocol` |
| Components | `fingerprinting-core/src/{lib.rs,components}` | none | `try_from`, `serialize`, `squeeze` | `TransactionData` |
| Fingerprint service | `fingerprinting-grpc/src/lib.rs` | calls; per batch a task, a window, a channel | single and batch call | `SingleFingerprint`, `BatchFingerprint` |
| Servers | `fingerprinting-cli/src/{bin,config.rs,lib.rs}` | configuration, the servers of a process | `main` | `AgentServer`; what a restart does to calls, in `CollaborativeProtocol` |
| Compact encoding | `fingerprinting-core/src/lib.rs` | none | `compact`, `unwrap` | `CompactText` |
| Health registry | `extras/grpc-health-checking` | registered services; per watch a task and a channel | `register`, `check`, `watch` | `HealthRegistry` |
| Money conversions | `fingerprinting-types` | none | `try_from` | `MoneyConversion` |

How they interact. A client calls the fingerprint service of an initiator (an
`agent_server`). The service converts the request, squeezes date, time and
amount to a scalar and awaits `process` of the protocol trait. The naive
protocol multiplies the point of the scalar by the secret. The collaborative
protocol multiplies the point by a random blinding factor, asks the other
agents through the topology for their partial results, takes the first
`threshold - 1`, adds its own, interpolates and unblinds. The other side of a
request is the cooperation service, which runs in every `agent_server` and
`light_agent_server`. The service then serializes bank, amount, currency and
the protocol's result and hashes them. A batch call does this for a stream of
items in a spawned task that feeds the response through a channel. Callers of
the library take the same steps themselves, from decimal or integer amounts.

A process reads its configuration over a built-in reference, takes its shard
from its text form, and joins its servers: the fingerprint service, the
cooperation service and the health service in a cooperative `agent_server`, two
of them in the others. The health service tells the status of the process to
whoever checks or watches it.

What is hard. The answers come in any order, some never; several calls run at
once, in both directions between two agents; a process restarts under its own
calls and under requests to it; shares are replaced agent by agent; the window
of requests, the window of items and the channel fill up; a panic in one
future takes with it whatever awaits it; a watcher's status ages on its way
through a channel; servers of one process come up in any order and one that
fails ends the others, and a stop waits for all they have in progress; dates, amounts, codes and texts have boundary values. `PROJECT.json` lists each hazard at its line.

What makes each component correct:

- secret sharing: any `threshold` shares determine the secret, fewer say nothing;
- protocol: a call returns what the naive protocol would, or fails; it fails
  only for lack of a quorum; a helper learns nothing of the input;
- components: equal fingerprints exactly for equal transactions, no
  transaction before the epoch;
- batch: every reply is that of its item, a clean end means a complete batch,
  the client's pace is respected, and everything ends;
- health: what a watcher is told lags by a bounded number of messages, settles
  when the status does, and its task ends with it;
- servers: those of a process live and end together, a stop cuts off no request
  and is held up by clients only, and who answers at an agent's port computes
  with that agent's share.

## Modules

`PrimeField` is the scalar field. The group G1 has prime order, so a point is
its discrete logarithm: adding points is `Add`, multiplying by a scalar is
`Mul`. `SecretSharing` holds `Share`, `LagrangeCoefficient` and `Combine` as
folds that follow the loops of the code. `CurveHash` has the two hashes: the
hash to the curve is a constant function, the squeeze an injective tag.

`KeyCeremony`: the arguments, `Generate` or the failed assertion, and
`Reconstruct`, in which any list of agents combines its shares.

`FingerprintProtocol` is the abstract promise of the trait: a call begins, and
returns the naive result or fails; a crash loses calls.

`CollaborativeProtocol` is the detailed model. Its state and actions:

| Model | Code |
|---|---|
| `members[a][b]` | `GrpcAgentsTopology::members`: not listed, listed with clients, listed with an empty list |
| `polynomial`, `generation` | the key ceremonies, and which of them each agent's `secret_shard` is from |
| `phase`, `blind`, `responses`, `result` | the locals of one `process` future |
| `wire[c][b]`, `exponent[c][b]` | the request of call `c` to agent `b` and its answer |
| `Ask`, `SkipAbsent`, `AskUnresolved` | the next number of the stream enters the window and `obtain_shard` is polled first: request sent, `Err`, panic |
| `Collect`, `Discard` | the stream yields an answer, or a `(0, generator)` the filter drops |
| `GiveUp`, `UnblindPanics`, `Finish` | what follows `collect().await`: `Err`, the `unwrap` on zero, the result |
| `Serve`, `LoseRequest` | `compute_exponent` at the other agent; any failure of the request |
| `RestartServer`, `RestartLight` | a process ends and `main` runs again, with the same or the next shard |

`origin` is a history variable: the ceremony behind each answer. The window is
filled before a result is taken (`ToppedUp`), as `buffer_unordered` does, and
ending the stream cancels what is in flight (`Dropped`).

`TransactionData` has the conversions and components as operators on records,
with outcomes that carry the status. `SingleFingerprint` and `BatchFingerprint`
use them over an instance of `FingerprintProtocol`: they rely on the promise of
the trait and on nothing else, and `CollaborativeProtocol` is shown to keep it.
In `BatchFingerprint` the protocol run of an item advances only in a step of
the task, since nobody else polls it; while the task waits for room in the
channel no item advances.

`MoneyConversion` is the part of the conversions that makes an amount units and
atto: gRPC requests, decimals of nineteen places, signed and unsigned integers,
with the width of a `u64` as a constant. `Truncate` is the division of Rust.

`HealthRegistry` models `Check` and `Watch`:

| Model | Code |
|---|---|
| `services`, `serving` | `HealthRegistry::services`, and what each `is_serving` would return; `Change` is its owner's |
| `task`, `pending`, `channel` | the spawned task, the response it is sending, the `mpsc` channel |
| `due`, `Tick` | ticks of the interval; those missed while the task sends complete in a burst |
| `Sample`, `Send`, `SendFails` | `tick().await` with the read of the status; the send; its error and the `break` |
| `seen`, `Receive`, `Leave` | the client, which reads at its own pace |

`since` is a history variable: the messages a client received since the status
of its service last changed.

`CompactText` is the text form of a scalar: whether a text is base58, and its
bytes. `AgentServer` models the processes on one host:

| Model | Code |
|---|---|
| `file`, `Layered`, `Conf` | the file a process is given, over the built-in reference; fields nobody reads are ignored |
| `Loads`, `Parses`, `Startup` | `resolve`, the address conversions, `Compact::unwrap`, in the order of each `main`; the light agent panics where the other returns an error |
| `server[p][s]`, `Bind`, `Fail`, `Close`, `Drain` | a server of the join: it binds, fails, stops accepting after a signal, and returns once nothing is in progress |
| `open[p][s]`, `Connect`, `End` | the requests and streams in progress at a server: unary calls, batches, watches |
| `Exit` | what `try_join` does when one server fails, and the end of `main` |
| `shard` | the scalar the services of a running process hold |

A bind may always fail, so that two processes want one port needs no model of
its own.

Operators introduced as "a bug this model must notice" are variants of the
definition that follows them. No specification uses them: each is put in place
of that definition to see that a property fails.

## Runs

| cfg | Checks | Instance |
|---|---|---|
| `MCKeyCeremony` | exactly the groups of `threshold` agents determine the secret | field of 5, arguments 0 to 4, every polynomial, every ordered group |
| `MCAlgebra` | result, quorum, obliviousness, giving up | 4 agents, threshold 3, window 2, all 125 polynomials, all 5 blinding factors, any helper may fail |
| `MCConcurrent` | refinement of the promise, settled calls stay, requests move forward, only agents hold a call up, an unresolved member is fatal, every call returns unless its process ends | 4 agents, two initiators that restart for ever, a call each, window 2, a silent, a missing and an unresolved member |
| `MCRotation` | one ceremony's answers give its fingerprint; the same shares give the same fingerprint; one share of another ceremony always shows; the inductive invariant | 3 agents, each replaces its share under two calls with two blinding factors; the two polynomials agree at agent 3 |
| `MCSingle` | fingerprints identify transactions; nothing before the epoch | two calls over 62 requests in all notations |
| `MCBatch` | replies match items, back-pressure, clean end is complete, protocol runs live with their task, task and stream end | batches of up to 6 items, window 2, channel 1 |
| `MCHealth` | bounded lag, first status at once, convergence, the task follows its client | two services, one or two names, one watcher, channel 3, two ticks due |
| `MCServer` | servers live together, the right share answers, health tells the truth, a stop cuts off no request, only clients can hold it | an `agent_server` with 8 files and a `light_agent_server` with 5, a client that may have a request at each server |

Four more runs each check one statement of the documentation that the code does
not keep, and TLC shows how: `MCRotationMixes` (a call during a rotation returns
a fingerprint of no secret), `MCEpochDay` (a transaction of 2025-01-01 panics in
a division by zero), `MCBatchPanic` (a batch whose task panicked ends with
status OK), `MCNegative` (a negative decimal amount gets the fingerprint of
another amount). Findings that need no run, or that a property of a passing run
states as the code has it, are in `PROJECT.json` with their lines: an address
that did not resolve makes calls panic whatever the quorum
(`UnresolvedMemberIsFatal`), status codes, the `address` of the sample
configuration, the status of an unknown service.

Why the bounds suffice. A field larger than the number of agents makes the
points of the agents distinct, and its few elements let TLC take every
polynomial and blinding factor. Threshold 3 is the least with a nonlinear
polynomial and two answers to order; more than `threshold` agents give a choice
of helpers. Two calls are the least that can disturb each other. The window of
1024 is kept where it is never full and lowered to two where its limit matters.
One ceremony after the first shows every mixture of two; that its polynomial
agrees with the first at one agent lets a call mix ceremonies without a share
that differs, and two blinding factors let two calls differ in nothing else.
`MCRotation` is the largest run, with some 800,000 states. Batches are longer
than window, channel and the reply in hand together, so the task does block.
The calendar of `MCSingle` (two seconds a minute, four a day, three atto a
unit) has a leap second, two midnights, the epoch and both sides of it, an
amount in two notations and an amount that differs by one atto, the same as a
decimal, with a nineteenth place and without, and as an integer, and codes with
characters before them. `MCConcurrent` has four agents so that a reliable
helper is left beside a silent one in a window of two. One watcher suffices for
`MCHealth`, since watchers share nothing but the status; its channel of three
makes the lag longer than one burst, and two services are the least that can
share a name. The files of `MCServer` are those of `README.md` and `examples/`
and variants that leave out, shorten, lengthen or break one part; scalars have
two bytes so that a text can be too short, too long or too large.

## Fairness

Safety runs use no fairness. `MCConcurrent` assumes that the runtime polls a
future that can proceed (`WF` on the steps of a call), and that the agents in
`Reliable` answer (`WF` on `Serve`). It assumes nothing of the others, since
the code sets no deadline on a request: a silent agent stays in the window for
ever, so `Succeeds` is stated for configurations whose silent agents do not
fill it. Restarts are never forced and never limited. `MCBatch` assumes that
the runtime polls the task and the connection, that protocol runs end, and that
the client keeps reading or leaves. That runs end is an assumption on the
protocol: with helpers that stay silent it fails, and so does the end of the
batch.

`MCHealth` assumes that time passes (`WF` on `Tick`), that the runtime polls a
task that can proceed, and, for `WatchConverges` only, that a client in
`Readers` reads on; nobody need leave and no status need change or settle.
`MCServer` assumes that the one attempt of a server to bind is made, with either
outcome; that a server that was told to stop stops accepting, and returns once
nothing is in progress at it; and that a process whose servers have returned
returns. Nothing need be started, stopped or killed, and no server need fail. Of
the requests in progress, only those of the cooperation service are assumed to
end: `compute_exponent` awaits nothing, and its reply is one small message. A
Watch ends only when its client leaves (`grpc-health-checking/src/lib.rs:82`), a
batch when its client has read it, and a call to the fingerprint service when
the agents it waits for have answered (`collaborative_protocol.rs:93`). Hence a
client can hold a stopping process for ever, and no run claims that a stop ends.
`StopHeldOnlyByClients` says that nothing else holds one: not another server of
the process, not a server it never had, and not the requests of other agents. A
light agent is held by watches alone. The part of the server library is
external: on a signal every server, also one that is still binding, stops
accepting and waits, without a limit of its own, for what it has accepted.

## Proofs

Eight modules, each beside the module it is about. What they prove holds for all
values of the constants that satisfy the named assumptions. Every safety
property the passing runs check, the action properties and the refinement are
theorems:

| Module | Theorems (property of the runs) |
|---|---|
| `SecretSharingProofs` | `ThresholdRecovers`, `FewSharesHide`, `AnySharesCombine` |
| `KeyCeremonyProofs` | `TypeCorrect` (`TypeOK`), `GroupRecovers` (`AnyThresholdGroupRecovers`), `SmallGroupHides` (`SmallGroupLearnsNothing`) |
| `CollaborativeProtocolProofs` | `TypeCorrect` (`TypeOK`), `Invariant` (`IInv`), `QuorumAlways` (`QuorumContributes`), `UniformGeneration` (`UniformGenerationCorrect`), `Refinement` (`KeepsPromise`) |
| `CollaborativeOutcomeProofs` | `SettledStaysSettled` (`SettledStays`), `UnresolvedFatal` (`UnresolvedMemberIsFatal`), `GivesUpLast` (`GivesUpOnlyWithoutQuorum`), `HeldUpOnly` (`HeldUpOnlyByAgents`), `MovesForward` (`RequestsMoveForward`), `Hiding` (`Oblivious`), `MixedAnswers`, `SharesDetermine` (`SharesDetermineResult`), `DeviationShows` (`OneDeviationShows`) |
| `SingleFingerprintProofs` | `TypeCorrect` (`TypeOK`), `Identification` (`FingerprintsIdentify`), `EpochIsFirst` (`NothingBeforeEpoch`) |
| `BatchFingerprintProofs` | `TypeCorrect` (`TypeOK`), `BackPressure` (`BoundedAhead`), `CleanEnd` (`CleanEndIsComplete`), `RunsLive` (`RunsLiveWithTask`), `RepliesMatch` (`RepliesMatchItems`) |
| `HealthRegistryProofs` | `TypeCorrect` (`TypeOK`), `Invariant` (`IInv`), `Lag` (`LagBounded`), `FirstStatus` (`FirstStatusAtOnce`) |
| `AgentServerProofs` | `TypeCorrect` (`TypeOK`), `LiveTogether` (`ServersLiveTogether`), `OwnShare` (`AnswersWithItsShare`), `StopsWhole` (`StopCutsNothing`) |

### Secret sharing and the key ceremony

`SecretSharingProofs` is about the operators `Share`, `LagrangeCoefficient` and
`Combine`, in every field of prime order. It ends in Shamir's theorem as the
program relies on it: any `t` or more different agents that multiply one point
with their shares of a polynomial of `t` coefficients combine their products to
the point times its secret. The argument, from the bottom up:

- *Induction without an operator parameter.* `LeastNumber` gets a least element
  of a set of naturals from the well-foundedness of `<`; `UpTo` is induction over
  `0 .. n` for membership in a set.
- *Folds are loops.* The folds of the community modules recurse on a set of
  positions and take out the greatest. `FoldTable` shows that this recursion has
  a solution, `FoldIsLoop` that it agrees with a table of the steps of a loop
  (`Loop`). Hence `ShareIsEvaluation`, `CoefficientIsProduct` and `CombineIsSum`.
- *The field.* Laws of `Add`, `Mul`, `Neg`, `Sub` and `Invert` from integer
  arithmetic modulo `P` and the existence of inverses.
- *The weights.* When the loop over the indices takes in one more agent, the
  weights of all others change by a factor. `FactorsSplit` relates the products
  before and after; from it `WeightsSumToOne` (the interpolation of a constant)
  and `WeightedPowers` (powers below the number of agents cancel).
  `Interpolation` adds the terms of the polynomial.

- *Counting polynomials.* The secret is the value at zero, so
  that a group and a secret are `Len(group) + 1` points of the polynomial
  (`ValueType`). `Vanishing` builds a polynomial that is zero at given points and
  nowhere else, one factor `X - u` at a time (`ValueWithRoot`). Adding multiples
  of it moves the value at one more point through the whole field and leaves the
  others as they are, so each point divides the number of polynomials by `P`,
  whatever its value (`OneMorePoint`, `AgreeingCount`). `FewSharesHide` is the
  other half of Shamir's theorem: every secret has equally many polynomials with
  the shares of a smaller group.
- *Any shares.* At as many points as there are coefficients exactly one
  polynomial is left for any values (`OnlyOneAgrees`), and two that agree there
  are equal (`SameValues`, `SameShares`). With `Interpolation` this gives
  `AnySharesCombine`, which asks nothing of where the shares come from: they
  combine a point to the point times the secret of the polynomial through them.
  With zero as one of the points it gives `OneShareMatters`: polynomials with the
  same secret whose shares agree for all but one agent of a group are equal.

`KeyCeremonyProofs` lifts this to the ceremony: `IInv` says that share `i` is the
value of the polynomial at `i`, that the arguments passed the assertions of
`generate`, and that a group that combined its shares is a list of different
agents. `SmallGroupHides` counts the polynomials with a group's shares.

From which assumptions: `FieldAssumption` (every nonzero element has an inverse)
and `MaxAgentsAssumption` (fewer agents than field elements).

### The collaborative protocol

`CollaborativeProtocolProofs`, for every number of agents, threshold, window,
topology, set of calls and number of rotations:

- `TypeCorrect`: `Spec => []TypeOK`;
- `Invariant`: `Spec => [](TypeOK /\ IInv)`, the inductive invariant;
- `QuorumAlways`: a fingerprint is computed from exactly `Threshold` different
  agents' partial results, the initiator's last;
- `UniformGeneration`: answers from one ceremony give that ceremony's
  fingerprint;
- `Refinement`: without a rotation, `Spec => KeepsPromise`.

The argument. What a finished call returns says nothing of how its responses
came about, so `QuorumContributes` and `UniformGenerationCorrect` are not
inductive. `IInv` adds it: an untouched call has asked nobody
(`IdleUntouched`); every answer is the blinded point times the share its agent
had when it answered (`AnswersGenuine`); collected responses are such answers,
of different agents (`ResponsesGenuine`); the own response is last and comes
only at the end (`OwnResponseLast`); the result is the unblinded combination of
the responses that are kept (`ResultFromResponses`). `ThresholdRecovers` then
turns the combination into the blinded point times the secret, and the lemmas
on the field (`MulAssociates`, `Unblind`) remove the blinding factor.

From which assumptions: `FieldAssumption`, `HashAssumption` and
`ConfigAssumption` (types of the constants; every ceremony draws `Threshold`
coefficients, and agents are fewer than field elements).

`CollaborativeOutcomeProofs` is about how calls end: `SettledStaysSettled`,
`UnresolvedFatal`, `GivesUpLast`, `Hiding`. The second and third need to know
what a call that still collects has done (`CollectingInv`): it asked the agents
in the order of their numbers (`AskedInOrder`), cancelled nothing and asked no
unresolved agent (`RequestsSound`), keeps every collected answer among its
responses (`CollectedCounted`), and has asked its whole first window before it
took a result (`WindowFirst`). `GivesUpLast` then counts: every other agent was
heard, the collected ones are fewer than `Threshold - 1`, so the discarded ones
exceed `Count - Threshold`. `Hiding` assumes in its statement what obliviousness
rests on: every element of the field may be drawn as a blinding factor, and no
input hashes to the neutral point.

*Progress.* Two theorems are the part of `Succeeds` that needs no fairness.
`HeldUpOnly`: a call that can neither ask, nor take a result, nor conclude
(`CanAdvance`) has only requests that agents hold, a full window of them or the
last ones. It rests on the invariant `WindowBound`, by which a window without
room holds exactly `Window` requests, and on the order of the numbers: the least
agent not yet asked is the one the stream yields. `MovesForward`: no
step takes a request back, and a step of the call takes one further or ends the
call, so that a call takes at most three steps for each agent and one more. What
remains to TLC is that a runtime that polls the call makes it take them.

*Rotations.* `UniformGeneration` speaks of answers of one ceremony only. What the
others are: the shares a call used, of whatever ceremonies, are those of one
polynomial (`AnySharesCombine`), and the result is the fingerprint under its
secret (`MixedResult`, `MixedAnswers`). So the shares alone determine the result
(`SharesDetermine`): two calls whose answers used the same shares agree, whoever
asked and however the points were blinded. And if just one share differs from
those of a ceremony, the polynomial through them differs from the ceremony's and
agrees with it at all other agents, hence not at zero (`OneShareMatters`): the
result is not that ceremony's fingerprint (`DeviationShows`). With two or more
deviating shares the errors may cancel, so that the theorem does not extend to
them.

### The services

`BatchFingerprintProofs`: `BackPressure`, `CleanEnd` and `RunsLive`, for every
batch, window and capacity. `BInv` counts the taken items against the replies (`Counted`) and
the window and the channel against their limits (`Bounded`); for the end of the
stream it says that no reply is lost as long as the client follows
(`NothingLost`), that replies name items (`Named`), and that the end comes after
the last reply (`EndIsLast`). They rest on `BatchAssumption`. `TypeCorrect` also
assumes that the model value for the absence of a reply is none of the replies
(`NothingIsNoReply`). `RunsLive` follows each item with its protocol run: they
change together (`RunChanges`), or the whole window is dropped (`RunsDropped`).

`RepliesMatch` is about every batch and every order in which its items finish.
Under `BInv`, `RInv` carries the promise of the trait into the batch: a protocol
run is asked what its item squeezes to, and only about an item that can be
squeezed (`Asked`). The rest is about the line of all replies that
were taken (`Line`: received, in the channel, in the task's hand). A step leaves
the line as it is (`LineStays`), adds the reply of an item that was in the window
until then (`LineGrows`), or drops its last reply (`LineCut`). Hence its
fingerprints are those of the items they name (`AllRight`), which have left the
window, and no item is named twice (`NoneTwice`).

`SingleFingerprintProofs`: `EpochIsFirst`, for every calendar in which the epoch
is a midnight (`ScaleAssumption`). A fraction of a second before the epoch
passes the first guard; `EarlierDay` shows that its day is an earlier one, which
the second guard stops. The theorem assumes that requests are well formed: a
message that is there has its fields.

`Identification` is about every calendar, scale, set of calls and set of
requests: two calls return the same fingerprint exactly when their transactions
are the same. Its invariant is that a call that returned was told the secret
times the hash of what its own request squeezes to (`Returned`). The rest
compares two such fingerprints (`Identified`). Date and clock are the quotient
and the remainder of the same number of seconds, leap seconds included
(`QuotientUnique`, `ClockKept`);
units and atto are read back from each of the three notations (`AmountKept`);
the bank is that of the suffix the expression matches (`BankKept`); the digest
absorbs its limbs one after the other (`DigestInjective`, `LimbsKept`); and a
nonzero secret times different points gives different results
(`ResultsDiffer`). The hypotheses, both evaluated by TLC in the module
`MCSingleFingerprint`:

- `Ideal`: the hash to the curve has no collisions on what the requests squeeze
  to, and no secret is zero;
- `Representable`: a request has the fields and types of the interface, and a
  decimal amount is not negative and its units fit a `u64`. The code does not
  check the last; `MCNegative` shows what happens without it.

`TypeCorrect` assumes that the model value for the absence of a reply is no
outcome (`NoReplyIsNoOutcome`).

### Health and servers

`HealthRegistryProofs`: `TypeCorrect`, `Invariant`, `Lag`, `FirstStatus`. A
bound on what the client has seen is not inductive. `OldStatusesLeave` is: the
status in place `k` on its way to the client is the current one as soon as
`since + k` exceeds `Capacity + 1`. A change sets `since` to zero, when nothing
on the way is that far back; a receipt moves every place by one and raises
`since` by one; a sample adds the current status at the end. `LeastElement`
shows that a name that is registered has a first service.

`AgentServerProofs`: `TypeCorrect`, `LiveTogether`, `OwnShare`, `StopsWhole`, for
all processes, files and clients. `OwnShare` uses `ReadsItsText`, that a process computes
with what `Unwrap` made of its configured text, and `FilesAssumption`, that
operators give an agent's process its own port and share where they give any.
`StopsWhole` needs `OpenAtServer`, that requests are in progress only at servers
that listen or drain: when all servers of a process are done none has any, and
`LiveTogether` says that there were no others.

### Only model-checked

All liveness (`Succeeds`, `TaskAlwaysEnds`, `StreamAlwaysEnds`,
`WatchConverges`, `TaskFollowsClient`, `HealthTellsTruth`,
`StopHeldOnlyByClients`): the
provers do not reason about `ENABLED` and fairness. `MoneyConversion` and
`CompactText` have no theorems of their own: `AmountKept` is about the former,
and `AgentServerProofs` takes `Unwrap` as it is. The four
violations are TLC's counterexamples.

## Abstractions and what is left out

- Random choices are any choice from a set; hashes do not collide.
- A request of the program is well formed, so the length check and the decoding
  in `compute_exponent` and the length of the answer are not modelled. An
  answer that is no curve point is a failed request.
- An agent with several addresses has one client picked at random, and no other
  is tried when it fails; the model has one, which may fail each time.
- A request that fails, or that is to an agent the configuration does not list,
  keeps its slot of the window until the stream takes its result.
- An agent listed twice in a configuration counts as its last entry.
- `count`, `threshold` and the shares of a network agree; the code does not
  check that a configuration's threshold is that of the ceremony.
- Of a configuration `AgentServer` has the addresses, the mode and the secrets;
  agent numbers, threshold and members are the constants of
  `CollaborativeProtocol`. Which HOCON and which base58 strings are well formed
  is left to the libraries.
- A server's graceful shutdown is two steps for each server: it stops accepting,
  and it returns with nothing in progress. Idle connections and the library's own
  time limits, if it has any, are left out. A health probe of `HealthTellsTruth`
  is a new call: a Watch opened before the signal goes on hearing the constant
  status while it holds its process.
- A response stream of `BatchFingerprint` and `HealthRegistry` yields a message
  and the client receives it in one step. The bounds of `BoundedAhead` and
  `LagBounded` hold where the stream is read; what HTTP/2 buffers between there
  and the client comes on top.
- Logging, wire formats, schemas, client builds and packaging are not modelled.

Observations without a run: the comment in `bank_identifier.rs:18` speaks of
the first six characters, but the expression is anchored only at the end, so a
longer string that ends in a code contributes other characters
(`BankAndCountry` models this, and the requests of `MCSingle` include such
strings); `README.md:111` speaks of asking `threshold - 1` agents, the code
asks all and keeps the first answers; the test in `lib.rs:356` compares a
transaction with itself, so its assertion cannot fail; a file that leaves out
the shard runs with the one of the built-in reference, without an error.

## Not modelled

- Schemas and the code generated from them, build files of the clients, the
  Docker image: no state and no logic of the repository's own.
- Poseidon, BN256 and the hash to the curve: external libraries. Poseidon is an
  injective tag, the group its discrete logarithms.
- `Compact` for `Bytes`: used by no service.

## Plan

Done: secret sharing, protocol, its promise and refinement, components, services,
health registry, servers and configuration, money conversions, and the proofs
above. What could follow:

1. The safety part of the liveness of batches, watches and servers as theorems,
   as `HeldUpOnly` and `MovesForward` are for the calls.
2. The composition of `AgentServer` and `CollaborativeProtocol`: calls between
   processes whose servers come up one by one.
3. A configured threshold below that of the ceremony: which secret such a
   network fingerprints with.
