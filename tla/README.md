# VCL-total: a TLA+ verification project

VCL-total decides, before a query or a transition may touch a VeriSimDB store,
which of eleven safety levels (0 ParseSafe ... 10 EpistemicSafe) its text has
earned. This directory holds TLA+ modules of the parts of the repository that
carry state or decide that level, the TLC configurations that check them on
small instances, and TLAPS proofs of the properties that matter most for every
value of the constants. Paths below are relative to the repository root.

## 1. The system

### Components

| Component | Code | State | Operations | Modelled |
|---|---|---|---|---|
| Query-context pool | `src/interface/ffi/src/main.zig` | array of 256 contexts (`active`, `stage`, `mode`, `achieved_level`), `pool_mutex`, a threadlocal error message | `vqlut_parse`, `bind_schema`, `check_types`, `check_effects`, `compile`, `get_safety_level`, `destroy` | `QueryPool` |
| Certification loop | `src/interface/parse/src/decider.rs` `certified_level` | the level being tried | one step per level | `Certifier` |
| Level and transition deciders | the rest of `decider.rs` | none | `check_level1` ... `check_level10`, `transition_admissible` | `Decider` |
| Admission gate | `src/interface/parse/src/bin/vclt-gate.rs` | the request, the report under construction, exit code | one run per process | `Gate` |
| Proof-corpus decision procedure | `src/core/Decide.idr`, `Checker.idr` | none | `certifiedLevel` | `Corpus` (what differs from the port) |
| Recompute tier | `ffi/rust/recompute-wasm` | guest memory | `vcl_recompute` | `Recompute` |
| Parser | `src/interface/parse/src/parser.rs` | token position, depth | `parse_op` | `Parser` (over tokens; the lexer is left out) |
| Wire codec | `src/interface/parse/src/wire.rs` | read position, depth | `to_wire`, `to_wire_op`, `to_wire_schema` and their inverses | `WireEncode`, `Wire`; `Transfer` composes them with the parser |
| Attestation tier, C shim | `ffi/rust/attest`, `ffi/zig` | threadlocal error, caller's buffer, tokens in the world | `vclut_init`, `vclut_verify_query`, `vclut_verify_wire`, `vclut_rs_verify`, `verify` | `Attest` |
| Language server | `src/interface/lsp` | none between two requests | request loop | no, see 6 |
| Debug adapter | `src/interface/dap` | one counter per client | dispatch | no, see 6 |
| ECHIDNA client | `src/interface/echidna-client` | none | HTTP calls without retry | no, see 6 |
| Linter, formatter | `src/interface/lint`, `fmt` | none | text to text | no |
| Idris corpus: levels, composition, ABI layout | `src/core`, `src/interface/abi` | none | proofs of their own | no |

### How they interact

A consumer meets the certifier along one of three ways. VeriSimDB starts
`vclt-gate` with a JSON request: the gate parses the text, runs the certifier,
runs the levels a second time for its report, and answers on stdout and with
its exit code. A consumer that holds wire bytes calls `vcl_recompute` in a WASM
sandbox and gets a level or -1. One that cannot run WASM calls
`vclut_verify_wire` in the Zig shim, which calls the Rust attestation crate,
which runs the same certifier and signs what it returns. `decider.rs`, the
certifier of all three, is a port of the Idris procedure and claims to be
exact. What the last two receive has been parsed and encoded elsewhere and has
crossed a seam that this repository does not control: the bytes may reach the
wrong one of three decoders, or be damaged. The query-context pool is a C library next to these: it runs no
certifier, and keeps the pipeline stage and level of every query that is under
way, for any number of threads.

### What is hard

* **Interleaving and atomicity.** `getContext` takes the mutex, finds the
  context and returns a *pointer*; each operation then reads and stores
  through it without the mutex, field by field, while other threads allot and
  free slots.
* **Stale state.** A handle is the slot's index plus one. It carries no
  generation, and outlives `vqlut_destroy` in the caller's hands.
* **Resource limits.** A pool with no free slot; `defer unlock` on every way out.
* **Protocol sequence.** Each stage operation writes its own level. What level
  a query ends with, in each of the three modes, is spread over five functions.
* **Ordering of refusals.** A gate request may have several defects and the
  contract fixes which is reported.
* **One question answered twice.** The gate's verdict and its report come from
  two loops over the levels, one of which stops early.
* **A port and its original.** `decider.rs` and `Decide.idr` are to agree on
  every statement the wire can carry; golden fixtures sample a few.
* **Two limits of nesting.** The parser counts parentheses and NOTs up to 256,
  the decoder nodes up to 128, and chains of AND nest the tree and not the text.
* **Bytes nobody wrote.** The decoders read counts, lengths, tags and flags from
  bytes that may be anything, recursively, and must return on every path with
  the depth restored.
* **Four answers to one call.** `vclut_verify_wire` answers by its return value,
  the caller's buffer, a threadlocal message, and a token that outlives the call
  and can be shown with another statement.
* **A fuelled closure.** Cycles of ENTAILS are found by a closure with as much
  fuel as there are edges; no theorem of the corpus says that is enough.

`PROJECT.json` lists these and the rest as `hazards`, each at its line, with
the properties that would catch it.

### What makes each part correct

* *Pool*: threads that use their own handles see independent queries; a slot
  has one holder; the level shown is the one the stage and mode have earned;
  stages go forward; the mutex is released; a call with a pointer returns. When
  threads share handles, no query gets past a check it has not had, and what
  calls do to each other ends with the query they do it to.
* *Certifier*: the verdict is the requested level exactly when every level up
  to it passes, and -1 otherwise.
* *Gate*: it answers each request once, as a function of the request; verdict,
  report and exit code agree; nothing admitted escapes the levels its clauses
  call for.
* *Parser*: a text is parsed to the tree it was written for or refused; no token
  is lost.
* *Codec*: what is sent arrives, or is refused for its depth; bytes that are
  accepted are those the encoder writes for the value; a stream is not taken for
  another; every call of a decoder returns.
* *Attestation*: the four answers agree; what a consumer accepts was certified
  by the owner of the key it trusts, for the very bytes it holds.
* *Port and corpus*: the same verdict on every statement; where they differ,
  it is known where and in which direction.

## 2. The modules

| Module | What it is |
|---|---|
| `QueryPipeline` | Abstract: a table of independent queries; begin, advance, discard, each indivisible. |
| `QueryPool` | The pool as the code is. Refines `QueryPipeline` (`ImplementsPipeline`). |
| `QueryPoolInv` | Its inductive invariants, and the two disciplines of callers. |
| `SharedPool` | The pool with a history of where calls met on one query, and what holds whoever passes which handle. |
| `QueryPoolProofs` | Their proofs, the theorems on the pool, and that it implements `QueryPipeline`. |
| `Certifier` | `certified_level`, its loop variable and verdict. Meaning of a level is a parameter. |
| `CertifierProofs` | Lemmas about that loop, for the three systems that run it. |
| `Decider` | What each level tests, over syntax trees. The walk of a tree is a parameter. |
| `Trees` | The recursive walks of trees and types, the parameters of `Decider` and `Corpus`. |
| `Admission` | Abstract: what the gate's contract promises, one response that is a function of the request. |
| `Gate` | `vclt-gate`, over `Certifier`. Refines `Admission` (`ImplementsAdmission`). |
| `Vetting` | The gate over the levels of `Decider`: what an admitted operation has been vetted for. |
| `GateProofs` | Proofs about the gate, its refinement and what it admits included. |
| `Corpus` | The Idris procedure, where it is written differently from the port. |
| `Recompute` | `vcl_recompute`, over `Certifier`. |
| `Conformance` | `vcl_recompute` over the levels of `Decider`, next to the verdict of `Corpus`. |
| `RecomputeProofs` | Proofs about both, and about the cycle test. |
| `Wire` | The three decoders, one read, allocation or return at a time, on any bytes. |
| `WireEncode` | The three encoders, from tables of their own: of each type a header and the parts after it. |
| `TreeWalks` | The recursive walks of a value: its bytes, what is left without its verbs, its nesting, its parts. |
| `Parser` | `parse_op` over tokens. |
| `Transfer` | Text, parser, encoder, seam, decoder. What the parser answers and the encoder's walk are parameters. |
| `WireProofs` | Proofs about the decoders and the transfer. |
| `RoundTripProofs` | Proofs about decoder and encoder together. |
| `Induction` | Induction and recursion over the numbers, with sets in the place of predicates. |
| `Attest`, `AttestProofs` | The shim, the backend and a consumer, over `Certifier`, and four theorems. |
| `MCQueryPool`, `MCSharedPool`, `MCGate`, `MCRecompute`, `MCTransfer`, `MCAttest` | Values for TLC; properties that need both a system and `Decider`, `Corpus` or the text of a tree. |

`Gate`, `Recompute` and `Attest` take the levels as operator constants (`LevelOf`,
`LevelPass`, `TransitionPass`), so that the theorems hold for any deciders; the
MC modules give them `Decider`'s operators. What is recursive over trees is a
constant too where theorems are to be had: `Parts` of `Decider` and `RecordFree`
of `Corpus`, which the configurations give `Subtrees` and `NoRecord` of `Trees`, and
`Answer` of `Transfer`, which gets `ParseOp` of `Parser`. Nothing is assumed of
these three. `Encoded`, `Received`, `Nesting` and `Within` of `Transfer` get `Put`,
`Forget`, `Deepest` and `Inside` of `TreeWalks`. Of these is assumed that

* an encoder writes bytes, and no more than a slice can hold (`TransferAssumption`);
* what is sent is a value of its type, down to its leaves, and each walk obeys, on
  every value in it, the equation that defines it: `Writes`, `Forgets`, `Nests`
  (`ValuesAssumption`). `IsValue` leaves out lengths that no count on the wire can
  hold, for which `put_len` and `put_str` saturate (`wire.rs:112-115`, "never hit").

`VettingAssumption` and `ConformanceAssumption` say that the levels are `Decider`'s.
TLC evaluates all of these assumptions on the instances.

### The pool and the code

* A slot is named by its handle, index + 1; 0 stands for every handle outside
  the array. `MaxContexts` is `MAX_CONTEXTS`.
* `allocSlot` scans under the mutex slot by slot: `AllocLock`, `AllocSkip`,
  `AllocFind`, `AllocClaim`, `AllocExhausted`. `getContext` reads one field
  under the mutex and is one step, enabled while the mutex is free. `freeSlot`
  is one step for the same reason, but its stores are all made under the mutex.
* A stage operation tests the stage (`RightStage`, `WrongStage`), `compile`
  reads the mode (`ReadMode`), and the fields that remain to be stored are a
  set, `pending`: `StoreMode`, `StoreStage`, `StoreLevel` take them in any
  order, since nothing in the code orders them for another thread.
* `plan` is never written after its initial value and is left out. The error
  message is whether there is one.
* `held` and `retired` are history variables: the handles a thread was
  allotted and those it has destroyed. `Usage` says which handles threads
  pass: `"owned"`, those of their own live queries; `"stale"`, destroyed ones
  too; `"any"`, all.
* Nothing in the code ties a handle to a thread. `SharedPool` adds three history
  variables to the pool, written by `Remember` at every step and read by no action:
  `passed`, the operations whose stage test the query in a slot has passed;
  `overlapped`, the live queries that two calls could store to at once; `intruded`,
  those that were begun while a call on the slot's last query still had its pointer.
* `vqlut_parse` never writes `out_handle`. A caller knows its handle from the
  first-fit order of the scan only, as the integration tests do. `"owned"`
  assumes that it knows it; `FirstFit` is the theorem that makes the
  assumption good for one thread. For several it is not, and the hazard list
  says so.

### The gate and the code

* A request is what its parts turn out to be: `check` says what reading,
  JSON, version, statement field and schema each yield, in the order of `run`.
  Which texts are well-formed JSON is the environment's choice.
* `Accept`, `Reject` and `Certify` are the iterations of `certified_level`.
  `ListLevel` is an iteration of `build_levels`, which goes on after a failure.
* A text that does not parse is a *verdict* (exit 1, level 0), as in the code,
  and not an error (exit 2).
* `Init` is one process; a request is one process.

### The deciders and the code

An expression is a node with operands. All walks of `decider.rs` visit the
subtrees they reach without entering a subquery and ask an order-free question
of them, so one operator, `Parts` (`Subtrees`), stands for the walks, and a level is a
condition on that set. A subquery carries the fields its clauses mention, all
that level 1 asks of it. An optional clause is a set of at most one element.
Field references are names: modality and field are compared only together.
A type is a tuple, so that `vqltype_eq` is equality; records have one field.
On the wire type annotations are `TAny` (`WireDecode.idr`), so expressions have
the type of the field or subquery they are.

`Corpus` redefines the type comparison of level 2 and the cycle test of level
10, and takes the rest from `Decider`: those are clauses the two sources write
alike, checked by reading them side by side. `ConformsOnSharedDomain` therefore
says that these two are the places where the sources part, and characterises
when; it says nothing new of the other eight levels.

### The wire and the code

* The `dec_` functions are mutually recursive and read at one cursor, so a call
  under way is an item of the sequence `todo` and what it has built an item of
  `built`: `ReadSum` reads a discriminant and announces the payload of its
  constructor, `Enter` and `Leave` are `DepthGuard`, `ReadCount` and `Repeat`
  are `D::vec`, which allocates nothing in advance. The functions themselves are
  the tables `DecExpr`, `DecLiteral`, ...: a tag is a position.
* On an error `Refuse` fixes what will be returned and `Unwind` drops the guards
  of the calls under way one by one, as `?` does.
* `WireEncode` has tables of its own (`EncExpr`, ...), written from the `enc_`
  functions, where each constructor carries its tag. That the two sets of tables
  agree is checked by the runs and proved row by row (`MirrorTables`). What an
  `enc_` function writes is `Header`, the tag, count or flag, and then each part of
  `Payload` by the function of its type. The verb, of which `enc_stmt` writes
  nothing, is a part without bytes.
* Scaled down: a magic and a version are one byte each, counts, lengths and
  numbers two, `usize` ends at 65535, `MAX_DEPTH` is 3 and `MAX_EXPR_DEPTH` 4. `usize`
  and length have the same width, as in the WASM build, so that
  `LengthOverflow` is reached at the end of a slice. `f64` is carried as
  its bits in the code and as a number here. Of UTF-8 only this is kept, that
  ASCII is valid and other bytes are not.
* The seam (`Damage`, `Receive`) is not code of the repository: bytes may
  be given to any decoder, and one byte may be changed, two set to the
  largest count, the end cut off or a byte appended.

### The parser and the code

Each `parse_` function is an operator on tokens, position and depth that answers
a value and the next position, or fails; `Then` is `?`. `parse_expr` and
`parse_not` count a level, the loops of `parse_or` and `parse_and` none.
A keyword is a word, as in the lexer, and is taken for a name wherever a name is
expected and for a parameter where an operand is: the texts of `MCTransfer` without
a tree have such words.
A token stands for its spellings in either case; integers have no sign.

### The attestation tier and the code

* A call is `Begin`, the shim's checks (`ShimRefuses`, `ShimCalls`), the
  backend's (`BackendRefuses`, `BackendDecodes`), the iterations of
  `certified_level`, `Mint` or `Decline`, and the way back (`ShimReturns`,
  `RustReturns`). The consumer of `Consume` has whatever tokens were ever
  issued and mixes their parts.
* The error message is threadlocal and all else of a call is on its stack; calls
  of several threads share nothing but the tokens in the world, so one thread
  of calls and a consumer that may act between any two steps are all there is.
* Messages are named, the 16 bytes of `DOMAIN` are the same in every message.
  SHA-256 is taken to be injective and a signature to be known only once it was
  made: the signed message is the triple of statement bytes, schema bytes and level.
* Which bytes decode, and to what, is a parameter (`StmtOf`, `SchemaOf`): a
  function, as `Canonical` and `OnlyVerbIsLost` say of the codec. The signed
  statement is the bytes, and these have no verb.

## 3. The runs

| Run | Instance | States | Shows |
|---|---|---|---|
| `pool_owned` | 2 threads, 2 slots, 1 mode, own handles | 131 088 | exclusive slots, levels, stages; refinement of `QueryPipeline` |
| `pool_shared` | 2 threads, 1 slot, 1 mode, any handle, fair | 211 112 | racing calls skip no check, and do no harm beyond the query they race on; the mutex has one holder and is released; calls with a pointer return |
| `pool_single` | 1 thread, 2 slots, 3 modes, any handle | 25 514 | foreign and stale handles are refused; a caller can tell its handle; refinement in all modes |
| `pool_level` | 1 thread, 1 slot, 3 modes | violation | the level goes down on compiling |
| `pool_stale` | 2 threads, 1 slot, stale handles | violation | a destroyed handle works again |
| `gate` | about 5 000 operations, 4 schemas, and every combination of defects | 64 467 | one right answer per request; no clause escapes its level |
| `gate_barename` | the same | violation | a bare name passes SchemaBound |
| `recompute` | about 4 000 statements, 4 schemas, 512 ENTAILS graphs on 3 agents | 131 811 | no fabricated level; port and corpus agree but in three places |
| `recompute_conform` | the same | violation | the port is not exact |
| `transfer` | 7 441 texts and 82 trees, each intact to three decoders, or damaged | 201 675 | texts become the trees they mean; trees arrive but for the verb; accepted bytes are canonical; every call returns, with the depth restored |
| `transfer_roundtrip` | the same, shorter texts | violation | the verb does not survive |
| `attest` | 31 calls in any order, 2 certifiers, a consumer | 64 471 | the four answers agree; accepted tokens are certified; every call returns |

### The bounds, and why they are enough

* *Two threads*: the claims about sharing are about a pair of threads and a
  slot. The theorems lift them to any number. *Two slots* make the scan pass
  a taken slot, find one behind it, and have one freed under a scan that has
  passed its neighbour; *one slot* makes the pool full after one call, and any two
  calls meet, or follow each other, in it.
* *Modes*: a mode only selects the level stored by `compile`; `pool_single`
  has all three, the two-thread runs one that is not the default of a reset slot.
* Symmetry over threads is used in `pool_owned`, which checks no liveness:
  threads occur only as indices.
* `pool_shared` tells states apart by a `VIEW` that leaves out `last_error_msg`, which
  no action reads, and `held` and `retired`, which none reads when any handle may be
  passed. States that differ in these alone have the same steps to such states, no
  property of the run mentions the three, and every step of `Run` changes what is
  left, so liveness is that of the whole graph.
* *Gate*: one request per process. The statements take every node the parser
  delivers in every clause the levels read; the schemas hold fields that are
  absent, nullable, nested-null, of equal and of unlike types.
* *Recompute*: levels 1, 2, 5 and 6 to 10 are requested (3 and 4 are tried on the way to 5) on clauses that pass and
  fail it; three agents are the fewest on which the two cycle tests differ,
  and all 2^9 graphs are tried.

* *Transfer*: the trees have every constructor of every type at least once, and
  nest to 3, the decoder's limit, to 4 and to 6, by AND, by NOT, by parentheses,
  by subqueries and by list types. The texts are those of these trees, and every WHERE
  clause of at most four of the tokens `a NOT AND OR = ( ) COUNT KNOWS`. Damage falls on every byte of a
  sample of the streams in which every type occurs: the codec treats the
  occurrences of a type alike.
* *Attest*: three statements ask for levels 0, 2 and 6 and one byte string does not
  decode; of two schemas one declares their field. One of a call's arguments is wrong,
  or a pointer is NULL and both widths are wrong too, so that the order of
  the checks shows. Two keys, one of which signs a single thing, are enough
  to mix up.

### Deadlock and fairness

TLC checks the pool and the attestation tier for deadlock. The gate, the
recompute call and the transfer *end*, so their configurations turn that check off.

Fairness for the pool is `WF(Run(t))`: a thread that is inside the library and
can go on goes on. The code has nothing that could stop it but the mutex, and
the operating system schedules it. Nothing obliges a thread to call (`Call` is
not fair), and nothing obliges the mutex to be fair: no property says that a
thread waiting for it gets it. `PointerCallReturns` begins after the lookup
for that reason. The gate is sequential and waits
for nobody; its properties are about the answer, and nothing is claimed of when
it comes. A decoder and a call of the shim are sequential code without a wait:
`WF` of `Decode` and of `CallStep`. Nobody has to hand over bytes, make a call
or verify a token.

### Where the code and its documentation part

1. `vqlut_compile` sets `achieved_level` by mode alone, so that compiling a
   slipstream query takes it from 7 to 4; the field is documented as the
   "Highest safety level achieved so far" (`pool_level`).
2. A destroyed handle is valid again once its slot is allotted
   (`pool_stale`). In `pool_single`, where no other thread takes the slot in
   between, it is refused. Of the calls of several threads on one query, live
   or destroyed under them, `pool_shared` says what is left: stage and level may fall
   back or disagree, but none is reached untested, and the next query in the slot
   starts clean.
3. A bare name becomes a parameter and passes SchemaBound, which the parser's
   comment says it fails (`gate_barename`).
4. The port is not exact (`recompute_conform`): it makes TAny compatible with
   everything, compares records, and finds ENTAILS cycles of at most two
   agents. `ConformsOnSharedDomain` and `CertifiesWhatCorpusCertifies` show
   that there is no fourth place, and that the port is always the more
   permissive side.
5. `from_wire(to_wire(s)) == s` does not hold of a statement whose verb is not
   SELECT (`transfer_roundtrip`). `OnlyVerbIsLost` shows that nothing else is
   lost below the depth limit. It follows that a token attests a statement up
   to its verb.

## 4. The proofs

From `PoolAssumption` (`NoThread` is no thread, at least one slot, usage one
of three) `QueryPoolProofs` shows, for any threads, slots, modes:

* `TypeCorrect`, by `TypeInv == TypeOK /\ FrameOK`. A type invariant alone is
  not inductive: `StoreLevel` needs to know that the frame of a call in
  `"store"` belongs to an operation with a target stage.
* `MutexCorrect` and `FirstFit`, by `ScanInv`: the holder of the mutex is the
  thread that scans, so the slots it has passed cannot be freed, because
  `FreeSlot` needs the mutex.
* `OwnedCorrect` and `NoSharedHandle`, under `Usage = "owned"`, by `OwnedInv`.
  `HeldInv` relates `active`, `held` and where each thread works: without
  "a thread works only on slots it holds" the disjointness of handles is not
  preserved by `AllocClaim`.
* `StaleRefused`, `AloneNothingLeaks` and `HandleKnown`, for one thread and *any*
  usage, by `AloneInv`: what is active is what the thread holds, so a stale
  handle finds its slot inactive; with a second thread this is false
  (`pool_stale`). For `HandleKnown`: the scan stops at the first inactive slot, and
  alone the thread holds all before it. `vqlut_parse` never writes the `out_handle`
  that its comment says "receives handle on success" (`main.zig:193`), and the
  tests infer the handle in this way; with a second thread the inference is
  wrong, at once.
* `LevelCorrect` and `StageForward`, under either of these disciplines
  (`Disciplined`), by `PoolInv`. What the two have in common is `Exclusive`: a slot
  that a thread has a pointer to is active, and a slot a thread works on is
  worked on by no other. From that alone `SlotsTracked` follows, what a slot holds
  while a thread is at each point of a call, the unordered stores included:
  when a stage is stored the old one is still the one that was tested, and
  "level matches stage" is what remains when no store is pending. One thread
  with any handle is not under `HeldInv`, for it may reset a slot it does not hold.
* `TestsHold`, for any threads and any usage, of the pool with its history
  (`SharedSpec`, which implies `Spec` by `SharedIsPool`). `NothingUnearned` says what
  the stored fields are vouched for by; its invariant `TestedAt` adds what is about
  to be stored (`CallAt`: a call past its test has been recorded, and its level is one
  that its operation grants), that tests are passed in order (`InOrderAt`), and that
  one `vqlut_parse` alone configures a query, because a mode stored late may raise
  what `compile` grants but not lower it. Nothing is assumed of what the other calls
  on the query have stored in between. A call that outlived its query is kept out by
  `intruded`: `BegunTested` shows that a slot that is claimed with no such call about
  starts with no call that can store by an old test.

The last part of it is `PoolRefines`, that under `Disciplined` the pool implements
`QueryPipeline`. Of a slot a thread stores to is seen what that thread tested,
and `OneStores` (from `Exclusive`) makes the thread, a CHOOSE in the mapping,
unique; `Seen` says so of this state and the next. Every step is then a stutter
(`CallStutters` to `StartStutters`) but the last store of a call, which is a
`Begin` or an `Advance` (`StoreRefines`), and the reset of an active slot, a
`Discard` (`FreeRefines`); the reset of an inactive one is not to be seen. That
each new level and stage is the abstract one is `StoringAt`.

`IntactQueriesRefine` carries this over to callers that share handles, with no
discipline assumed: the pool with its history implements `QueryPipeline` as far as
queries go that no two calls have worked on at once. `Exclusive` is false there, and
what takes its place is local: as long as a slot's query is not in `overlapped`, one
call at most may store to the slot (`Solo`) and `TrackedAt` holds of it (`ClearInv`).
`LifeSolo` shows that its steps are the pipeline's, `ClaimSolo` that a query starts so
whatever was left in the slot, and `OtherSlotsShown` that a step on one slot is not to
be seen in another, where queries may well be overlapped. A query that becomes
overlapped is shown as discarded.

`GateProofs` shows for any requests, schemas, deciders and level inference
within 0..10 (`CertifierAssumption`, `GateAssumption`): `TypeCorrect`,
`Invariance` (`GateInv`, one conjunct per place where `run` can be, with the
certifier's loop invariant `LoopInv` inside), `ReportAgrees`,
`VersionRefused`, and `GateIsPure`, the refinement of `Admission`: the step
that answers is `Answered`, every other step stutters.

Two more are about the gate over the levels of `Decider` (`VettingAssumption`).
`FieldsDeclared` and `PredicatesVetted` go from the exit code to the certified
level (`ReportAgrees` and `LetThrough`: exit 0 means that every level up to the
requested one passed), from the clauses of the operation to the level they make
the parser request (`InferRequestedLevel`), and from the level to what it tests.
They say that the guess of the parser is never below what the clauses need.
Nothing is used of the walk `Parts`: any walk will do, as long as levels and
property take the same one.

`CertifierProofs` has the step lemma of the level loop, for any meaning of the
levels, on which three modules rest. `RecomputeProofs` shows from
`CertifierAssumption` that `vcl_recompute` returns a level only for what decodes
to it (`RecomputeIsSound`). Over the levels of `Decider` (`ConformanceAssumption`,
and that epistemic clauses name agents of a finite set, `AgentsAssumption`) it shows

* `PortFollowsCorpus` and `PortAgreesWithCorpus`: level by level the port passes
  what the corpus passes, and fails nothing else where no operand is of
  unresolved type or a record and no cycle has more than two agents. The runs
  compare some 4 000 statements; the theorems all of them.
* `CycleTestIsExact`: the closure of `Decide.idr`, with as many steps as there
  are edges, finds a cycle exactly when the agents cannot be ranked. A comment
  there argues it and no theorem of the corpus says it. If a rank exists every
  pair of the closure goes up in it (`RankedClosure`), so no agent reaches itself.
  If none exists, some set of agents has no first one (`RankExists`, by induction
  over the size of the set: a first agent is ranked below the rest), and one can
  walk back in it for ever. After as many steps as there are pairs the walk has
  taken a pair twice (`WalkingBackRepeats`, the pigeonhole), and with fuel n the
  closure has every walk of at most n + 1 pairs (`WalksFound`): the agent that comes
  twice reaches itself within the fuel.

`WireProofs` shows, for decoders called on any bytes, any widths and any limit
(`WireAssumption`),

* `WireTypeCorrect` and `DepthIsBalanced`, by `WireInv`. Every entry of the tables is
  a production over the types there are, so whatever discriminant is read, the
  calls it announces are of decoders that exist, and open no guard: such steps
  are `Quiet`. Only `Enter` adds a `leave` and only `Leave` and `Unwind` take one,
  with the depth; `Open` counts them in a sequence.
* `AcceptsOwnStreamsWhole` and `AnotherMagicIsRefused`, by `FrameInv`: the phase a
  decoder is in is known from where its cursor is, and `end` is the last call to
  make until it is made. So "Ok" means own magic, own version and no byte left
  over, and another magic is answered `BadMagic` whatever follows it.
* `TransferDecodes`: the decoder of `Transfer` implements `WireSpec`, whatever is
  sent and whatever the seam does, so all of the above holds of the run's
  specification; and with `TransferInv`, which follows the bytes over the seam,
  `MixUpIsRefused`, the run's `MixUpRefused`.

`RoundTripProofs` puts the decoder next to the encoder. The calls still to make,
`todo`, are a program for a machine with a stack and some bytes;
`Follows(how, k, calls, a, b)` says that running it leads from `a` to `b`, by what
each call has to do with a value and its encoding, and nothing of how. A value's
own encoding is never computed: each leaf uses its equation once.

* `TransfersAreCanonical`: accepted bytes are the encoding of what is returned,
  whatever came over the seam; `DecodingIsCanonical` says it of a decoder alone. The
  invariant is `Explained`: *whatever* bytes are still to come, if the calls under
  way would end with them, then the bytes taken so far followed by these are the
  encoding of what is returned. `Canonical` speaks of the end only; a value is built
  of items that are bound together later, so in between there is no value to
  compare bytes with, and the quantifier over the rest takes its place. A step
  takes some bytes, and replaces a call by the calls it makes: for each table entry
  one shows that these explain the call (`ProduceExplained`, `UndoneExplained`). That
  a flag is 0 or 1, that no count is cut down and that nothing follows the end
  are each needed for it. The theorem has one hypothesis, `EncodesByTables`: that
  `Writes`, which `ValuesAssumption` says of the values sent, holds of every value.
  It is the defining equation of `Put`, and a hypothesis because damaged bytes may
  decode to any value, not only to those in the transfer.
* `AllButTheVerbArrives` (`OnlyVerbIsLost`), from the assumptions alone, with the
  invariant `Foreseen`: while the decoder of an intact stream runs, its calls
  lead from what is built and to come to what was sent, without its verbs. With the
  stack goes the depth, and a flag, 1 if something ahead nests deeper than the
  limit. The flag is handed from call to call with the value that is too deep, so
  that no `enter` is refused while it is 0 and one must be while it is 1; for
  "TooDeep exactly if" both directions are needed, and that no other error can
  come first: every tag, flag, count and length that was written is one the
  decoder takes (`SumForeseen` and its neighbours).

`Induction` is what these proofs use where others would use induction over a
predicate: the library's theorem has an operator for a parameter, so induction is
stated of a set and proved from the minimal element of its complement.

`AttestProofs` shows, from `AttestAssumption` (bytes
decode to at most one value, the calls are well typed), `TypeCorrect`,
`ChannelsCorrect` and `AcceptedCorrect`, by the invariant `AttestInv`:

* `CallInv`, the loop invariant for the decoded arguments, while the loop runs;
* `Honest`, that every signature is on the level of its statement and schema;
* `DeliveryInv`, what buffer and message hold at each point of a call, without
  which `ChannelsAgree`, a statement about idle states, is not inductive;
* `AcceptedInv`, that what was accepted is issued.

`AcceptedIsCertified` is then `AcceptedInv` and `Honest`: the consumer's trust
in the key and the bytes it holds are all the argument needs, not who called.

Only model-checked:

* liveness (`MutexReleased`, `PointerCallReturns`, `DecoderReturns`,
  `CallReturns`), which the prover does not do;
* `ParsesAsMeant` and `NothingDropped`, which relate the recursive parser to the
  text of a tree: inductions over texts, through operators that are recursive;
* that the recursive operators obey their equations (`ValuesAssumption`, which TLC
  evaluates on everything the run sends), and that the instances are right: that
  `Subtrees`, `ParseOp` and `Put` are what the code does.

## 5. The plan

Done: the pool, the certifier, the gate, the deciders, the corpus's
differences, the recompute tier, the parser, the codec and their composition,
the attestation tier; theorems for every safety property of the runs but the two
of the section before, which are about the parser. Next, in this order:

1. The parser as a machine of calls under way, as the decoder is here: then
   `ParsesAsMeant` is in reach of the argument of `Foreseen`.
2. The step variants behind the liveness properties: what a decoder has left to do
   decreases in a well-founded order, as a lemma on `Decode`.

## 6. What is not modelled

The linter and the formatter map text to text. The Idris corpus is proved in
Idris; only its decision procedure matters here, as the reference of the
port. `WireDecode.idr`, the corpus's own decoder of the first stream, is not
modelled: its fuel and its proof of totality are Idris's. JSON, the lexer's
characters, the wording of reasons and errors, and the layout of C structures
are left out: no property depends on them. The WASM guest's allocator is left
out; its decisions are not affected by it. `vqlut_abi_version` returns a
constant and `vqlut_last_error` the message.

The language server keeps nothing between two requests: its handlers answer with
fixed text or from the position in the request alone, every notification is
ignored, and the binary never fetches the schema that `lib.rs` could fetch. One
request is answered before the next is read. That a request it does not know
gets no answer (`lsp/src/main.rs:165`) is plain from the line and would be no more
in a model. The debug adapter has one thread per client with a counter of its
own, and its execution of a query is a stub; the ECHIDNA client makes stateless
HTTP calls, one attempt each. A model of any of the three would have no state
that two steps share.
