# Verification of the Routing Service plugins

TLA+ models of the plugins for RTI Routing Service in this repository: the MQTT
adapter, the file adapter, the processors and the transformations. Modules and
TLC configurations are in this directory, and `PROJECT.json` maps every
definition to the lines it models, lists the runs, the mutants (plausible bugs
that each property must catch), the hazards and the theorems.

    tlc -config CircularQueue.cfg MCCircularReceiveQueue
    tlapm CircularReceiveQueueProofs.tla

Paths below are relative to `src/plugins/`, and `src/README.md` is the
repository's own. In comments of the modules a file name with a line stands for
the file of that name there.

## 1. The system

Routing Service loads the plugins and calls them. A *route* takes samples from
stream readers, hands them to a processor or a transformation, and writes them
with stream writers. One session thread runs all the callbacks of a route;
adapters bring threads of their own, and that is where most of the difficulty
is.

| Component | State it keeps | Operations | Hard behaviour |
|---|---|---|---|
| Receive queue (`adapters/mqtt/src/mqtt/Message.c`) | ring or sequence of messages, cursors, read buffer and its loan, status counters | receive, read (loan or copy), return_loan | library thread against readers; wrap-around; half-done reads |
| MQTT client (`Client.c`, `ClientApiPaho.c`) | connection state, subscriptions, publications, pending requests, `mqtt_lock` | connect, disconnect, subscribe, unsubscribe, publish, unpublish; answers, lost connection, arriving message | threads that wait for answers; timeouts and late answers; loss and reconnection |
| Publication (`Publication.c`, `Client.c`) | request shared by all messages, last QoS, counters | write; on_write_result, on_write_delivery_result | unlocked counters, late answers |
| Stream writer (`adapter/MessageWriter.c`) | a publication | create, write of a batch, delete | a batch that fails half-way |
| Subscription, stream reader (`Subscription.c`, `adapter/MessageReader.c`) | queue, listener | create, read, return_loan, notification, delete | listener installed after subscribing |
| Topic filters (`Infrastructure.c`, `Subscription.c`) | none | match | an index moved by hand and by the loop |
| Broker connection (`adapter/BrokerConnection.c`) | one client for all its sessions, lists of readers and writers | create/delete session, reader, writer | constructors that fail at each step |
| Adapter properties (`adapter/Properties.c`) | a configuration | parse | copied blocks of code; conversions |
| File adapter (`adapters/file/src`) | two `FILE`s on one file, arrays of samples, properties | reader thread, read, update, write, create and delete | a thread that rewinds the file another reads; failures inside a line |
| Forwarding processor (`processors/fwd/src`) | matching table, cache of input members | construct, on_data_available | which row wins; what one failing sample takes with it |
| Python processor (`processors/pyprocessor/src`) | wrappers of inputs, outputs and loans, interpreter lock | route events, look-ups, take, write | who holds the lock; life time of wrappers |
| Transformations (`transformations`) | list of the plugin, read buffer and its loan, text buffer | create, transform, return_loan, update, delete | constructors that fail; residue of failed batches; growing buffers |
| Forwarding properties, vendored JSON parser, examples, unit testers | none over time | | not modelled |

How they interact. A subscription of the client owns a receive queue: the thread
of the MQTT library (Paho) matches an arriving message against the filters of
every subscription (`Client.c` on_message_arrived), puts it in the queues that
match, and notifies the stream reader's listener; the session then reads the
queue by loan. A stream writer writes through a publication, which submits to
the library under the client's `mqtt_lock` and waits on the guard condition of a
request; callbacks of the library set that condition. When the connection is
lost, a thread is spawned that deletes and creates the library's client and
calls connect() again. The file adapter, the processors and the transformations
touch each other only through Routing Service.

What makes each component correct:

* the queue delivers in order and at most once, drops only the oldest message of
  a full ring, keeps a loan stable, and its counters account for everything;
* the client does one connect or disconnect at a time, every answer reaches the
  caller that asked, subscriptions survive a reconnection, and calls return;
* a message that was stored is announced and read, and no reader is called after
  its deletion;
* the publication's return codes and counters say what happened to each message,
  a batch counts what was published, and deletion leaves nothing behind;
* the filters match what MQTT says they match, and what the user configures
  takes effect;
* the file adapter reads back exactly what was stored, and in loop mode serves
  every sample again and again;
* the forwarding processor routes by the table it was given and loses only the
  samples that fail;
* Python code runs under the interpreter lock, and no wrapper is freed in use;
* a transformed sample holds what its own message says and nothing of an
  earlier one, and a call ends.

## 2. The modules

| Module | Models | Notes |
|---|---|---|
| `MessageInbox` | the promise of a receive queue | abstract specification: in order, at most once, only the oldest dropped and only when full |
| `CircularReceiveQueue` | a queue of `capacity > 0` | each call holds the queue's lock, so it is one step |
| `UnboundedReceiveQueue` | a queue of `capacity = 0` | same; a cleared pointer left in the sequence is the value `Broken` |
| `MessageDelivery` | library thread, subscriptions, stream readers, session | extends `UnboundedReceiveQueue`: the queue of one reader in full |
| `MqttClient` | client, pending requests, lost-connection thread | one step per critical section, submission or wake-up |
| `Publication` | write_w_params and both callbacks | loads and stores of `pending_count` are separate steps |
| `StreamWriter` | the life of writers and publications, batches | extends `Publication`: the writes of one writer in full |
| `TopicFilter` | the scanner of filters | one step for each round of its loop; an index is a place, a level and a character in it |
| `AdapterProperties` | the parsers of the adapter | one step for each property looked up; extends `TopicFilter`: the filters are those that were configured |
| `FileText` | a file's text, a line to a sample and back | data abstracted to pieces: head, tail, newline, malformed |
| `FileAdapter` | writer, reader, its thread, the session | one step per call of stdio |
| `ForwardingEngine` | table, keys, cache, on_data_available | pattern matching is the parameter `Matches` |
| `PythonProcessor` | interpreter lock, wrappers, a script | one step per call a script can make |
| `TransformationPlugin` | life of a plugin and its transformations | the list of the plugin, each failure of each constructor |
| `Transformation` | batches and loans of one transformation | extends the module above |
| `MemberValue` | one value into a member or a field and back | pure; an integer type has `Half` values below and above zero, or twice as many from zero |
| `MC...` | small instances of the above | values of the constants only |
| `...Proofs` | theorems about the module of that name; `PublicationProofs`: `StreamWriter` too; `TransformationProofs`: `TransformationPlugin` and `MemberValue` too; `MessageDeliveryProofs`: `UnboundedReceiveQueue`, `TopicFilter` and `AdapterProperties` too | see 5 |

**Receive queue.** A message is the number of its arrival, a slot holds that
number or `NULL`. `slot, size, head, next, next_unread, read_buffer` and the four
counters are the fields of `RTI_MQTT_MessageReceiveQueue`; `loaned_to` is
`read_buffer_loaned` together with the sequence that has the loan. Readers are DDS
sequences: those without a buffer get loans, the others copies. `Receive`,
`LoanRead`, `CopyRead`, `CopyReadFails` (the k-th copy fails, after k-1 messages
were copied and deleted), `RejectedRead` (arguments refused or a loan is out; the
error path calls return_loan), `CrashingRead` (follows a cleared pointer) and
`ReturnLoan` are the paths through receive, read and return_loan. `head` is
assigned twice in one expression (`Message.c:508`), so either value may be stored.
That DDS fails to copy a sample is external. Excluded as a use the API cannot
mean: reading by copy into a sequence that holds a loan at that moment.

**Delivery.** `position` and `step` are the loop of on_message_arrived, which
holds `sub_lock`: match, store, look at the listener, call it. A reader goes
through `phase`: it subscribes, and only then stores the listener and its data,
in two steps that no lock protects; deletion unsubscribes (which waits for
`sub_lock`) and frees. Of all readers but the observed one only the place in the
two lists matters, since the loop is the same for each. `undefined` records what
ends the process's defined behaviour: a call into a freed reader, a listener
called before its data was stored, a message that the library delivers again after it
was freed (`ClientApiPaho.c:709`). With owner "application" the same queue is used by
callers that read as they like, copies included.

**Client.** `pc` says where each thread is: about to ask the library, waiting, or
in a step of its own. A command in flight remembers who asked and where the answer
is to be stored; a command whose request is gone when the answer comes is a store
through a dangling address, recorded in `crashed`. The library and the broker are
external: `Serve`, `Answer`, `Lose`. A message that cannot be stored is the single
action `MessageFails`, which is all the client's state machine sees of it. The thread
of a lost connection deletes and creates the library's client; if that fails
(`ClientApiPaho.c:612`) the thread ends without a look at the state and `created` is
FALSE for good (`RenewClient`). Three histories record what connect() and disconnect()
cannot see: `overwritten` (threads whose state another thread wrote by set_state while
they operated), `mingled` (a second operation began beside one of them) and
`overlooked` (a loss whose thread ended without finding the client CONNECTED).

**Publication and stream writer.** The writer and the callback are two sequential
processes over the counters, the request and `last_write_qos`. Counters wrap at
`CounterModulus` (2^32 in the code). Around them, `create_stream_writer` may fail
at every step and releases what it has built by then; a call writes `batch`
samples one after the other and stops at the first that fails; a writer may be
deleted while the library has a message of a write that timed out.

**Properties and topic filters.** A text is a number, a word, a name or a list of
pieces. A parser looks its properties up in the order of the source
(`lookup_property`); each is converted and stored in a field, or ends the parse.
connect then makes the library's options of the result, unless the client cannot be
created without a server or an id (`CannotCreate`), and a subscription makes its
filters. A topic and a filter are sequences of levels, because that is how MQTT says
what filters mean; an index of the scanner is a level and the number of characters
of it that come before, and `At` shows the scanner the character there, slash and
NUL included. Each step of `Subscription_match` is a round of the loop with its
increments, or the end of the loop, after which the next filter is tried.

**File adapter.** `disk` is the text on disk and `out` what the writer's `FILE` has
not flushed (stdio may write any prefix of it at any time, `Spill`). `pos` and
`eof` are the reader's `FILE`. The test of feof and the fgets after it are one step:
only fgets sets the flag and only the thread that has just seen it set clears it.
update() parses both sample counts again (`divisors`), so that one it does not name
becomes 0.
Undefined behaviour stops the model: `fclose(NULL)` when the file cannot be opened
(`FileAdapter.c:471`), division by zero unless both sample-count properties are set
(`FileAdapter.c:212`), and an index outside the arrays after update().

**Forwarding engine.** The constructor adds the rows one by one (`AddRow`), so the
table is checked after each prefix of the configuration; samples arrive only after
that. on_data_available is split at take() and at each sample. `DropSample` covers
every way out of forward_data; it is always possible, because the write may throw.

**Python processor.** In a service that a Python program loaded, a session asks by two
swaps of the process-wide thread state whether it holds the interpreter lock already,
and takes the lock if not; between the swaps and in between the calls of a script
other threads run. A service that loads Python itself asks nothing and takes no lock
at all (`PyProcessor.cxx:143`): its events are in Python at once, beside the thread
that keeps the lock. `Unlocked` says which sessions run without the lock, and `Race`
what that may do to a callback. `refs` is the reference count of the wrapper of each
port and `owners` who has a reference to it: the route, the event under way, the
script. The observed route's script is any sequence of the calls that the classes
offer (look-ups, take, index, keep, drop, write by sample and by dictionary, each of
which may raise), or a *careful* one, which reads `.data` before it indexes a sample,
indexes it once, drops its samples within the callback and leaves disabled ports
alone. Freed memory that is touched is `undefined`. The sample to write is a static of
the process: that of the first output that called write, of this route or another
(`Foreign`), even after it is gone (`Gone`). What a dictionary becomes in that buffer
is left out; that a value cannot be converted (`PyDynamicData.cxx:532`, `:741`) is a
write that raises before the writer is called.

**Transformations.** The four pieces of a transformation (state, configuration,
parent, entry of the list) may each fail to be made, and what the destructors then
free is `pieces`; with `RTI_TSFM_USE_MUTEX` undefined the locks are absent and one
user remains. transform converts the messages of a batch one by one into the read
buffer, so that a failure leaves the samples before it written. The conversions of
values are in `MemberValue`: casts, base and sign of the texts. A field is deserialized
into the sample that *came in* (`fields`), and the sample on loan stays empty; as many
bytes as the longest text had are read of every later one, so that a shorter text may
be read as something else (`Misread`).

## 3. The runs

Twelve runs: nine must pass, and in three the code contradicts a statement in its own
sources. "Disagreements" below are those of section 4.

| Run | Instance | Shows |
|---|---|---|
| `CircularQueue` | 3 slots, 2 loaning readers, 1 copying (2 samples), 7 messages, copies may fail | slots, cursors and counters agree (`RingHoldsNewest`, `Conservation`); loans are stable; delivery in order even after failed copies; until a copy fails the ring implements `MessageInbox` |
| `FullRing` (violation) | same | a read does not take all available messages (`ReadTakesAllAvailable`): of a full ring it takes none |
| `MessageDelivery` | 2 stream readers with 4 messages for the observed one, or an application with the same three readers of the queue and 6 messages | nothing waits unannounced but messages older than the listener; nobody calls a freed reader; each message stored with a listener is read; until a read damages the sequence it implements `MessageInbox` |
| `ClientCalls` | six budgets. Patient callers: 2 applications with 2 connects and 2 disconnects, or 1 connect and 1 loss; 1 application with 2 connects, 1 disconnect, 1 loss and 1 failing message, or 1 connect, 1 disconnect and 2 losses. With timeouts and a broker that may never answer: 1 application and 1 loss, with 1 connect and 1 disconnect or 1 connect and 1 failing message | of two operations at once one was overwritten (`OneOperation`); until that lets a second one in, answers meet the callers that wait (`AnswersAreAwaited`) and each subscription is on the broker while CONNECTED (`SubscriptionsOnBroker`); CONNECTED means a connection or a loss about to be noticed (`ConnectedHasLink`); every call with a timeout returns (`CallsReturn`) |
| `ClientStuck` (violation) | 1 application | a failed connect() leaves CONNECTING for good |
| `TopicFilterMatching` | every property alone and with every other of its object, good texts and bad; every filter of up to 3 levels alone, malformed ones included, and pairs of shorter ones with empty pieces, along all topics of up to 3 levels | what is set takes effect and nothing else changes, except both times once the keep-alive period is set, and three defaults; where the scanner agrees with MQTT 3.1.1 and where exactly it may not |
| `PublicationWrites` | 2 writers, 3 messages in batches of up to 2, any QoS, modulus 3, timeouts, failing constructors, deletion | counters balance, write() tells the truth and a batch counts what was published until a write times out; for QoS 0 and 1 every answer is counted once, whatever timed out; an answer finds a deleted publication only after a timeout; a constructor that fails leaves no trace in either list |
| `FileReadsBack` | 2 samples, files whose last line has no end or is malformed, batches of 1 and 2, updates (one of them without a sample count) and deletion at any time | what was stored is what is read, in order (`ReadBack`); the arrays are left only after update() raised SamplesPerRead (`WithinArrays`); with Loop every sample is served again and again (`EverySampleServed`) |
| `FileKeepTruncates` (violation) | same, 3 samples | mode `keep` refuses an existing file and empties it |
| `ForwardingTable` | all tables of up to 2 rows over 5 names and patterns and 3 output names, 2 inputs, 2 samples of any quality | a configured key is always found; the last alias decides the output of an entry; each sample is written once, in order, or dropped alone |
| `Transformations` | 2 transformations, 2 users, 2 batches of 1 or 2 messages, every kind of transformation, with and without mutexes, 9 choices of buffer sizes, 3 output types, 4 types of a field, texts shorter than earlier ones | samples on loan hold what their messages say and, but for the residue of a failed batch, nothing else; numbers of JSON survive in the sample on loan, and a field in the sample that came in unless its text is shorter than an earlier one (`ValuesAreKept`); acceptance depends on the size of a text alone; calls end unless the buffer cannot grow; the list is that of the live transformations, and only refused types leave a piece behind |
| `PythonProcessor` | the main thread, 2 sessions, 1 input, 2 outputs; 2 + 2 events in a service that Python loaded, 5 + 1 events in one that loads Python | who runs Python has the lock but for the events of `Unlocked`, and the lock is given back (`LockGuardsPython`); references are counted; what a careful script can meet is a race with such an event or the buffer of an output that has gone (`CarefulScriptIsSafe`) |

**Bounds.** Each is a constant named in the module. *Ring*: seven messages go twice
round three slots and then past a full ring; three slots distinguish "one left",
"some" and "full", and two sequences that take loans are enough for one to meet the
loan of the other. *Delivery*: a second reader stands before or behind the observed
one in the list and may leave at any time; four messages put some before, between and
after the two stores of the listener. *Client*: the shared state is the state machine,
the client's own requests and the conditions; two threads suffice for any pair of
calls to interleave, two losses for one thread of a loss to find the other
reconnecting, and two commands in flight overlap. *Filters*: three levels have a
first, an inner and a last, and among the levels one is the beginning of another; the
second filter of a list is tried in the same way as the first. *Properties*: a block
that writes another's field shows with two properties at a time. *Publication*: a word
of 3 wraps within three messages, and a batch of two may fail in either place. *File*:
two samples and two kinds of initial text (a malformed line after a sample, and two
samples, neither with an end of its last line) put a rewind before, inside and after a
batch; texts are at most a few lines long because a line is only ever next to one
other. *Forwarding*: with two rows a row meets an earlier one that covers it, one that
does not, or one that does not match itself. *Transformations*: integer types of 8 to
11 bits keep the order of the real ones, and the sizes make the first buffer large
enough, growing in one or two steps, stopped by the limit, or hopeless. *Python*: two
sessions are enough for one to find the other's thread state, and for one to run
beside the other without the lock; the second budget lets ports go and come back while
the script keeps them. Where section 5 has a theorem it removes the bound. Runs
disable the deadlock check because the bounds end every behaviour (no more messages,
calls or events) and because undefined behaviour, a service that stops or a lock that
is taken twice does.

**Fairness.** Four runs use it. `ClientCalls`: weak fairness for each thread of a
client whose callers have timeouts (they are operating-system threads and
`wait_for_request` gives up), nothing for callers without, for the library, the broker
or the beginning of a call; `CallsReturn` is about those with timeouts and holds
because a caller may give up. `MessageDelivery`: weak fairness of a delivery that has
begun, and of the session once it was told of data or holds a loan; nobody need send
messages, create or delete readers. `FileReadsBack`: weak fairness of the reader's
thread, of the session's read and of the join; nobody need write, update or delete.
`Transformations`: a call that has begun goes on; no call need begin.

**What the properties had to say.** A property that does not hold in general is stated
with the condition under which it does, and that condition is the finding:
`~copy_failed` in the ring, `Damaged` in the sequence, `unheard` (stored before the
listener) in the delivery, `Patient` (no write timed out) and `~qos2_used` in the
publication, `overwritten`, `mingled`, `overlooked` and timeouts in the client,
`Confused` (a keep-alive period was set) and `DefaultInDoubt` in the properties,
`grown` in the file adapter, `SelfMatching` in the forwarding table, `Unlocked` (an
event that takes no lock), an output that has gone and `careful` in the Python
processor, `residue`, `Hopeless`, the survivors of a field's text and texts shorter
than an earlier one in the transformations. These properties do not catch the hazard
that the exception names; they say that it is the only one, and sections 4 and
`hazards` in `PROJECT.json` say where it bites.

## 4. Where the code and its documentation disagree

Three of these are runs of their own:

1. *A full ring reads as empty* (`Message.c:797`): once every slot is taken, next and
   next_unread are equal as in an empty ring, and a read hands over nothing, although
   `rtiadapt_mqtt_client.h:667` says that it may "read all available messages". It stays
   that way for the life of the subscription, which is the theorem
   `FullIsForeverTheorem` for every capacity; a capacity of one delivers nothing.
2. *A failed connect() sticks in CONNECTING* (`Client.c:1144`), after which every
   connect and disconnect is refused; the header promises DISCONNECTED.
3. *Mode `keep` empties the file* (`FileAdapter.c:802`): the fopen with "w" comes
   before the error is looked at.

Others met while modelling, which the models contain as the code has them.

Receive queue and delivery:

* A partial read of the unbounded queue discards the rest (`Message.c:1068`). The
  move that closes the gap is guarded by `seq_len < tot_messages`, never true there;
  the read then cuts the sequence to the number of messages it left and keeps the
  cleared pointers. Loans take all there is, so the stream reader does not meet this.
* A message that arrives between subscribing and installing the listener is not
  announced until the next one (`MessageReader.c:89`).
* When a queue fails to receive, the callback frees the message and tells the library
  that it was not accepted; the library delivers the freed message again
  (`ClientApiPaho.c:709`).

Client and publication:

* A connection lost between the answer to connect and set_state(CONNECTED) is
  ignored (`Client.c:665`): the client is CONNECTED without a connection. The same
  happens when the thread of the lost connection cannot create the library's client
  again: it ends without calling on_connection_lost, and the client stays CONNECTED with
  no client of the library at all (`ClientApiPaho.c:605` to 617). `ConnectedHasLink`
  allows for both under the name `overlooked`.
* on_connection_lost tests the state, releases the lock and writes it
  (`Client.c:671`), and a message that cannot be stored writes ERROR whatever the state
  is (`Client.c:766`): either lets a second connect() or disconnect() in beside one
  that is under way, and they share requests and conditions. `OneOperation` says that
  it takes such a write (`overwritten`).
* unsubscribe() returns OK when the broker refused (`Client.c:1364`, against
  `rtiadapt_mqtt_client.h:534`).
* After a timeout a late answer is stored in a request that subscribe() deleted or
  on a stack that was unwound, or is taken by the next write() for its own
  (`Client.c:434`); unpublish() frees the request of a message that the library still
  has (`Client.c:1476`).
* publish() that could not make the publication goes on to delete the requests of a
  null publication with `pub_lock` held (`Client.c`, RTI_MQTT_Client_publish, `done`).
  A connection that fails to be built finalizes sequences it has not initialized, and
  Client_delete frees the client even when finalize was refused.
* With QoS 2 a failed message is counted twice when another write is pending, and
  `pending_count` wraps below zero after timeouts (`Publication.c:300`, `:264`).
* A single-level wildcard in the last level of a filter matches nothing, and a topic
  that is a prefix of the filter matches it (`Infrastructure.c:382` and `:414`);
  `AgreesWithStandard` says that nothing else differs.

Properties of the MQTT adapter:

* `client.keep_alive_period.*` is stored in the connection timeout
  (`Properties.c:510`); the period keeps its default.
* A time with a second or more of nanoseconds is refused because the test of the
  overflow is inverted (`Infrastructure.c:54`).
* An empty list is refused although the code means to accept it: set_length is
  compared with the wrong constant (`Properties.c:181`). Protocol version 5 is parsed,
  and connect refuses it. Numbers may be hexadecimal or octal, and a text that is no
  number is 0.
* `client.max_reply_timeout.sec` is documented as 10 and is 3,
  `client.unsubscribe_on_disconnect` is documented as `false` and is true, and
  `client.ssl.cypher_suites` is documented as `ALL` and is empty (its name in the code
  has a space in it). `PropertiesTakeEffect`
  claims nothing of these defaults (`DefaultInDoubt`), nor of the two times that the
  keep-alive period confuses.

File adapter and forwarding:

* `SamplesPerDisposedSample` and `SamplesPerUnregisteredSample` default to 0, as
  `src/README.md:279` documents, and are divisors (`FileAdapter.c:212`, `:216`); an
  explicit 0 is refused. update() parses them again: one that leaves them out sets both
  to 0, and the next read divides by zero (`FileAdapter.c:343`, `:370`).
  `MaxSamplesSize` in `src/README.md` is `MaxSampleSize` in the code. A missing file
  makes the clean-up close a `FILE` that was never opened (`FileAdapter.c:471`).
* A row whose key an earlier pattern matches redirects that pattern and adds no
  entry (`ForwardingEngine.cxx:72`). If the earlier pattern matches the later one
  as a string but not the names it stands for (`???` and `re*`), those names have
  no route.

Python processor:

* A service that loads Python itself takes no lock for any event
  (`PyProcessor.cxx:143`), so that the sessions of two routes run Python at once. In one
  that Python loaded, whether the thread has Python already is asked of a variable of the
  whole process (`PyProcessor.cxx:141`): an event that begins while another thread's
  state is current runs without the lock. `Unlocked` names both.
* stop() keeps the lock while Routing Service waits for its sessions
  (`PyService.cxx:66`): one that already waits for the lock never returns, and neither
  does stop(). An event that begins later finds the stopping thread's state and runs
  under it.
* The sample to write is static (`PyOutput.cxx:22`), one for the outputs of all routes:
  every later output writes the first one's buffer, over what the write before - one
  that raised half-way, too - left in it, and a freed one when that output is gone.
* An integer of a dictionary is converted as an unsigned one whatever the type of its
  member, so that a negative one is an error, and a boolean is refused
  (`PyDynamicData.cxx:741`, `:532`).
* A sample that is indexed by name gives a borrowed reference, and before `.data` was
  read it uses a null dictionary; a second look at `.info` is not counted. An event
  INPUT_ENABLED that a script rejects leaves its user data pointing to a freed wrapper.
  `processors/pyprocessor/rti/routing/proc.py` only says that samples must not outlive
  their loan; of `sample[name]` it says that it is the same as `sample.data[name]`.

Transformations:

* A batch that fails keeps what its messages wrote (`Transformation.c:535`): the next
  loan shows it in members that its own message does not set.
* update() ends with a second take of the lock instead of a release
  (`rtitransform_simple_tmplt_define.h:711`).
* A transformation whose types are refused is freed by two layers and leaks its
  parent (`FlatTypeTransformation.c:942`); plugin functions are freed twice when their
  parent fails.
* The JSON buffer of size zero or step zero grows forever
  (`FlatTypeTransformation.c:1033`).
* Integers of a JSON text are truncated unchecked, and a real member refuses an
  integer of the text (`FlatTypeTransformation.c:181`). An octet field is written in
  hexadecimal and read in decimal, the upper half of the longest unsigned type is read
  as its largest signed number, a string field is set from a null pointer, and the
  allocation of the text's buffer is tested the wrong way round
  (`PrimitiveFieldTransformation.c:641`), so that a text longer than every one before
  fails.
* A field is set in the sample that came in, not in the one that is lent. Of its text as
  many bytes are copied as the longest one had (`PrimitiveFieldTransformation.c:645`): a
  shorter one is read on behind its end.

## 5. What is proved

Each invariant that a passing run checks has a theorem, and so has each refinement;
liveness has none. Two theorems of the client, about answers and subscriptions, have
the hypothesis *Patient*; the others are about every behaviour. Assumptions are the
named `ASSUME`s of the modules: positive capacity, natural bounds, distinct names, a
word of at least two values, integer types in the order of their sizes with an octet
of 256 values (`HalfAssumption`), natural sizes or none given (`SizesAssumption`),
members of a struct with different names, a file that begins with whole or broken
lines of distinct samples (`TextsAssumption`), a topic that is not the empty string
(`TextAssumption`), a property `topics` that is a list of such texts
(`SettingsAssumption`); and, where the table says so, the hypothesis of the theorem.
Where a property itself is conditional (section 3), the theorem is of that property.

| Module | Theorems | For all |
|---|---|---|
| `CircularReceiveQueueProofs` | `TypeCorrect`, `RingOrder`, `CountersConserve`, `HeadFollows`, `FullIsForeverTheorem`, `RingKeepsPromise`, `LoansStay`, `DeliveryInOrder` | capacities, readers, messages |
| `MessageDeliveryProofs` | of the sequence: `QueueTypeCorrect`, `CountersConserve`, `UnboundedKeepsPromise`; of the delivery: `NeverCallsFreedReader`, `NothingWaitsUnannouncedTheorem`, `DeliveryKeepsPromise`, `ReaderHasAnInbox`; of filters and properties: `AgreesWithStandardTheorem`, `FailsOnEmptyLevelsTheorem`, `PropertiesTakeEffectTheorem` | readers, messages; filters and topics of any length, all texts of all properties |
| `MqttClientProofs` | `OneOperationTheorem`, `ConnectedHasLinkTheorem`; `AnswersAreAwaitedTheorem`, `SubscriptionsOnBrokerTheorem` (*Patient*) | applications, calls, losses, both options of the client |
| `PublicationProofs` | `StreamImplementsPublication`, `CountersSettle`, `WritesAreTruthful`, `AnswersAreCounted`, `CallsCountPublished`, `NoLateAnswer`, `FreedIsForgottenTheorem` | writers, messages, batches, widths of the counters |
| `FileAdapterProofs` | `FileTypeCorrect`, `WithinArraysTheorem`, `ReadBackTheorem` | files, samples, sizes, schedules |
| `ForwardingEngineProofs` | `TypeCorrect`, `TableFindsConfigured`, `LastAliasDecidesTheorem`, `EverySampleAccounted` | tables, inputs, samples, relations `Matches` |
| `PythonProcessorProofs` | `LockGuards`, `ReferencesAreCounted`, `CareIsEnough` | sessions, outputs, samples, scripts |
| `TransformationProofs` | `ListIsLiveTheorem`, `LeftBehindTheorem`, `LoanIsFreshTheorem`, `ValuesAreKeptTheorem`, `SizeDecidesTheorem`, `CallsComeNearerTheorem` | transformations, users, types, batches, sizes, widths of the integers |

**Ring.** The runs' invariants are not inductive one by one. The inductive invariant
`IInv` joins them under `~copy_failed`: types, `CursorsAgree` (next is size places
after next_unread), `RingHoldsNewest`, `Conservation`, `HeadIsNextUnread`.
CursorsAgree is the key: it turns what receive() tests (is the slot at next empty?)
into what the counters say (is size below Capacity?), and the loop bound of a read
into size modulo Capacity, that is, all messages or, when full, none.
`RingKeepsPromise`: initial states map to the inbox's, and a step in which no copy has
failed is an arrival, a take or a stutter of it. After a failed copy the cursors stay
on slots the read has emptied and `IInv` is lost; delivery in order then rests on
`OrderInv` alone: whatever slot a reader can reach holds a message newer than all
delivered ones (`ReachableIsNew`), the slots counted from next are in the order of
their arrival (`OldestFirst`), and none is of the future.

**Sequence.** `QueueInv` adds `OnlyDamageBreaks` (a cleared pointer anywhere means one
in front) to types and counters. `QueueTypeCorrect` and `CountersConserve` hold
unconditionally; `UnboundedKeepsPromise` until the front pointer is cleared.

**Delivery.** `LifeInv`: a reader stands in the client's list exactly while it is
between its creation and its unsubscription (`Listed`), and once; the list changes
only while no delivery is under way, so the subscription the library looks at has a
reader that is not freed. `Waiting`: storing a message is followed, with nothing of
the library in between, by telling the listener that was there. Every step of a
delivery is a step of the queue or leaves it alone, so that the promise of the inbox
holds with all the threads around it (`DeliveryKeepsPromise`); a queue that only a
stream reader reads is never damaged (`LoansOnly`) and keeps it without exception
(`ReaderHasAnInbox`).

**Filters and properties.** Both indices of the scanner are the same place (`InStep`),
because only a slash matches a slash and a wildcard ends its level in the filter and
in the topic; before that place the two agree level by level, if the filter is well
formed. Each way out of a round is then truthful of the filter at hand, and no message
was missed by the filters tried before (`FilterInv`). Of the parser, every field has
the text of its property if that was looked up and given, and the default otherwise
(`AsFarAsLooked`), with the exception of the confused times; so it has for all of them
at the end. That a time reaches the library in whole seconds is one fact of
arithmetic, `WholeSeconds`.

**Client.** Every step of a thread goes on with what it does, writes the state without
a look at it, or enters an operation after a look (`StepOf`). A thread in connect()
whose state was not overwritten has the state CONNECTING, and one in disconnect()
DISCONNECTING (`StateTold`), from which a second one is refused: `OneOperation`, with
losses, failing messages and timeouts. Until a second one came in (`mingled`) the
thread that operates is `Alone`, so among patient callers it is the only one to wait
for an answer to connect or disconnect (`SessionsAwaited`, `SessionsHeard`), and what
that answer says of the link holds until the thread sets CONNECTED, unless a loss is
still to be noticed or was overlooked (`LinkKnown`): `ConnectedHasLink`. *Patient*
means that no call times out, no connection is lost and no message fails. Whoever
asked then waits, and is the only one to wait on its condition, so that an answer that
is stored is read by the caller it is meant for (`AnswerInv`), and what it said of the
subscriptions (`SubsInv`) is still true when that caller acts on it. With losses these
two properties are only model-checked.

**Publication.** Every step of a stream writer and what surrounds it is a step of
`Publication` or leaves it alone (`StreamImplementsPublication`). A writer that does
not time out waits for each answer, so at most one message is in flight or in a
callback (`InStep`) and neither `last_write_qos` nor `pending_count` changes between a
load and its store; `Balanced` counts. `AnswersAreCounted` does not assume that: it
carries a congruence modulo `CounterModulus` through every position of the two
processes (`Light`). `FreedIsForgotten`: both lists grow at the end and lose the one
entry of a writer, so that they stay the same list (`ListsInv`), whichever constructor
fails.

**File adapter.** `WriterInv` orders the text: the samples in it, flushed or not, have
rising numbers, and what was stored has its end in it. `ReaderInv` says that what was
seen is what stands before the position, but for broken lines, and survives whatever
the writer appends behind it. `ReadBack` follows from both. A read goes on only while
the reader is open (`ReadsOpen`). `ListBehindCounter` and `SizedForReads`: the list a
read fills is never longer than its counter, and the arrays have the size of the read
unless update() raised it.

**Forwarding table.** `IInv` is `TypeOK`, `ConfiguredIsFound`, `LastAliasDecides` and
`FirstExists`: whatever matches a key has a first. The last one replaces the
well-ordering of the naturals: it is carried along as the table grows at its end.
A row either changes an output and no pattern (`RedirectStep`), so every lookup
finds what it found, or goes to the end (`AppendStep`), where it is first only for
keys that nothing matched before. `SInv` says that the places a sample can be in
(waiting, on loan, written, dropped) are apart, each is in the order of arrival, and
together they hold 1 to the number of arrivals.

**Python processor.** Three invariants. Of the lock (`LockInv`): in a service that
Python loaded, an event whose swap returned nothing asks for the lock (`LockIsAsked`),
one that asked has it while it runs (`AskedIsHeld`), and whoever holds or waits for it
will release it (`LockIsReleased`); in one that loads Python nobody asks
(`NothingAsked`) and the main thread keeps the lock. Of the references: the count is
the number of owners (`OwnersCounted`) and each enabled port has the route among its
owners (`RouteOwns`), from which it follows that a careful script meets no freed port.
Of the script (`CarefulInv`): samples on loan are of an enabled input, so that only
the static output and a race are left.

**Transformations.** `PluginInv`: while a transformation is made no other one is, so
the length of the list that was read is still its length, and what failed constructors
leave is told by the stage. `CallInv`: at most one user is at work or has the loan,
the slots that its call has not filled are empty or hold residue (`SlotsInv`), and
those that it has filled are fresh and hold the values of their messages (`MadeInv`);
the fields set in the samples that came in are those of their texts (`FieldsInv`).
`SizeInv`: the buffer has a size on the path from the first one in steps of the
increment, not above the limit, so that what earlier texts did to it decides nothing.
`CallsComeNearer` is a variant of the loop (messages to do, then the bytes that the
buffer lacks) that every step of the call makes smaller unless the text is hopeless.

**Model-checked only.** `AnswersAreAwaited` and `SubscriptionsOnBroker` with losses
and failing messages: their theorems assume *Patient*, and `ClientCalls` checks them
without. Every liveness property (`CallsReturn`, `EveryMessageRead`,
`EverySampleServed`, `CallsEnd`), because the prover has no rules for fairness; of
`CallsEnd` the safety half is proved. Induction over data is out of the prover's
reach; none of the proofs needs it, because what the code computes by a loop is a
sequence of steps here (the scanner, the parser, the read, the growing buffer), and
where a proof needs the first of some places it takes it from the well-ordering of the
naturals.

## 6. What is not modelled, and why

Formats and parsing of data where only wording is at stake (values of single members in
Python, real numbers in fields, escaping in JSON, members on a line of a file), options
of TLS, memory allocation failures except in constructors, finalization of the
receive queue, stdin and stdout in the file adapter, instance states of file samples
(only their divisors matter to control), the discovery of transformation libraries
(`UserPlugin.c`) and of processors, start() of the Python service and its selectors,
attributes of a connection, the rows of a forwarding table as JSON text, the vendored
JSON parser, examples and unit testers. A dynamic transformation plugin cannot be
initialized at all, so its use has no behaviour to model.

Assumed of the surroundings: one callback of the library at a time; one writer per
publication; recursive mutexes; Routing Service deletes a stream reader only between
reads, calls a route from one thread, creates one transformation at a time when mutexes
are compiled out, and does not open a file for truncation while a reader has it open;
lines fit in MaxSampleSize; the type of an input does not change; a text formatted from
a member determines its value.

## 7. Plan

What is left, in order of importance:

1. The client with losses: an invariant for `AnswersAreAwaited` and
   `SubscriptionsOnBroker` with the thread of a lost connection, as `ConnectedHasLink`
   has it, and the composition of a loss with `MessageDelivery`.
2. The instance states of file samples, and the rows of the forwarding table.
3. The progress of the other loops as `CallsComeNearer` states it for the
   transformations: the thread of the file reader, and the delivery of a message.

Twelve runs and about forty properties are what the project means to keep fast
enough to repeat after each change: a new property takes the place of a shallower one.
