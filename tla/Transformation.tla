--------------------------- MODULE Transformation ---------------------------
(***************************************************************************)
(* One transformation of a plugin at work: a batch of samples goes in, the *)
(* samples of the read buffer come out on loan, and return_loan clears     *)
(* them for the next batch.  What happens to one sample depends on the     *)
(* plugin: JSON text of a sample of a flat type in either direction, or    *)
(* the text of one primitive field.                                        *)
(*                                                                         *)
(* A message of the model is a JSON text that parses or not, with values   *)
(* for some members; a field with a value; or any text, of which only the  *)
(* size matters.                                                           *)
(***************************************************************************)
EXTENDS TransformationPlugin, MemberValue

CONSTANTS
  Observed,      (* the transformation                                     *)
  Users,         (* threads that use it; only the first without mutexes    *)
  FirstUser,
  Admin,         (* the thread that updates it                             *)
  OutputTypes,   (* sequences of members [name, type, optional, max_len]   *)
  Fields,        (* the types a field may have                             *)
  Misread,       (* what a text and the bytes behind it may be read as     *)
  Batches,       (* sequences of messages: what may go in                  *)
  Properties,    (* the serialized sizes that a user sets: [min, incr, max]*)
  Unset,         (* a property that the user leaves out                    *)
  DefaultSize,
  MaxBatches     (* bounds the model                                       *)

ASSUME ObservedAssumption ==
  /\ Observed \in Transformations
  /\ FirstUser \in Users /\ Admin \notin Users /\ NoOne \notin Users \cup {Admin}

(* Sizes are unsigned, and the default is positive. *)
ASSUME SizesAssumption ==
  /\ Unset \in Int /\ Unset < 0 /\ DefaultSize \in Nat \ {0}
  /\ \A p \in Properties : {p.min, p.incr} \subseteq Nat \cup {Unset} /\ p.max \in Int

(* The members of a struct have names of their own. *)
ASSUME OutputTypesAssumption ==
  \A type \in OutputTypes :
    /\ type \in Seq(ToSet(type))
    /\ \A i, j \in DOMAIN type : type[i].name = type[j].name => i = j

(* Routing Service transforms what it has read; no text is empty. *)
ASSUME BatchesAssumption ==
  /\ MaxBatches \in Nat
  /\ \A messages \in Batches :
       /\ messages \in Seq(ToSet(messages)) /\ messages # <<>>
       /\ \A message \in ToSet(messages) :
            /\ message.size \in Nat \ {0}
            /\ message.value \in Int
            /\ \A name \in DOMAIN message.json : message.json[name].value \in Int

ASSUME MisreadAssumption == Misread \subseteq Int

VARIABLES
  kind,          (* what the transformation does                           *)
  sizes,         (* its configured sizes                                   *)
  mappings,      (* the members of its output type, in order               *)
  field_type,
  lock,          (* its lock                                               *)
  pc,            (* of each user: "idle", "work" in a call, "loan"         *)
  batch,         (* the messages of each user's call                       *)
  made,          (* out_samples_initd                                      *)
  samples,       (* read_buffer                                            *)
  loaned,        (* read_buffer_loaned                                     *)
  buffer_size,   (* json_buffer_size or msg_payload_size                   *)
  has_buffer,    (* json_buffer or msg_payload is allocated                *)
  failed_serialization,
  fields,        (* what is set in the samples that came in, in order      *)
  sent,          (* messages given so far                                  *)
  batches,       (* batches that may still come                            *)
  residue,       (* history: slots a failed batch has written              *)
  judged,        (* history: <<size, accepted>> of the texts made          *)
  undefined      (* a text was written past its buffer                     *)

bufferVars == <<buffer_size, has_buffer, failed_serialization, fields, judged,
                undefined>>
sampleVars == <<batch, made, samples, loaned, residue>>
configVars == <<kind, sizes, mappings, field_type>>
callVars == <<configVars, lock, pc, sampleVars, bufferVars, sent, batches>>
vars == <<pluginVars, callVars>>

Kinds == {"noop", "JSON out", "JSON in", "field out", "field in"}
Members == {"text"} \cup {m.name : m \in UNION {ToSet(type) : type \in OutputTypes}}

(* A member of a sample has a value and the identity of its message.       *)
Nothing == [id |-> 0, value |-> 0]
Empty == [m \in Members |-> Nothing]
NoSample == [m \in {} |-> Nothing]

-----------------------------------------------------------------------------
(* parse_from_properties of the two configurations.  The smallest size is  *)
(* also the step of growing until that is set.  A field has one size.      *)
Or(property, default) == IF property = Unset THEN default ELSE property

JSON_config(p) ==
  LET min == Or(p.min, DefaultSize) IN
  [min |-> min, incr |-> Or(p.incr, min), max |-> p.max]

field_config(p) == [min |-> 0, incr |-> 0, max |-> Or(p.max, DefaultSize)]

Config(p) == IF kind \in {"field in", "field out"} THEN field_config(p) ELSE JSON_config(p)

(* A configuration that a transformation is made with.                     *)
ConfigAccepted ==
  /\ kind \in {"field in", "field out"} => sizes.max > 0 /\ field_type \in FieldTypes
  /\ kind = "JSON in" => IsFlat(ToSet(mappings))

Init ==
  /\ PluginInit
  /\ kind \in Kinds
  /\ \E p \in Properties : sizes = Config(p)
  /\ mappings \in IF kind = "JSON in" THEN OutputTypes ELSE {<<>>}
  /\ field_type \in IF kind \in {"field in", "field out"} THEN Fields ELSE {"none"}
  /\ lock = NoOne
  /\ pc = [u \in Users |-> "idle"]
  /\ batch = [u \in Users |-> <<>>]
  /\ made = 0
  /\ samples = <<>>
  /\ loaned = FALSE
  /\ buffer_size = 0 /\ has_buffer = FALSE /\ failed_serialization = FALSE
  /\ fields = <<>>
  /\ sent = 0 /\ batches = MaxBatches
  /\ residue = {} /\ judged = {}
  /\ undefined = FALSE

-----------------------------------------------------------------------------
(* JSON in: members are stored in the order of the type until one fails.   *)

Missing(message, m) == m.name \notin DOMAIN message.json

FailsAt(message, m) ==
  IF Missing(message, m) THEN ~m.optional ELSE ~Accepts(m, message.json[m.name])

deserialize_ok(message) == message.parses /\ \A m \in ToSet(mappings) : ~FailsAt(message, m)

Reached(message, i) == message.parses /\ \A j \in 1 .. i : ~FailsAt(message, mappings[j])

(* The members that a message sets before it is refused, if it is.         *)
SetBy(message) ==
  {i \in DOMAIN mappings : ~Missing(message, mappings[i]) /\ Reached(message, i)}

Stored(sample, entry) ==
  [name \in Members |->
    LET set == {i \in SetBy(entry.body) : mappings[i].name = name} IN
    IF set = {} THEN sample[name]
    ELSE LET m == mappings[CHOOSE i \in set : TRUE] IN
         [id |-> entry.id, value |-> MemberValue(m, entry.body.json[name])]]

(* JSON out: RTI_TSFM_realloc_buffer.  A buffer that may not grow is freed;*)
(* the next one starts from the smallest size again.                       *)
GrownFromOldSize == IF buffer_size = 0 THEN sizes.min ELSE buffer_size + sizes.incr
NeverGrown == sizes.min
Grown == IF ~has_buffer \/ buffer_size = 0 THEN sizes.min ELSE buffer_size + sizes.incr
TooLarge(size) == sizes.max > 0 /\ size > sizes.max

-----------------------------------------------------------------------------
(* T_transform: the lock of the transformation, then the batch.  While the *)
(* samples are lent the call fails and the caller gets nothing.            *)

AlreadyLoaned == loaned

Enters(u) == stage[Observed] = "live" /\ ~undefined /\ (use_mutex \/ u = FirstUser)

Extended(n) ==
  [i \in 1 .. (IF n > Len(samples) THEN n ELSE Len(samples)) |->
    IF i \in DOMAIN samples THEN samples[i] ELSE NoSample]

transform(u, messages) ==
  /\ Enters(u)
  /\ pc[u] = "idle"
  /\ batches > 0
  /\ lock = NoOne
  /\ batches' = batches - 1
  /\ IF AlreadyLoaned
     THEN UNCHANGED <<lock, pc, batch, made, samples, sent>>
     ELSE /\ lock' = IF use_mutex THEN u ELSE NoOne
          /\ pc' = [pc EXCEPT ![u] = "work"]
          /\ batch' = [batch EXCEPT ![u] =
               [i \in DOMAIN messages |-> [body |-> messages[i], id |-> sent + i]]]
          /\ made' = 0
          /\ samples' = Extended(Len(messages))
          /\ sent' = sent + Len(messages)
  /\ UNCHANGED <<pluginVars, configVars, loaned, residue, bufferVars>>

Here(u) == batch[u][made + 1]

(* A sample of the buffer is created when it is needed first. *)
Created == IF samples[made + 1] = NoSample THEN Empty ELSE samples[made + 1]

(* One message is done: the next one, or the loan. *)
Succeed(u, sample) ==
  LET last == made + 1 = Len(batch[u]) IN
  /\ samples' = [samples EXCEPT ![made + 1] = sample]
  /\ made' = made + 1
  /\ loaned' = last
  /\ pc' = [pc EXCEPT ![u] = IF last THEN "loan" ELSE "work"]
  /\ lock' = IF last THEN NoOne ELSE lock
  /\ UNCHANGED <<batch, residue>>

(* The call fails: no sample is cleared, the caller gets nothing. *)
Fail(u, sample) ==
  /\ samples' = [samples EXCEPT ![made + 1] = sample]
  /\ residue' = residue \cup 1 .. made + 1
  /\ batch' = [batch EXCEPT ![u] = <<>>]
  /\ pc' = [pc EXCEPT ![u] = "idle"]
  /\ lock' = NoOne
  /\ UNCHANGED <<made, loaned>>

noop(u) == kind = "noop" /\ Succeed(u, Created) /\ UNCHANGED bufferVars

JSON_deserialize(u) ==
  LET sample == Stored(Created, Here(u)) IN
  /\ kind = "JSON in"
  /\ IF deserialize_ok(Here(u).body) THEN Succeed(u, sample) ELSE Fail(u, sample)
  /\ UNCHANGED bufferVars

(* The text goes into the sample, which may not have room for it. *)
Text(entry) == [id |-> entry.id, value |-> 0]
SetText(u, fits) ==
  IF fits THEN Succeed(u, [Created EXCEPT !["text"] = Text(Here(u))]) ELSE Fail(u, Created)

(* One round of the loop of serialize: a larger buffer if the last one was *)
(* too small, then the text.                                               *)
JSON_serialize(u, fits) ==
  LET size  == Here(u).body.size
      grows == failed_serialization \/ ~has_buffer \/ buffer_size = 0
      room  == IF grows THEN Grown ELSE buffer_size IN
  /\ kind = "JSON out"
  /\ IF grows /\ TooLarge(room)
     THEN /\ has_buffer' = FALSE
          /\ failed_serialization' = FALSE
          /\ judged' = judged \cup {<<size, FALSE>>}
          /\ Fail(u, Created)
          /\ UNCHANGED buffer_size
     ELSE /\ has_buffer' = TRUE /\ buffer_size' = room
          /\ failed_serialization' = (size > room)
          /\ IF size > room
             THEN samples' = [samples EXCEPT ![made + 1] = Created]
                  /\ UNCHANGED <<lock, pc, batch, made, loaned, residue, judged>>
             ELSE SetText(u, fits) /\ judged' = judged \cup {<<size, TRUE>>}
  /\ UNCHANGED <<fields, undefined>>

(* The buffer of a field has its largest size at once, and is not looked   *)
(* at when the text is written.                                            *)
field_serialize(u, fits) ==
  /\ kind = "field out"
  /\ has_buffer' = TRUE
  /\ buffer_size' = IF has_buffer THEN buffer_size ELSE sizes.max
  /\ IF Here(u).body.parses
     THEN /\ undefined' = (Here(u).body.size > buffer_size')
          /\ SetText(u, fits)
     ELSE Fail(u, Created) /\ UNCHANGED undefined
  /\ UNCHANGED <<failed_serialization, fields, judged>>

(* The text is one that field_serialize wrote.  As many bytes are copied    *)
(* as the buffer has: of a shorter text, also the bytes behind it.         *)
Payload(text) ==
  {FieldText(field_type, text.value)} \cup (IF text.size < buffer_size THEN Misread ELSE {})

(* A text that is longer than every one before gets a buffer, and fails.   *)
(* Any other sets the field of the sample that came in: the one that is    *)
(* lent stays as it was.                                                   *)
field_deserialize(u) ==
  LET longer == Here(u).body.size > buffer_size IN
  /\ kind = "field in"
  /\ has_buffer' = (has_buffer \/ longer)
  /\ buffer_size' = IF longer THEN Here(u).body.size ELSE buffer_size
  /\ \/ longer /\ Fail(u, Created) /\ UNCHANGED fields
     \/ /\ ~longer
        /\ \E n \in Payload(Here(u).body) :
             \/ FieldValue(field_type, n) = {} /\ Fail(u, Created) /\ UNCHANGED fields
             \/ \E value \in FieldValue(field_type, n) :
                  /\ Succeed(u, Created)
                  /\ fields' = [i \in 1 .. made + 1 |-> IF i <= made THEN fields[i] ELSE value]
  /\ UNCHANGED <<failed_serialization, judged, undefined>>

Convert(u) ==
  /\ pc[u] = "work" /\ ~undefined
  /\ \/ noop(u)
     \/ JSON_deserialize(u)
     \/ \E fits \in BOOLEAN : JSON_serialize(u, fits) \/ field_serialize(u, fits)
     \/ field_deserialize(u)
  /\ UNCHANGED <<pluginVars, configVars, sent, batches>>

(* T_return_loan *)
ClearedButLast(u) == 1 .. Len(batch[u]) - 1
Cleared(u) == 1 .. Len(batch[u])

return_loan(u) ==
  /\ pc[u] = "loan" /\ ~undefined
  /\ lock = NoOne
  /\ samples' = [i \in DOMAIN samples |-> IF i \in Cleared(u) THEN Empty ELSE samples[i]]
  /\ residue' = residue \ Cleared(u)
  /\ loaned' = FALSE
  /\ batch' = [batch EXCEPT ![u] = <<>>]
  /\ pc' = [pc EXCEPT ![u] = "idle"]
  /\ UNCHANGED <<pluginVars, configVars, lock, made, bufferVars, sent, batches>>

(* T_update does nothing, and takes the lock a second time at its end.     *)
update ==
  /\ stage[Observed] = "live" /\ ~undefined
  /\ use_mutex /\ lock = NoOne
  /\ lock' = Admin
  /\ UNCHANGED <<pluginVars, configVars, pc, sampleVars, bufferVars, sent, batches>>

(* Routing Service deletes a transformation that no call is in.            *)
Delete(t) ==
  /\ delete_transformation(t)
  /\ IF t = Observed
     THEN /\ \A u \in Users : pc[u] = "idle"
          /\ samples' = <<>> /\ residue' = {}
          /\ has_buffer' = FALSE /\ buffer_size' = 0
     ELSE UNCHANGED <<samples, residue, has_buffer, buffer_size>>
  /\ UNCHANGED <<configVars, lock, pc, batch, made, loaned, failed_serialization, fields,
                 judged, undefined, sent, batches>>

(* A transformation is made with a configuration that is accepted only.    *)
Build ==
  /\ PluginStep
  /\ stage'[Observed] = "made" => ConfigAccepted
  /\ UNCHANGED callVars

Next ==
  \/ Build
  \/ \E u \in Users :
       \/ \E messages \in Batches : transform(u, messages)
       \/ Convert(u)
       \/ return_loan(u)
  \/ update
  \/ \E t \in Transformations : Delete(t)

(* A call that has begun goes on. *)
Spec == Init /\ [][Next]_vars /\ \A u \in Users : WF_vars(Convert(u))

-----------------------------------------------------------------------------
(* The sample that a message makes of an empty one. *)
Given(entry) ==
  CASE kind = "JSON in" -> Stored(Empty, entry)
    [] kind \in {"JSON out", "field out"} -> [Empty EXCEPT !["text"] = Text(entry)]
    [] OTHER -> Empty

(* A sample on loan has what its own message gives it, and nothing of an   *)
(* earlier one; where a field is deserialized that is nothing, since the   *)
(* value is set in the sample that came in.  The code can break this in    *)
(* one way only: a sample that a failed call had written before keeps the  *)
(* members that its new message does not have.                             *)
LoanIsFresh ==
  \A u \in Users : pc[u] = "loan" =>
    \A i \in DOMAIN batch[u] : \A m \in Members :
      \/ samples[i][m] = Given(batch[u][i])[m]
      \/ i \in residue /\ Given(batch[u][i])[m] = Nothing

(* A sample on loan has the numbers of its text: each one unchanged if its *)
(* type has that number, and otherwise - no range is checked - a number of *)
(* the type that differs from it by a multiple of the type's size.         *)
NumbersAreKept ==
  \A u \in Users : pc[u] = "loan" /\ kind = "JSON in" =>
    \A i \in DOMAIN batch[u] : \A m \in ToSet(mappings) :
      LET json  == batch[u][i].body.json
          value == samples[i][m.name].value IN
      m.name \in DOMAIN json /\ m.type \in IntegerTypes =>
        /\ value \in Values(m.type)
        /\ json[m.name].value \in Values(m.type) => value = json[m.name].value
        /\ (json[m.name].value - value) % Modulus(m.type) = 0

(* The values that can be read from the text that is written of them: not  *)
(* octets from ten on (written in hexadecimal, read in decimal) nor the    *)
(* upper half of the longest unsigned type (read with strtol).             *)
Survivors(type) ==
  CASE type = "boolean" -> {0, 1}
    [] type = "octet" -> 0 .. 9
    [] type = "ulonglong" -> 0 .. Largest
    [] type \in IntegerTypes \ {"octet", "ulonglong", "enum"} -> Values(type)
    [] OTHER -> {}

(* A field that was written and is read back has its value again in the    *)
(* sample that came in, if that is a survivor and no text before was       *)
(* longer: a shorter text is read on behind its end.                       *)
FieldsAreKept ==
  \A u \in Users : pc[u] = "loan" /\ kind = "field in" =>
    \A i \in DOMAIN batch[u] :
      LET text == batch[u][i].body IN
      text.size = buffer_size /\ text.value \in Survivors(field_type) =>
        fields[i] = text.value

(* What a text says is what a sample has afterwards: for the members of    *)
(* JSON the one on loan, and for a field the one that came in.             *)
ValuesAreKept == NumbersAreKept /\ FieldsAreKept

(* The sizes that growing goes through. *)
Fits(size) ==
  \E n \in 0 .. size :
    LET grown == sizes.min + n * sizes.incr IN
    /\ grown > 0
    /\ size <= grown
    /\ ~TooLarge(grown)

(* Whether a text is accepted depends on its size and the configuration,   *)
(* and not on the texts before it: neither a buffer that an earlier text   *)
(* made larger nor one that was freed when it could not grow decides.      *)
SizeDecides ==
  \A verdict \in judged : verdict[2] <=> Fits(verdict[1])

(* Sizes that cannot grow to hold a text, and no largest size that ends it.*)
Hopeless(size) ==
  /\ sizes.min = 0 \/ (sizes.incr = 0 /\ size > sizes.min)
  /\ ~TooLarge(sizes.min)

(* A call returns, unless the text of JSON cannot fit a buffer that does   *)
(* not grow: then the loop never ends, with the lock of the transformation.*)
CallsEnd ==
  \A u \in Users : (pc[u] = "work") ~>
    \/ pc[u] # "work"
    \/ undefined
    \/ kind = "JSON out" /\ Hopeless(Here(u).body.size)
=============================================================================
